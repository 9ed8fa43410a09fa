------------------------- MODULE PersistentDBProofs -------------------------
(***************************************************************************)
(* Proofs about the database with its own persistence, for every set of    *)
(* TxPoWs and any number of additions, failed writes, crashes and power    *)
(* losses.                                                                 *)
(***************************************************************************)
EXTENDS PersistentDB, FiniteSetTheorems, NatSetInduction, TLAPS

-----------------------------------------------------------------------------
(* The rows of a transaction.                                              *)

Kinds == {"block", "coin", "spend"}
RowsOfKind(k) == [kind : {k}, id : IF k = "block" THEN TxPoWs ELSE Coins, number : Int]
AllRows == UNION {RowsOfKind(k) : k \in Kinds}

\* The list of a finite set has its elements.
LEMMA ListOfSet ==
  ASSUME NEW S, IsFiniteSet(S)
  PROVE  SetToSeq(S) \in Seq(S) /\ Range(SetToSeq(S)) = S
<1> DEFINE n == Cardinality(S)
           f == SetToSeq(S)
<1>1. n \in Nat /\ ExistsBijection(1 .. n, S)
  BY FS_CardinalityType
<1>2. \E g : g \in [1 .. n -> S] /\ IsInjective(g)
  BY <1>1 DEF ExistsBijection, Bijection, Injection
<1>3. f \in [1 .. n -> S] /\ IsInjective(f)
  BY <1>2, Zenon DEF SetToSeq
<1> HIDE DEF f
<1>4. IsFiniteSet(1 .. n) /\ Cardinality(1 .. n) = n
  BY <1>1, FS_Interval
<1>5. f \in Injection(1 .. n, S)
  BY <1>3 DEF Injection
<1>6. f \in Surjection(1 .. n, S)
  BY <1>4, <1>5, FS_Injection
<1>7. f \in Seq(S)
  BY <1>1, <1>3
<1>8. Range(f) = S
  BY <1>3, <1>6 DEF Surjection, Range
<1> QED BY <1>7, <1>8 DEF f

\* Three lists one after the other.
Concatenation(s, a, b, c) ==
  /\ Len(s) = Len(a) + Len(b) + Len(c)
  /\ \A i \in 1 .. Len(a) : s[i] = a[i]
  /\ \A i \in 1 .. Len(b) : s[Len(a) + i] = b[i]
  /\ \A i \in 1 .. Len(c) : s[Len(a) + Len(b) + i] = c[i]

LEMMA Concatenated ==
  ASSUME NEW S, NEW a \in Seq(S), NEW b \in Seq(S), NEW c \in Seq(S)
  PROVE  a \o b \o c \in Seq(S) /\ Concatenation(a \o b \o c, a, b, c)
BY DEF Concatenation

\* What persistBlock writes of a block: the block, then the coins it creates,
\* then those it spends.
Writes(b, k) ==
  IF k = "block" THEN {b} ELSE IF k = "coin" THEN Range(Outputs[b]) ELSE Inputs[b]

AreRows(b, s) ==
  /\ s \in Seq(AllRows)
  /\ \A i \in 1 .. Len(s) :
       /\ s[i].kind \in Kinds /\ s[i] \in RowsOfKind(s[i].kind)
       /\ s[i].id \in Writes(b, s[i].kind) /\ s[i].number = Number[b]
  /\ \A k \in Kinds : \A x \in Writes(b, k) :
       \E i \in 1 .. Len(s) : s[i].kind = k /\ s[i].id = x
  /\ \A i \in 1 .. Len(s) : \A j \in 1 .. i : s[j].kind = "spend" => s[i].kind = "spend"

LEMMA RowsAre == ASSUME NEW b \in TxPoWs PROVE AreRows(b, Rows(b))
<1> USE HeaderAssumption, BodyAssumption, PersistAssumption
<1> DEFINE N(kind, ids) ==
             [i \in DOMAIN ids |-> [kind |-> kind, id |-> ids[i], number |-> Number[b]]]
           o == Outputs[b]
           p == SetToSeq(Inputs[b])
           A == N("block", <<b>>)
           B == N("coin", o)
           C == N("spend", p)
           s == Rows(b)
<1>1. Number[b] \in Int /\ o \in Seq(Coins) /\ Inputs[b] \subseteq Coins
  OBVIOUS
<1>2. p \in Seq(Inputs[b]) /\ Range(p) = Inputs[b] /\ p \in Seq(Coins)
  <2>1. IsFiniteSet(Inputs[b])
    OBVIOUS
  <2>2. p \in Seq(Inputs[b]) /\ Range(p) = Inputs[b]
    BY <2>1, ListOfSet
  <2> HIDE DEF p
  <2> QED BY <1>1, <2>2
<1>3. s = A \o B \o C
  BY DEF Rows
<1> HIDE DEF o, p, s
<1>4. /\ A \in Seq(AllRows) /\ Len(A) = 1 
      /\ A[1] = [kind |-> "block", id |-> b, number |-> Number[b]]
  <2>1. [kind |-> "block", id |-> b, number |-> Number[b]] \in AllRows
    BY <1>1 DEF AllRows, RowsOfKind, Kinds
  <2>2. DOMAIN <<b>> = 1 .. 1 /\ <<b>>[1] = b
    OBVIOUS
  <2> QED BY <2>1, <2>2
<1>5. /\ B \in Seq(AllRows) /\ Len(B) = Len(o) /\ Len(o) \in Nat
      /\ \A i \in 1 .. Len(o) : B[i] = [kind |-> "coin", id |-> o[i], number |-> Number[b]]
  <2>1. DOMAIN o = 1 .. Len(o) /\ Len(o) \in Nat /\ \A i \in 1 .. Len(o) : o[i] \in Coins
    BY <1>1
  <2>2. \A i \in 1 .. Len(o) : [kind |-> "coin", id |-> o[i], number |-> Number[b]] \in AllRows
    BY <1>1, <2>1 DEF AllRows, RowsOfKind, Kinds
  <2> QED BY <2>1, <2>2
<1>6. /\ C \in Seq(AllRows) /\ Len(C) = Len(p) /\ Len(p) \in Nat
      /\ \A i \in 1 .. Len(p) : C[i] = [kind |-> "spend", id |-> p[i], number |-> Number[b]]
  <2>1. DOMAIN p = 1 .. Len(p) /\ Len(p) \in Nat /\ \A i \in 1 .. Len(p) : p[i] \in Coins
    BY <1>2
  <2>2. \A i \in 1 .. Len(p) : [kind |-> "spend", id |-> p[i], number |-> Number[b]] \in AllRows
    BY <1>1, <2>1 DEF AllRows, RowsOfKind, Kinds
  <2> QED BY <2>1, <2>2
<1> HIDE DEF A, B, C
<1> DEFINE m == Len(o)
           n == Len(p)
<1>7. /\ s \in Seq(AllRows) /\ Len(s) = 1 + m + n
      /\ s[1] = [kind |-> "block", id |-> b, number |-> Number[b]]
      /\ \A i \in 1 .. m : s[1 + i] = [kind |-> "coin", id |-> o[i], number |-> Number[b]]
      /\ \A i \in 1 .. n : s[1 + m + i] = [kind |-> "spend", id |-> p[i], number |-> Number[b]]
  <2>1. s \in Seq(AllRows) /\ Concatenation(s, A, B, C)
    BY <1>3, <1>4, <1>5, <1>6, Concatenated
  <2>2. /\ Len(s) = 1 + m + n /\ s[1] = A[1]
        /\ \A i \in 1 .. m : s[1 + i] = B[i]
        /\ \A i \in 1 .. n : s[1 + m + i] = C[i]
    BY <1>4, <1>5, <1>6, <2>1 DEF Concatenation
  <2>3. \A i \in 1 .. m : s[1 + i] = [kind |-> "coin", id |-> o[i], number |-> Number[b]]
    BY <1>5, <2>2
  <2>4. \A i \in 1 .. n : s[1 + m + i] = [kind |-> "spend", id |-> p[i], number |-> Number[b]]
    BY <1>6, <2>2
  <2>5. s[1] = [kind |-> "block", id |-> b, number |-> Number[b]]
    BY <1>4, <2>2
  <2> QED BY <2>1, <2>2, <2>3, <2>4, <2>5
<1>8. m \in Nat /\ n \in Nat
  BY <1>5, <1>6
<1>9. /\ Range(o) = {o[i] : i \in 1 .. m}
      /\ Inputs[b] = {p[i] : i \in 1 .. n}
      /\ \A i \in 1 .. m : o[i] \in Coins
      /\ \A i \in 1 .. n : p[i] \in Coins
  BY <1>1, <1>2 DEF Range
<1> HIDE DEF m, n
\* Where the row at a position comes from.
<1>10. ASSUME NEW i \in 1 .. Len(s)
       PROVE  \/ i = 1
              \/ \E j \in 1 .. m : i = 1 + j
              \/ \E j \in 1 .. n : i = 1 + m + j
  <2>1. CASE i = 1
    BY <2>1
  <2>2. CASE i \in 2 .. 1 + m
    <3>1. i - 1 \in 1 .. m /\ i = 1 + (i - 1)
      BY <1>8, <2>2
    <3> QED BY <3>1
  <2>3. CASE i > 1 + m
    <3>1. i - 1 - m \in 1 .. n /\ i = 1 + m + (i - 1 - m)
      BY <1>7, <1>8, <2>3
    <3> QED BY <3>1
  <2> QED BY <1>7, <1>8, <2>1, <2>2, <2>3
<1>11. ASSUME NEW i \in 1 .. Len(s)
       PROVE  /\ s[i].kind \in Kinds /\ s[i] \in RowsOfKind(s[i].kind)
              /\ s[i].id \in Writes(b, s[i].kind) /\ s[i].number = Number[b]
              /\ s[i].kind = "spend" <=> i > 1 + m
  <2>1. CASE i = 1
    BY <1>1, <1>7, <1>8, <2>1 DEF Kinds, RowsOfKind, Writes
  <2>2. ASSUME NEW j \in 1 .. m, i = 1 + j
        PROVE  /\ s[i].kind \in Kinds /\ s[i] \in RowsOfKind(s[i].kind)
               /\ s[i].id \in Writes(b, s[i].kind) /\ s[i].number = Number[b]
               /\ s[i].kind = "spend" <=> i > 1 + m
    <3>1. s[i] = [kind |-> "coin", id |-> o[j], number |-> Number[b]]
      BY <1>7, <2>2
    <3>3. ~ (i > 1 + m)
      BY <1>8, <2>2
    <3>2. o[j] \in Writes(b, "coin") /\ o[j] \in Coins
      BY <1>9 DEF Writes, o
    <3> QED BY <1>1, <3>1, <3>2, <3>3 DEF Kinds, RowsOfKind
  <2>3. ASSUME NEW j \in 1 .. n, i = 1 + m + j
        PROVE  /\ s[i].kind \in Kinds /\ s[i] \in RowsOfKind(s[i].kind)
               /\ s[i].id \in Writes(b, s[i].kind) /\ s[i].number = Number[b]
               /\ s[i].kind = "spend" <=> i > 1 + m
    <3>1. s[i] = [kind |-> "spend", id |-> p[j], number |-> Number[b]] /\ i > 1 + m
      BY <1>7, <1>8, <2>3
    <3>2. p[j] \in Writes(b, "spend") /\ p[j] \in Coins
      BY <1>9 DEF Writes
    <3> QED BY <1>1, <3>1, <3>2 DEF Kinds, RowsOfKind
  <2> QED BY <1>10, <2>1, <2>2, <2>3
<1>12. ASSUME NEW k \in Kinds, NEW x \in Writes(b, k)
       PROVE  \E i \in 1 .. Len(s) : s[i].kind = k /\ s[i].id = x
  <2>1. CASE k = "block"
    <3>1. 1 \in 1 .. Len(s) /\ s[1].kind = k /\ s[1].id = x
      BY <1>7, <1>8, <2>1 DEF Writes
    <3> QED BY <3>1
  <2>2. CASE k = "coin"
    <3>1. PICK j \in 1 .. m : x = o[j]
      BY <1>9, <2>2 DEF Writes, o
    <3>4. s[1 + j] = [kind |-> "coin", id |-> o[j], number |-> Number[b]]
      BY <1>7
    <3>2. s[1 + j].kind = k /\ s[1 + j].id = x
      BY <2>2, <3>1, <3>4
    <3>3. 1 + j \in 1 .. 1 + m + n
      BY <1>8
    <3> QED BY <1>7, <3>2, <3>3
  <2>3. CASE k = "spend"
    <3>1. PICK j \in 1 .. n : x = p[j]
      BY <1>9, <2>3 DEF Writes
    <3>4. s[1 + m + j] = [kind |-> "spend", id |-> p[j], number |-> Number[b]]
      BY <1>7
    <3>2. s[1 + m + j].kind = k /\ s[1 + m + j].id = x
      BY <2>3, <3>1, <3>4
    <3>3. 1 + m + j \in 1 .. 1 + m + n
      BY <1>8
    <3> QED BY <1>7, <3>2, <3>3
  <2> QED BY <2>1, <2>2, <2>3 DEF Kinds
<1>13. ASSUME NEW i \in 1 .. Len(s), NEW j \in 1 .. i, s[j].kind = "spend"
       PROVE  s[i].kind = "spend"
  <2>1. j \in 1 .. Len(s) /\ j \in Nat /\ i \in Nat /\ j <= i
    BY <1>7, <1>8
  <2>2. j > 1 + m
    BY <1>11, <1>13, <2>1
  <2>3. i > 1 + m
    BY <1>8, <2>1, <2>2
  <2> QED BY <1>11, <2>3
<1> QED BY <1>7, <1>11, <1>12, <1>13 DEF AreRows, s

-----------------------------------------------------------------------------
(* One statement.                                                          *)

CoinRows == [created : Int, spent : Int]
BlockRows == {B \in SUBSET TxPoWs : IsFiniteSet(B)}
Tables == [blocks : BlockRows, coins : UNION {[D -> CoinRows] : D \in SUBSET Coins}]

\* A statement is bound to a row of its own kind.
Bounds ==
  {bs \in [Kinds -> AllRows \cup {NoRow}] :
     \A k \in Kinds : bs[k] = NoRow \/ bs[k] \in RowsOfKind(k)}
Runs == [tables : Tables, bound : Bounds]

\* What Write makes of the tables.
Written(t, row, u) ==
  /\ u \in Tables
  /\ u.blocks = IF row.kind = "block" THEN t.blocks \cup {row.id} ELSE t.blocks
  /\ DOMAIN u.coins = IF row.kind = "coin" THEN DOMAIN t.coins \cup {row.id}
                                           ELSE DOMAIN t.coins
  /\ LET marked == IF row.kind = "spend" THEN {row.id} \cap DOMAIN t.coins ELSE {}
     IN  /\ Spent(u.coins) \subseteq Spent(t.coins) \cup marked
         /\ row.number # -1 => Spent(u.coins) = Spent(t.coins) \cup marked

LEMMA WriteDoes ==
  ASSUME NEW t \in Tables, NEW k \in Kinds, NEW row \in RowsOfKind(k)
  PROVE  Written(t, row, Write(t, row))
<1> DEFINE u == Write(t, row)
<1>1. PICK D \in SUBSET Coins : t.coins \in [D -> CoinRows]
  BY DEF Tables
<1>2. t = [blocks |-> t.blocks, coins |-> t.coins] /\ t.blocks \in BlockRows
  BY DEF Tables
<1>3. row.kind = k /\ row.number \in Int /\ row.id \in IF k = "block" THEN TxPoWs ELSE Coins
  BY DEF RowsOfKind
<1>4. ASSUME NEW E \in SUBSET Coins, NEW f \in [E -> CoinRows], NEW B \in BlockRows
      PROVE  [blocks |-> B, coins |-> f] \in Tables
  BY DEF Tables
<1>5. CASE k = "block"
  <2>1. u = [blocks |-> t.blocks \cup {row.id}, coins |-> t.coins]
    <3>1. u = [t EXCEPT !.blocks = @ \cup {row.id}]
      BY <1>3, <1>5 DEF Write
    <3> QED BY <1>2, <3>1
  <2>3. t.blocks \cup {row.id} \in BlockRows
    BY <1>2, <1>3, <1>5, FS_AddElement DEF BlockRows
  <2>2. u \in Tables
    BY <1>1, <1>4, <2>1, <2>3
  <2> HIDE DEF u
  <2> QED BY <1>3, <1>5, <2>1, <2>2 DEF Written, u
<1>6. CASE k = "coin"
  <2> DEFINE f == [c \in D \cup {row.id} |->
                     IF c \in D THEN t.coins[c] ELSE [created |-> row.number, spent |-> -1]]
  <2>1. u = [blocks |-> t.blocks, coins |-> f]
    <3>1. u = [t EXCEPT !.coins = [c \in DOMAIN @ \cup {row.id} |->
                 IF c \in DOMAIN @ THEN @[c] ELSE [created |-> row.number, spent |-> -1]]]
      BY <1>3, <1>6 DEF Write
    <3>2. DOMAIN t.coins = D
      BY <1>1
    <3> QED BY <1>2, <3>1, <3>2
  <2>2. f \in [D \cup {row.id} -> CoinRows]
    <3>1. [created |-> row.number, spent |-> -1] \in CoinRows
      BY <1>3 DEF CoinRows
    <3> QED BY <1>1, <3>1
  <2>3. Spent(f) = Spent(t.coins)
    <3>1. \A c \in D \cup {row.id} : c \notin D => f[c].spent = -1
      OBVIOUS
    <3>2. \A c \in D : f[c] = t.coins[c]
      OBVIOUS
    <3>3. DOMAIN f = D \cup {row.id} /\ DOMAIN t.coins = D
      BY <1>1
    <3> HIDE DEF f
    <3> QED BY <3>1, <3>2, <3>3 DEF Spent
  <2>4. D \cup {row.id} \in SUBSET Coins
    BY <1>3, <1>6
  <2> HIDE DEF f, u
  <2>5. u \in Tables
    BY <1>2, <1>4, <2>1, <2>2, <2>4
  <2>6. u.blocks = t.blocks /\ u.coins = f /\ DOMAIN f = D \cup {row.id} /\ DOMAIN t.coins = D
    BY <1>1, <2>1, <2>2
  <2> QED BY <1>3, <1>6, <2>3, <2>5, <2>6 DEF Written, u
<1>7. CASE k = "spend"
  <2> DEFINE g(c) == [t.coins[c] EXCEPT !.spent = row.number]
             f == [c \in D |-> IF c = row.id THEN g(c) ELSE t.coins[c]]
  <2>1. u = [blocks |-> t.blocks, coins |-> f]
    <3>1. u = [t EXCEPT !.coins = [c \in DOMAIN @ |->
                 IF c = row.id THEN [@[c] EXCEPT !.spent = row.number] ELSE @[c]]]
      BY <1>3, <1>7 DEF Write
    <3>2. DOMAIN t.coins = D
      BY <1>1
    <3> QED BY <1>2, <3>1, <3>2
  <2>2. \A c \in D : g(c) \in CoinRows /\ g(c).spent = row.number
    <3>1. \A c \in D : t.coins[c] \in CoinRows
      BY <1>1
    <3> QED BY <1>3, <3>1 DEF CoinRows
  <2>3. f \in [D -> CoinRows]
    BY <1>1, <2>2
  <2>4. /\ \A c \in D : f[c].spent = IF c = row.id THEN row.number ELSE t.coins[c].spent
        /\ DOMAIN f = D /\ DOMAIN t.coins = D
    BY <1>1, <2>2
  <2> HIDE DEF f, u, g
  <2>5. /\ Spent(f) \subseteq Spent(t.coins) \cup ({row.id} \cap D)
        /\ row.number # -1 => Spent(f) = Spent(t.coins) \cup ({row.id} \cap D)
    BY <2>4 DEF Spent
  <2>6. u \in Tables
    BY <1>2, <1>4, <2>1, <2>3
  <2>7. u.blocks = t.blocks /\ u.coins = f
    BY <2>1
  <2> QED BY <1>3, <1>7, <2>4, <2>5, <2>6, <2>7 DEF Written, u
<1> QED BY <1>5, <1>6, <1>7 DEF Kinds

\* A step writes a row of its kind and leaves the other statements as they are.
LEMMA StepDoes ==
  ASSUME NEW run \in Runs, NEW k \in Kinds, NEW row \in RowsOfKind(k)
  PROVE  /\ BoundRow(run.bound, row) \in RowsOfKind(k)
         /\ Step(run, row) \in Runs
         /\ Step(run, row).tables = Write(run.tables, BoundRow(run.bound, row))
         /\ \A j \in Kinds : Step(run, row).bound[j] \in {run.bound[j], NoRow}
<1> DEFINE r == BoundRow(run.bound, row)
           bs == [run.bound EXCEPT ![row.kind] = NoRow]
<1>1. row.kind = k /\ run.tables \in Tables /\ run.bound \in Bounds
  BY DEF RowsOfKind, Runs
<1>2. r \in RowsOfKind(k)
  BY <1>1 DEF BoundRow, Bounds
<1>3. bs \in Bounds /\ \A j \in Kinds : bs[j] \in {run.bound[j], NoRow}
  BY <1>1 DEF Bounds
<1> HIDE DEF bs, r
<1>4. Step(run, row) = [tables |-> Write(run.tables, r), bound |-> bs]
  BY DEF Step, r, bs
<1>5. Write(run.tables, r) \in Tables
  BY <1>1, <1>2, WriteDoes DEF Written
<1> QED BY <1>2, <1>3, <1>4, <1>5 DEF Runs, r

-----------------------------------------------------------------------------
(* A transaction.                                                          *)

\* The run of a transaction, statement by statement.
IsRun(b) ==
  /\ \A n \in 0 .. Len(Rows(b)) : After(n, b) \in Runs
  /\ After(0, b) = [tables |-> tables, bound |-> bound]
  /\ \A n \in 1 .. Len(Rows(b)) : After(n, b) = Step(After(n - 1, b), Rows(b)[n])

LEMMA AfterIs ==
  ASSUME tables \in Tables, bound \in Bounds, NEW b \in TxPoWs
  PROVE  IsRun(b)
<1> DEFINE s == Rows(b)
           N == Len(s)
           x0 == [tables |-> tables, bound |-> bound]
           F == [k \in 1 .. N |-> [x \in Runs |-> Step(x, s[k])]]
           Body(f) == [i \in 0 .. N |-> IF i = 0 THEN x0 ELSE Step(f[i - 1], s[i])]
           g == CHOOSE f : f = Body(f)
<1>1. \A n : After(n, b) = g[n]
  BY DEF After
<1>2. N \in Nat /\ \A k \in 1 .. N : s[k].kind \in Kinds /\ s[k] \in RowsOfKind(s[k].kind)
  BY RowsAre DEF AreRows
<1>3. x0 \in Runs
  BY DEF Runs
<1> HIDE DEF s, N, x0
<1>4. \A k \in 1 .. N, x \in Runs : Step(x, s[k]) \in Runs
  BY <1>2, StepDoes
<1>5. F \in [1 .. N -> [Runs -> Runs]] /\ \A k \in 1 .. N, x \in Runs : F[k][x] = Step(x, s[k])
  BY <1>4
<1> HIDE DEF F
<1>6. PICK h : Recursive(h, N, Runs, x0, F)
  BY <1>2, <1>3, <1>5, RecursionExists DEF Recursion
<1>7. /\ h \in [0 .. N -> Runs] /\ h[0] = x0
      /\ \A k \in 1 .. N : h[k] = F[k][h[k - 1]]
  BY <1>6 DEF Recursive
<1>8. h = Body(h)
  <2>1. ASSUME NEW i \in 0 .. N
        PROVE  h[i] = IF i = 0 THEN x0 ELSE Step(h[i - 1], s[i])
    <3>1. CASE i = 0
      BY <1>7, <3>1
    <3>2. CASE i # 0
      <4>1. i \in 1 .. N /\ i - 1 \in 0 .. N
        BY <1>2, <3>2
      <4>2. h[i - 1] \in Runs /\ h[i] = F[i][h[i - 1]]
        BY <1>7, <4>1
      <4> QED BY <1>5, <3>2, <4>1, <4>2
    <3> QED BY <3>1, <3>2
  <2> QED BY <1>7, <2>1
<1> HIDE DEF Body
<1>9. g = Body(g)
  BY <1>8, Zenon
<1> HIDE DEF g
<1>10. /\ \A i \in 0 .. N : g[i] = IF i = 0 THEN x0 ELSE Step(g[i - 1], s[i])
  BY <1>9 DEF Body
<1> DEFINE S == {i \in 0 .. N : g[i] \in Runs}
<1>11. 0 \in S
  BY <1>2, <1>3, <1>10
<1>12. ASSUME NEW k \in 1 .. N, k - 1 \in S PROVE k \in S
  <2>1. k \in 0 .. N /\ k # 0 /\ g[k - 1] \in Runs
    BY <1>2, <1>12
  <2>2. g[k] = Step(g[k - 1], s[k])
    BY <1>10, <2>1
  <2> QED BY <1>4, <2>1, <2>2
<1>13. 0 .. N \subseteq S
  <2> HIDE DEF S
  <2> QED BY <1>2, <1>11, <1>12, BoundedInduction
<1>14. \A i \in 0 .. N : g[i] \in Runs
  BY <1>13
<1>15. g[0] = x0 /\ \A i \in 1 .. N : g[i] = Step(g[i - 1], s[i])
  <2>1. 0 \in 0 .. N /\ \A i \in 1 .. N : i \in 0 .. N /\ i # 0
    BY <1>2
  <2> QED BY <1>10, <2>1
<1> QED BY <1>1, <1>14, <1>15 DEF IsRun, s, N, x0

\* During a transaction a statement stays bound to its old row or is reset.
LEMMA BoundsAreReset ==
  ASSUME tables \in Tables, bound \in Bounds, NEW b \in TxPoWs
  PROVE  \A n \in 0 .. Len(Rows(b)) : \A k \in Kinds :
           After(n, b).bound[k] \in {bound[k], NoRow}
<1> DEFINE s == Rows(b)
           N == Len(s)
           S == {n \in 0 .. N : \A k \in Kinds : After(n, b).bound[k] \in {bound[k], NoRow}}
<1>1. N \in Nat /\ \A k \in 1 .. N : s[k].kind \in Kinds /\ s[k] \in RowsOfKind(s[k].kind)
  BY RowsAre DEF AreRows
<1>2. IsRun(b)
  BY AfterIs
<1>3. /\ \A n \in 0 .. N : After(n, b) \in Runs
      /\ After(0, b).bound = bound
      /\ \A n \in 1 .. N : After(n, b) = Step(After(n - 1, b), s[n])
  BY <1>2 DEF IsRun
<1> HIDE DEF s, N
<1>4. 0 \in S
  BY <1>1, <1>3
<1>5. ASSUME NEW k \in 1 .. N, k - 1 \in S PROVE k \in S
  <2>1. k \in 0 .. N /\ k - 1 \in 0 .. N
    BY <1>1
  <2>2. After(k - 1, b) \in Runs /\ After(k, b) = Step(After(k - 1, b), s[k])
    BY <1>3, <2>1
  <2>3. \A j \in Kinds : After(k, b).bound[j] \in {After(k - 1, b).bound[j], NoRow}
    BY <1>1, <2>2, StepDoes
  <2>4. \A j \in Kinds : After(k - 1, b).bound[j] \in {bound[j], NoRow}
    BY <1>5
  <2> QED BY <2>1, <2>3, <2>4
<1>6. 0 .. N \subseteq S
  <2> HIDE DEF S
  <2> QED BY <1>1, <1>4, <1>5, BoundedInduction
<1> QED BY <1>6 DEF s, N

\* No statement is bound to another row than it is about to write.
Unmixed(b) == \A row \in Range(Rows(b)) : BoundRow(bound, row) = row

LEMMA UnmixedWrites ==
  ASSUME tables \in Tables, bound \in Bounds, NEW b \in TxPoWs, Unmixed(b)
  PROVE  \A n \in 1 .. Len(Rows(b)) :
           After(n, b).tables = Write(After(n - 1, b).tables, Rows(b)[n])
<1> DEFINE s == Rows(b)
           N == Len(s)
<1>1. /\ N \in Nat /\ DOMAIN s = 1 .. N
      /\ \A k \in 1 .. N : s[k].kind \in Kinds /\ s[k] \in RowsOfKind(s[k].kind)
  BY RowsAre DEF AreRows
<1>2. IsRun(b) /\ \A n \in 0 .. N : \A k \in Kinds : After(n, b).bound[k] \in {bound[k], NoRow}
  BY AfterIs, BoundsAreReset
<1> HIDE DEF s, N
<1>3. /\ \A n \in 0 .. N : After(n, b) \in Runs
      /\ \A n \in 1 .. N : After(n, b) = Step(After(n - 1, b), s[n])
  BY <1>2 DEF IsRun, s, N
<1> SUFFICES ASSUME NEW n \in 1 .. N
             PROVE  After(n, b).tables = Write(After(n - 1, b).tables, s[n])
  BY DEF s, N
<1>4. n - 1 \in 0 .. N /\ n \in 1 .. N
  BY <1>1
<1>5. /\ After(n - 1, b) \in Runs /\ After(n, b) = Step(After(n - 1, b), s[n])
      /\ s[n].kind \in Kinds /\ s[n] \in RowsOfKind(s[n].kind)
      /\ After(n - 1, b).bound[s[n].kind] \in {bound[s[n].kind], NoRow}
  BY <1>1, <1>2, <1>3, <1>4
<1>6. BoundRow(bound, s[n]) = s[n]
  BY <1>1, <1>4 DEF Unmixed, Range, s
<1>7. BoundRow(After(n - 1, b).bound, s[n]) = s[n]
  BY <1>5, <1>6 DEF BoundRow
<1> QED BY <1>5, <1>7, StepDoes

\* What a transaction for b that mixes in no other row makes of the tables.
Saves(b, t, u) ==
  /\ u \in Tables
  /\ u.blocks = t.blocks \cup {b}
  /\ DOMAIN u.coins = DOMAIN t.coins \cup Range(Outputs[b])
  /\ Spent(u.coins) \subseteq Spent(t.coins) \cup (Inputs[b] \cap DOMAIN u.coins)
  /\ Number[b] # -1 =>
       Spent(u.coins) = Spent(t.coins) \cup (Inputs[b] \cap DOMAIN u.coins)

\* The same up to statement n.
Ids(b, k, n) == {Rows(b)[i].id : i \in {j \in 1 .. n : Rows(b)[j].kind = k}}
SavedSoFar(b, t, n, u) ==
  /\ u \in Tables
  /\ u.blocks = t.blocks \cup Ids(b, "block", n)
  /\ DOMAIN u.coins = DOMAIN t.coins \cup Ids(b, "coin", n)
  /\ Spent(u.coins) \subseteq Spent(t.coins) \cup (Ids(b, "spend", n) \cap DOMAIN u.coins)
  /\ Number[b] # -1 =>
       Spent(u.coins) = Spent(t.coins) \cup (Ids(b, "spend", n) \cap DOMAIN u.coins)

LEMMA IdsGrow ==
  ASSUME NEW b \in TxPoWs, NEW n \in 1 .. Len(Rows(b)), NEW k
  PROVE  Ids(b, k, n) = IF Rows(b)[n].kind = k THEN Ids(b, k, n - 1) \cup {Rows(b)[n].id}
                                               ELSE Ids(b, k, n - 1)
<1>1. Len(Rows(b)) \in Nat
  BY RowsAre DEF AreRows
<1>2. 1 .. n = (1 .. n - 1) \cup {n}
  BY <1>1
<1> QED BY <1>2 DEF Ids

LEMMA SavesStepByStep ==
  ASSUME NEW b \in TxPoWs, NEW t \in Tables, NEW n \in 1 .. Len(Rows(b)), NEW u,
         SavedSoFar(b, t, n - 1, u)
  PROVE  SavedSoFar(b, t, n, Write(u, Rows(b)[n]))
<1> DEFINE row == Rows(b)[n]
           k == row.kind
           v == Write(u, row)
<1>1. /\ k \in Kinds /\ row \in RowsOfKind(k) /\ row.number = Number[b]
      /\ \A j \in 1 .. n : Rows(b)[j].kind = "spend" => k = "spend"
  BY RowsAre DEF AreRows
<1>2. /\ Ids(b, "block", n) = IF k = "block" THEN Ids(b, "block", n - 1) \cup {row.id}
                                             ELSE Ids(b, "block", n - 1)
      /\ Ids(b, "coin", n) = IF k = "coin" THEN Ids(b, "coin", n - 1) \cup {row.id}
                                           ELSE Ids(b, "coin", n - 1)
      /\ Ids(b, "spend", n) = IF k = "spend" THEN Ids(b, "spend", n - 1) \cup {row.id}
                                             ELSE Ids(b, "spend", n - 1)
  BY IdsGrow
<1>3. k # "spend" => Ids(b, "spend", n - 1) = {}
  <2>1. \A j \in 1 .. n - 1 : j \in 1 .. n
    <3>1. Len(Rows(b)) \in Nat
      BY RowsAre DEF AreRows
    <3> QED BY <3>1
  <2> QED BY <1>1, <2>1 DEF Ids
<1>4. u \in Tables
  BY DEF SavedSoFar
<1>5. Written(u, row, v)
  BY <1>1, <1>4, WriteDoes
<1> HIDE DEF row, v
<1>6. v \in Tables
  BY <1>5 DEF Written
<1>10. /\ u.blocks = t.blocks \cup Ids(b, "block", n - 1)
       /\ DOMAIN u.coins = DOMAIN t.coins \cup Ids(b, "coin", n - 1)
       /\ Spent(u.coins) \subseteq Spent(t.coins) \cup (Ids(b, "spend", n - 1) \cap DOMAIN u.coins)
       /\ Number[b] # -1 =>
            Spent(u.coins) = Spent(t.coins) \cup (Ids(b, "spend", n - 1) \cap DOMAIN u.coins)
  BY DEF SavedSoFar
<1> HIDE DEF k
<1>11. k = row.kind
  BY DEF k
<1>7. CASE k = "block"
  <2>1. /\ v.blocks = u.blocks \cup {row.id} /\ DOMAIN v.coins = DOMAIN u.coins
        /\ Spent(v.coins) \subseteq Spent(u.coins)
        /\ Number[b] # -1 => Spent(v.coins) = Spent(u.coins)
    BY <1>1, <1>5, <1>7, <1>11 DEF Written
  <2>2. /\ Ids(b, "block", n) = Ids(b, "block", n - 1) \cup {row.id}
        /\ Ids(b, "coin", n) = Ids(b, "coin", n - 1)
        /\ Ids(b, "spend", n) = Ids(b, "spend", n - 1)
    BY <1>2, <1>7
  <2>3. SavedSoFar(b, t, n, v)
    BY <1>6, <1>10, <2>1, <2>2 DEF SavedSoFar
  <2> QED BY <2>3 DEF v, row
<1>8. CASE k = "coin"
  <2>1. /\ v.blocks = u.blocks /\ DOMAIN v.coins = DOMAIN u.coins \cup {row.id}
        /\ Spent(v.coins) \subseteq Spent(u.coins)
        /\ Number[b] # -1 => Spent(v.coins) = Spent(u.coins)
    BY <1>1, <1>5, <1>8, <1>11 DEF Written
  <2>2. /\ Ids(b, "block", n) = Ids(b, "block", n - 1)
        /\ Ids(b, "coin", n) = Ids(b, "coin", n - 1) \cup {row.id}
        /\ Ids(b, "spend", n) = {} /\ Ids(b, "spend", n - 1) = {}
    BY <1>2, <1>3, <1>8
  <2>3. SavedSoFar(b, t, n, v)
    BY <1>6, <1>10, <2>1, <2>2 DEF SavedSoFar
  <2> QED BY <2>3 DEF v, row
<1>9. CASE k = "spend"
  <2>1. /\ v.blocks = u.blocks /\ DOMAIN v.coins = DOMAIN u.coins
        /\ Spent(v.coins) \subseteq Spent(u.coins) \cup ({row.id} \cap DOMAIN u.coins)
        /\ Number[b] # -1 => Spent(v.coins) = Spent(u.coins) \cup ({row.id} \cap DOMAIN u.coins)
    BY <1>1, <1>5, <1>9, <1>11 DEF Written
  <2>2. /\ Ids(b, "block", n) = Ids(b, "block", n - 1)
        /\ Ids(b, "coin", n) = Ids(b, "coin", n - 1)
        /\ Ids(b, "spend", n) = Ids(b, "spend", n - 1) \cup {row.id}
    BY <1>2, <1>9
  <2>3. SavedSoFar(b, t, n, v)
    BY <1>6, <1>10, <2>1, <2>2 DEF SavedSoFar
  <2> QED BY <2>3 DEF v, row
<1> QED BY <1>1, <1>7, <1>8, <1>9 DEF Kinds

LEMMA TransactionSaves ==
  ASSUME tables \in Tables, bound \in Bounds, NEW b \in TxPoWs, Unmixed(b)
  PROVE  Saves(b, tables, After(Len(Rows(b)), b).tables)
<1> DEFINE s == Rows(b)
           N == Len(s)
           S == {n \in 0 .. N : SavedSoFar(b, tables, n, After(n, b).tables)}
<1>1. AreRows(b, s) /\ N \in Nat
  BY RowsAre DEF AreRows
<1>2. IsRun(b) /\ \A n \in 1 .. N : After(n, b).tables = Write(After(n - 1, b).tables, s[n])
  BY AfterIs, UnmixedWrites
<1>3. 0 \in S
  <2>1. After(0, b).tables = tables
    BY <1>2 DEF IsRun
  <2>2. \A k : Ids(b, k, 0) = {}
    BY DEF Ids
  <2>3. SavedSoFar(b, tables, 0, tables)
    BY <2>2 DEF SavedSoFar
  <2> QED BY <1>1, <2>1, <2>3
<1>4. ASSUME NEW n \in 1 .. N, n - 1 \in S PROVE n \in S
  <2>1. SavedSoFar(b, tables, n - 1, After(n - 1, b).tables)
    BY <1>4
  <2>2. SavedSoFar(b, tables, n, Write(After(n - 1, b).tables, s[n]))
    BY <2>1, SavesStepByStep
  <2> QED BY <1>1, <1>2, <2>2
<1>5. 0 .. N \subseteq S
  <2> HIDE DEF S
  <2> QED BY <1>1, <1>3, <1>4, BoundedInduction
<1>6. SavedSoFar(b, tables, N, After(N, b).tables)
  BY <1>1, <1>5
<1>7. ASSUME NEW k \in Kinds PROVE Ids(b, k, N) = Writes(b, k)
  BY <1>1 DEF Ids, AreRows
<1>8. /\ Ids(b, "block", N) = {b} /\ Ids(b, "coin", N) = Range(Outputs[b])
      /\ Ids(b, "spend", N) = Inputs[b]
  BY <1>7 DEF Kinds, Writes
<1> HIDE DEF N
<1> QED BY <1>6, <1>8 DEF Saves, SavedSoFar, N

-----------------------------------------------------------------------------
(* What is on disk, through failed writes, crashes and power losses.       *)

\* The coins of the blocks, and no coin marked that they do not spend.
CoinsMatch(t) ==
  /\ DOMAIN t.coins = OutputsOf(t.blocks)
  /\ Spent(t.coins) \subseteq OutputsOf(t.blocks) \cap InputsOf(t.blocks)

DiskType ==
  /\ wal \in Seq(Tables) /\ wal # <<>> /\ bound \in Bounds
  /\ failures \in Nat /\ mixed \in BOOLEAN
DiskInv == DiskType /\ (~ mixed => \A n \in DOMAIN wal : CoinsMatch(wal[n]))

LEMMA TablesAreLast ==
  ASSUME DiskType PROVE tables \in Tables /\ Len(wal) \in DOMAIN wal
<1>1. Len(wal) \in DOMAIN wal
  BY DEF DiskType
<1> QED BY <1>1 DEF DiskType, tables

\* A commit appends the new tables, or nothing.
LEMMA CommitAppends ==
  ASSUME DiskType, NEW t \in Tables, Commit(t)
  PROVE  /\ wal' \in Seq(Tables) /\ wal' # <<>> /\ tables' = t
         /\ \A n \in DOMAIN wal' : wal'[n] = t \/ \E m \in DOMAIN wal : wal'[n] = wal[m]
<1>1. CASE t = tables
  <2>1. wal' = wal
    BY <1>1 DEF Commit
  <2> QED BY <1>1, <2>1 DEF DiskType, tables
<1>2. CASE t # tables
  <2>1. wal' = Append(wal, t)
    BY <1>2 DEF Commit
  <2>2. wal \in Seq(Tables)
    BY DEF DiskType
  <2>3. wal' \in Seq(Tables) /\ Len(wal') = Len(wal) + 1 /\ wal'[Len(wal')] = t
    BY <2>1, <2>2
  <2>4. \A n \in DOMAIN wal' : wal'[n] = t \/ \E m \in DOMAIN wal : wal'[n] = wal[m]
    BY <2>1, <2>2
  <2>5. wal' # <<>>
    BY <2>2, <2>3
  <2> QED BY <2>3, <2>4, <2>5 DEF tables
<1> QED BY <1>1, <1>2

\* The block and its coins match again once they are saved.
LEMMA SavedMatch ==
  ASSUME NEW t \in Tables, CoinsMatch(t), NEW b \in TxPoWs, NEW u, Saves(b, t, u)
  PROVE  CoinsMatch(u)
<1>1. /\ OutputsOf(t.blocks \cup {b}) = OutputsOf(t.blocks) \cup Range(Outputs[b])
      /\ InputsOf(t.blocks \cup {b}) = InputsOf(t.blocks) \cup Inputs[b]
  BY DEF OutputsOf, InputsOf
<1>2. /\ u.blocks = t.blocks \cup {b}
      /\ DOMAIN u.coins = DOMAIN t.coins \cup Range(Outputs[b])
      /\ Spent(u.coins) \subseteq Spent(t.coins) \cup (Inputs[b] \cap DOMAIN u.coins)
  BY DEF Saves
<1> QED BY <1>1, <1>2 DEF CoinsMatch

LEMMA PersistKeepsDisk ==
  ASSUME DiskInv, NEW b \in TxPoWs, PersistBlock(b)
  PROVE  DiskInv'
<1>1. DiskType /\ tables \in Tables /\ bound \in Bounds /\ Len(Rows(b)) \in Nat
  BY TablesAreLast, RowsAre DEF DiskInv, DiskType, AreRows
<1>2. IsRun(b)
  BY <1>1, AfterIs
<1>3. After(Len(Rows(b)), b) \in Runs
  BY <1>1, <1>2 DEF IsRun
<1>4. CASE PersistCommits(b)
  <2> DEFINE t == After(Len(Rows(b)), b).tables
  <2>1. t \in Tables /\ Commit(t) /\ bound' \in Bounds /\ failures' = failures
    BY <1>3, <1>4 DEF PersistCommits, Runs
  <2>2. mixed' \in BOOLEAN /\ (~ mixed' => ~ mixed /\ Unmixed(b))
    BY <1>1, <1>4 DEF PersistCommits, Unmixed, DiskType
  <2>3. ASSUME ~ mixed' PROVE CoinsMatch(t)
    <3>1. CoinsMatch(tables)
      BY <2>2, <2>3, TablesAreLast, <1>1 DEF DiskInv, tables
    <3>2. Saves(b, tables, t)
      BY <1>1, <2>2, <2>3, TransactionSaves
    <3> HIDE DEF t
    <3> QED BY <1>1, <3>1, <3>2, SavedMatch
  <2> HIDE DEF t
  <2>4. /\ wal' \in Seq(Tables) /\ wal' # <<>>
        /\ \A n \in DOMAIN wal' : wal'[n] = t \/ \E m \in DOMAIN wal : wal'[n] = wal[m]
    BY <1>1, <2>1, CommitAppends
  <2>5. DiskType'
    BY <1>1, <2>1, <2>2, <2>4 DEF DiskType
  <2>6. ASSUME ~ mixed', NEW n \in DOMAIN wal' PROVE CoinsMatch(wal'[n])
    <3>1. \A m \in DOMAIN wal : CoinsMatch(wal[m])
      BY <2>2, <2>6 DEF DiskInv
    <3> QED BY <2>3, <2>4, <2>6, <3>1
  <2> QED BY <2>5, <2>6 DEF DiskInv
<1>5. CASE PersistThrows(b)
  <2>1. bound' \in Bounds
    <3>1. CASE bound' = After(Len(Rows(b)), b).bound
      BY <1>3, <3>1 DEF Runs
    <3>2. ASSUME NEW n \in DOMAIN Rows(b),
                 bound' = [After(n - 1, b).bound EXCEPT
                            ![Rows(b)[n].kind] = BoundRow(After(n - 1, b).bound, Rows(b)[n])]
          PROVE  bound' \in Bounds
      <4> DEFINE row == Rows(b)[n]
                 before == After(n - 1, b)
      <4>1. n \in 1 .. Len(Rows(b)) /\ n - 1 \in 0 .. Len(Rows(b))
        BY <1>1, <3>2, RowsAre DEF AreRows
      <4>2. row.kind \in Kinds /\ row \in RowsOfKind(row.kind) /\ before \in Runs
        BY <1>2, <4>1, RowsAre DEF AreRows, IsRun
      <4> HIDE DEF row, before
      <4>3. BoundRow(before.bound, row) \in RowsOfKind(row.kind) /\ before.bound \in Bounds
        BY <4>2, StepDoes DEF Runs
      <4>4. bound' = [before.bound EXCEPT ![row.kind] = BoundRow(before.bound, row)]
        BY <3>2 DEF row, before
      <4>5. RowsOfKind(row.kind) \subseteq AllRows
        BY <4>2 DEF AllRows
      <4> QED BY <4>2, <4>3, <4>4, <4>5 DEF Bounds
    <3> QED BY <1>1, <1>5, <3>1, <3>2 DEF PersistThrows
  <2>2. failures' \in Nat /\ UNCHANGED <<wal, mixed>>
    BY <1>1, <1>5 DEF PersistThrows, DiskType
  <2> QED BY <2>1, <2>2 DEF DiskInv, DiskType
<1>6. CASE UNCHANGED <<wal, bound, failures, mixed>>
  BY <1>6 DEF DiskInv, DiskType
<1> QED BY <1>4, <1>5, <1>6 DEF PersistBlock

\* A process that ends leaves one of the states of the disk, or all of them.
LEMMA EndKeepsDisk ==
  ASSUME DiskInv, Close \/ Crash \/ PowerLoss
  PROVE  DiskInv'
<1>1. DiskType /\ Len(wal) \in DOMAIN wal
  BY TablesAreLast DEF DiskInv
<1>2. bound' = Unbound /\ UNCHANGED <<failures, mixed>>
  BY DEF Close, Crash, PowerLoss, Gone
<1>3. Unbound \in Bounds
  BY DEF Unbound, Bounds, Kinds
<1>4. ASSUME NEW n \in DOMAIN wal, wal' = <<wal[n]>> PROVE DiskInv'
  <2>1. wal[n] \in Tables
    BY <1>1 DEF DiskType
  <2>2. wal' \in Seq(Tables) /\ wal' # <<>> /\ \A m \in DOMAIN wal' : wal'[m] = wal[n]
    BY <1>4, <2>1
  <2> QED BY <1>1, <1>2, <1>3, <2>2 DEF DiskInv, DiskType
<1>5. CASE wal' = wal
  BY <1>2, <1>3, <1>5 DEF DiskInv, DiskType
<1> QED BY <1>1, <1>4, <1>5 DEF Close, Crash, PowerLoss, tables

LEMMA DiskInitial == Init => DiskInv
<1> SUFFICES ASSUME Init PROVE DiskInv
  OBVIOUS
<1>1. EmptyTables \in Tables /\ CoinsMatch(EmptyTables)
  <2>1. {} \in BlockRows
    BY FS_EmptySet DEF BlockRows
  <2>2. <<>> \in [{} -> CoinRows] /\ DOMAIN <<>> = {}
    OBVIOUS
  <2>3. EmptyTables \in Tables
    BY <2>1, <2>2 DEF EmptyTables, Tables
  <2>4. OutputsOf({}) = {} /\ Spent(<<>>) = {}
    BY <2>2 DEF OutputsOf, Spent
  <2> QED BY <2>2, <2>3, <2>4 DEF CoinsMatch, EmptyTables
<1>2. wal = <<EmptyTables>> /\ bound = Unbound /\ failures = 0 /\ mixed = FALSE
  BY DEF Init
<1>3. Unbound \in Bounds
  BY DEF Unbound, Bounds, Kinds
<1>4. wal \in Seq(Tables) /\ wal # <<>> /\ \A m \in DOMAIN wal : wal[m] = EmptyTables
  BY <1>1, <1>2
<1> QED BY <1>1, <1>2, <1>3, <1>4 DEF DiskInv, DiskType

LEMMA DiskStep == DiskInv /\ [Next]_vars => DiskInv'
<1> SUFFICES ASSUME DiskInv, [Next]_vars PROVE DiskInv'
  OBVIOUS
<1>1. CASE InitGenesis
  BY <1>1, PersistKeepsDisk, PersistAssumption DEF InitGenesis
<1>2. ASSUME NEW b \in TxPoWs, AddBlockWithPersist(b) PROVE DiskInv'
  BY <1>2, PersistKeepsDisk DEF AddBlockWithPersist
<1>3. CASE Close \/ Crash \/ PowerLoss
  BY <1>3, EndKeepsDisk
<1>4. CASE UNCHANGED <<wal, bound, failures, mixed>>
  BY <1>4 DEF DiskInv, DiskType
<1>5. CASE Open
  BY <1>4, <1>5 DEF Open
<1>6. ASSUME NEW n, RollbackMegaMMR(n) PROVE DiskInv'
  BY <1>4, <1>6 DEF RollbackMegaMMR
<1>7. CASE RebuildAll \/ Reset
  BY <1>4, <1>7 DEF RebuildAll, Reset
<1>8. CASE UNCHANGED vars
  BY <1>4, <1>8 DEF vars, history
<1> QED BY <1>1, <1>2, <1>3, <1>5, <1>6, <1>7, <1>8 DEF Next

\* Whatever writes fail and wherever the process ends, the coin table has the
\* coins the saved blocks create and marks none they do not spend, as long as no
\* transaction has written a row left over from an earlier one.
THEOREM DiskInvariant == Spec => []DiskInv
BY DiskInitial, DiskStep, PTL DEF Spec

-----------------------------------------------------------------------------
(* The tree of the database is the tree of module TxPowTree.               *)

TreeProofs == INSTANCE TxPowTreeProofs
  WITH Blocks <- TxPoWs, KeepDepths <- {}, tree <- db.txPowTree,
       trimmed <- db.blockStore \ db.txPowTree.nodes

LEMMA SameTrees ==
  TreeProofs!Trees = Tree!Trees /\ TreeProofs!EmptyTree = Tree!EmptyTree
BY DEF TreeProofs!Trees, Tree!Trees, TreeProofs!EmptyTree, Tree!EmptyTree

LEMMA SameIsTree == ASSUME NEW t PROVE TreeProofs!IsTree(t) <=> Tree!IsTree(t)
BY Zenon DEF TreeProofs!IsTree, Tree!IsTree, TreeProofs!Anchored, Tree!Anchored,
     TreeProofs!RootDetached, Tree!RootDetached, TreeProofs!Linked, Tree!Linked,
     TreeProofs!Heaviest, Tree!Heaviest

LEMMA SameAdd == ASSUME NEW t, NEW b PROVE TreeProofs!AddTxPoW(t, b) = Tree!AddTxPoW(t, b)
BY Zenon DEF TreeProofs!AddTxPoW, Tree!AddTxPoW, TreeProofs!Known, Tree!Known,
     TreeProofs!IsOrphan, Tree!IsOrphan, TreeProofs!PlantRoot, Tree!PlantRoot,
     TreeProofs!Attach, Tree!Attach, TreeProofs!HeavierTip, Tree!HeavierTip

LEMMA SameChain ==
  ASSUME NEW t PROVE TreeProofs!CanonicalChain(t) = Tree!CanonicalChain(t)
BY Zenon DEF TreeProofs!CanonicalChain, Tree!CanonicalChain

IsATree(t) == t \in Tree!Trees /\ Tree!IsTree(t)

\* The empty tree is one.
LEMMA EmptyIsATree == IsATree(Tree!EmptyTree)
<1>1. TreeProofs!EmptyTree \in TreeProofs!Trees /\ TreeProofs!IsTree(TreeProofs!EmptyTree)
  BY TreeProofs!EmptyTreeIsTree, HeaderAssumption, HashAssumption
<1> QED BY <1>1, SameTrees, SameIsTree DEF IsATree

\* A tree that has grown from the genesis: a node's weight counts the blocks up
\* to it.
Grown(t) ==
  /\ IsATree(t)
  /\ t.nodes # {} => t.root = Genesis
  /\ \A n \in t.nodes : t.weight[n] = Number[n] + 1

\* Adding a block that is not an orphan keeps it one.
TreeTakes(t, b, u) ==
  /\ Grown(u) /\ u.nodes = t.nodes \cup {b} /\ u.tip \in u.nodes
  /\ b \in t.nodes \/ b = Genesis \/ Parent[b] \in t.nodes

LEMMA GrownTreeTakes ==
  ASSUME NumbersFollow, NEW t, Grown(t), NEW b \in TxPoWs, Tree!AddReturns(t, b),
         t.nodes = {} => b = Genesis
  PROVE  TreeTakes(t, b, Tree!AddTxPoW(t, b))
<1> USE HeaderAssumption, PersistAssumption
<1> DEFINE u == Tree!AddTxPoW(t, b)
<1>1. IsATree(u)
  <2>1. t \in TreeProofs!Trees /\ TreeProofs!IsTree(t)
    BY SameTrees, SameIsTree DEF Grown, IsATree
  <2>2. TreeProofs!AddTxPoW(t, b) \in TreeProofs!Trees /\ TreeProofs!IsTree(TreeProofs!AddTxPoW(t, b))
    BY <2>1, TreeProofs!AddIsTree, HashAssumption
  <2> QED BY <2>2, SameTrees, SameIsTree, SameAdd DEF IsATree
<1>2. t \in Tree!Trees /\ Tree!IsTree(t) /\ t.nodes \subseteq TxPoWs
  BY DEF Grown, IsATree, Tree!Trees
<1>3. /\ t.nodes = {} <=> t.root = NoBlock
      /\ t.nodes # {} => t.tip \in t.nodes
  BY <1>2 DEF Tree!IsTree, Tree!Anchored, Tree!Trees
<1>4. ~ Tree!IsOrphan(t, b)
  BY DEF Tree!AddReturns
<1>5. CASE b \in t.nodes
  <2>1. u = t
    BY <1>5 DEF Tree!AddTxPoW, Tree!Known
  <2> QED BY <1>3, <1>5, <2>1 DEF TreeTakes
<1>6. CASE t.nodes = {}
  <2>1. u = Tree!PlantRoot(t, b)
    BY <1>3, <1>4, <1>6 DEF Tree!AddTxPoW, Tree!Known
  <2>2. u.nodes = {b} /\ u.root = b /\ u.tip = b /\ u.weight[b] = 1
    BY <1>2, <2>1 DEF Tree!PlantRoot, Tree!Trees
  <2> HIDE DEF u
  <2>3. Grown(u)
    BY <1>1, <1>6, <2>2 DEF Grown
  <2> QED BY <1>6, <2>2, <2>3 DEF TreeTakes, u
<1>7. CASE b \notin t.nodes /\ t.nodes # {}
  <2>1. u = Tree!Attach(t, b) /\ Parent[b] \in t.nodes
    BY <1>3, <1>4, <1>7 DEF Tree!AddTxPoW, Tree!IsOrphan, Tree!Known
  <2> DEFINE w == t.weight[Parent[b]] + 1
  <2>2. /\ u.nodes = t.nodes \cup {b} /\ u.root = t.root
        /\ u.tip = Tree!HeavierTip(t, b, w)
        /\ u.weight = [t.weight EXCEPT ![b] = w]
    BY <1>2, <2>1 DEF Tree!Attach, Tree!Trees
  <2>3. t.weight \in [TxPoWs -> Nat]
    BY <1>2 DEF Tree!Trees
  <2> HIDE DEF u
  <2>4. w = Number[b] + 1
    <3>1. t.weight[Parent[b]] = Number[Parent[b]] + 1
      BY <2>1 DEF Grown
    <3>2. Parent[b] # NoBlock /\ Number[Parent[b]] \in Int
      BY <1>2, <2>1
    <3>3. Number[b] = Number[Parent[b]] + 1
      BY <3>2 DEF NumbersFollow
    <3> QED BY <3>1, <3>2, <3>3
  <2> HIDE DEF w
  <2>5. u.tip \in u.nodes
    BY <1>3, <1>7, <2>2 DEF Tree!HeavierTip
  <2>6. u.weight[b] = w /\ \A n \in t.nodes : u.weight[n] = t.weight[n]
    BY <1>2, <1>7, <2>2, <2>3
  <2>7. Grown(u)
    BY <1>1, <1>7, <2>2, <2>4, <2>6 DEF Grown
  <2> QED BY <2>1, <2>2, <2>5, <2>7 DEF TreeTakes, u
<1> QED BY <1>5, <1>6, <1>7

\* Its canonical chain holds the block of number n at place n + 1.
LEMMA GrownChain ==
  ASSUME NEW t, Grown(t)
  PROVE  LET c == Tree!CanonicalChain(t)
         IN  c \in Seq(t.nodes) /\ \A i \in 1 .. Len(c) : Number[c[i]] = i - 1
<1> USE HeaderAssumption, PersistAssumption
<1> DEFINE c == Tree!CanonicalChain(t)
<1>1. t \in Tree!Trees /\ Tree!IsTree(t) /\ t.nodes \subseteq TxPoWs
  BY DEF Grown, IsATree, Tree!Trees
<1>2. CASE t.tip = NoBlock
  <2>1. c = <<>>
    BY <1>2 DEF Tree!CanonicalChain
  <2>2. Len(<<>>) = 0
    OBVIOUS
  <2> HIDE DEF c
  <2> QED BY <2>1, <2>2 DEF c
<1>3. CASE t.tip # NoBlock
  <2>1. t.nodes # {} /\ t.root \in t.nodes
    BY <1>1, <1>3 DEF Tree!IsTree, Tree!Anchored
  <2>2. TreeProofs!IsPath(t, t.tip, c)
    <3>1. t \in TreeProofs!Trees /\ TreeProofs!IsTree(t)
      BY SameTrees, SameIsTree DEF Grown, IsATree
    <3>2. TreeProofs!IsPath(t, t.tip, TreeProofs!CanonicalChain(t))
      BY <1>3, <3>1, TreeProofs!ChainIsPath, HashAssumption
    <3> QED BY <3>2, SameChain
  <2> HIDE DEF c
  <2>3. /\ c \in Seq(t.nodes) /\ c # <<>> /\ t.parent[c[1]] = NoBlock
        /\ \A i \in 2 .. Len(c) : t.parent[c[i]] = c[i - 1]
    BY <2>2 DEF TreeProofs!IsPath
  <2>4. Len(c) \in Nat \ {0} /\ \A i \in 1 .. Len(c) : c[i] \in t.nodes
    BY <2>3
  <2> DEFINE S == {k \in Nat : k + 1 <= Len(c) => Number[c[k + 1]] = k}
  <2>5. 0 \in S
    <3>1. c[1] \in t.nodes
      BY <2>4
    <3>2. c[1] = t.root
      BY <1>1, <2>3, <3>1 DEF Tree!IsTree, Tree!Linked
    <3>3. c[1] = Genesis
      BY <2>1, <3>2 DEF Grown
    <3> QED BY <3>3
  <2>6. ASSUME NEW k \in S PROVE k + 1 \in S
    <3> SUFFICES ASSUME k + 2 <= Len(c) PROVE Number[c[k + 2]] = k + 1
      OBVIOUS
    <3>1. k + 2 \in 2 .. Len(c) /\ k + 2 - 1 = k + 1 /\ k + 1 \in 1 .. Len(c) /\ k \in Nat
          /\ k + 2 \in 1 .. Len(c)
      BY <2>4
    <3>2. c[k + 2] \in t.nodes /\ c[k + 1] \in t.nodes /\ t.parent[c[k + 2]] = c[k + 1]
      BY <2>3, <2>4, <3>1
    <3>3. c[k + 1] # NoBlock
      BY <1>1, <3>2
    <3>4. t.weight[c[k + 2]] = t.weight[c[k + 1]] + 1
      <4>1. t.root # NoBlock /\ t.parent[t.root] = NoBlock
        BY <1>1, <2>1 DEF Tree!IsTree, Tree!RootDetached
      <4>2. c[k + 2] \in t.nodes \ {t.root}
        BY <3>2, <3>3, <4>1
      <4>3. /\ t.parent[c[k + 2]] = Parent[c[k + 2]]
            /\ t.weight[c[k + 2]] = t.weight[Parent[c[k + 2]]] + 1
        BY <1>1, <4>2 DEF Tree!IsTree, Tree!Linked
      <4> QED BY <3>2, <4>3
    <3>5. /\ t.weight[c[k + 2]] = Number[c[k + 2]] + 1
          /\ t.weight[c[k + 1]] = Number[c[k + 1]] + 1
      BY <3>2 DEF Grown
    <3>6. Number[c[k + 2]] \in Int /\ Number[c[k + 1]] = k
      BY <1>1, <3>1, <3>2
    <3> HIDE DEF S
    <3> QED BY <3>1, <3>4, <3>5, <3>6
  <2>7. S = Nat
    <3>1. S \in SUBSET Nat
      OBVIOUS
    <3> HIDE DEF S
    <3> QED BY <2>5, <2>6, <3>1, SetInduction
  <2>8. ASSUME NEW i \in 1 .. Len(c) PROVE Number[c[i]] = i - 1
    <3>1. i - 1 \in Nat /\ (i - 1) + 1 = i /\ i <= Len(c)
      BY <2>4
    <3>2. i - 1 \in S
      BY <2>7, <3>1
    <3> QED BY <3>1, <3>2
  <2> QED BY <2>3, <2>8 DEF c
<1> QED BY <1>2, <1>3

-----------------------------------------------------------------------------
(* The database over such a tree.                                          *)

DBFields == {"txPowTree", "blockStore", "chainState", "mmrSet", "megaMMR",
             "checkpoints", "cascade", "mempool"}

GrownDB(d) ==
  /\ DOMAIN d = DBFields /\ Grown(d.txPowTree)
  /\ d.txPowTree.nodes # {} => d.chainState.height = Number[d.txPowTree.tip]

LEMMA EmptyIsGrown ==
  GrownDB(EmptyDB) /\ EmptyDB.txPowTree.nodes = {} /\ EmptyDB.blockStore = {}
<1>1. /\ DOMAIN EmptyDB = DBFields /\ EmptyDB.blockStore = {}
      /\ EmptyDB.txPowTree = Tree!EmptyTree
  BY DEF EmptyDB, DBFields
<1>2. Tree!EmptyTree.nodes = {}
  BY DEF Tree!EmptyTree
<1> QED BY <1>1, <1>2, EmptyIsATree DEF GrownDB, Grown

\* addBlock, and the loop of bootstrapFromDB, for a block the tree takes.
DBTakes(d, b, e) ==
  /\ GrownDB(e)
  /\ e.txPowTree.nodes = d.txPowTree.nodes \cup {b}
  /\ e.blockStore = d.blockStore \cup {b}
  /\ b \in d.txPowTree.nodes \/ b = Genesis \/ Parent[b] \in d.txPowTree.nodes

LEMMA GrownDBTakes ==
  ASSUME NumbersFollow, NEW d, GrownDB(d), NEW b \in TxPoWs, AddBlockReturns(d, b),
         d.txPowTree.nodes = {} => b = Genesis
  PROVE  DBTakes(d, b, AddBlock(d, b)) /\ DBTakes(d, b, ReplayBlock(d, b))
<1> DEFINE t == d.txPowTree
           u == Tree!AddTxPoW(t, b)
<1>1. TreeTakes(t, b, u) /\ Tree!AddReturns(t, b)
  BY GrownTreeTakes DEF GrownDB, AddBlockReturns
<1> HIDE DEF u
<1>2. ASSUME NEW e, DOMAIN e = DBFields, e.txPowTree = u, e.blockStore = d.blockStore \cup {b},
             e.chainState.height = Number[u.tip]
      PROVE  DBTakes(d, b, e)
  BY <1>1, <1>2 DEF TreeTakes, DBTakes, GrownDB
<1>3. DBTakes(d, b, AddBlock(d, b))
  <2> DEFINE e == AddBlock(d, b)
  <2>1. /\ DOMAIN e = DBFields /\ e.txPowTree = u /\ e.blockStore = d.blockStore \cup {b}
        /\ e.chainState = [tip |-> u.tip, height |-> Number[u.tip]]
    BY DEF GrownDB, DBFields, AddBlock, Apply, SetTip, u
  <2> HIDE DEF e
  <2>2. e.chainState.height = Number[u.tip]
    BY <2>1
  <2> QED BY <1>2, <2>1, <2>2 DEF e
<1>4. DBTakes(d, b, ReplayBlock(d, b))
  <2> DEFINE e == ReplayBlock(d, b)
  <2>1. /\ DOMAIN e = DBFields /\ e.txPowTree = u /\ e.blockStore = d.blockStore \cup {b}
        /\ e.chainState = [tip |-> u.tip, height |-> Number[u.tip]]
    BY <1>1 DEF GrownDB, DBFields, ReplayBlock, SetTip, u
  <2> HIDE DEF e
  <2>2. e.chainState.height = Number[u.tip]
    BY <2>1
  <2> QED BY <1>2, <2>1, <2>2 DEF e
<1> QED BY <1>3, <1>4

\* Rebuilding leaves the tree, the store and the tip alone.
LEMMA RebuildKeeps ==
  ASSUME NEW d, GrownDB(d)
  PROVE  /\ GrownDB(Rebuild(d))
         /\ Rebuild(d).txPowTree = d.txPowTree /\ Rebuild(d).blockStore = d.blockStore
<1>1. ASSUME NEW c, DOMAIN c = DBFields, NEW f \in {"mmrSet", "cascade"}, NEW v
      PROVE  LET e == [c EXCEPT ![f] = v]
             IN  /\ DOMAIN e = DBFields /\ e.txPowTree = c.txPowTree
                 /\ e.blockStore = c.blockStore /\ e.chainState = c.chainState
  BY <1>1 DEF DBFields
<1> DEFINE Same(c, e) == /\ DOMAIN e = DBFields /\ e.txPowTree = c.txPowTree
                         /\ e.blockStore = c.blockStore /\ e.chainState = c.chainState
<1>2. ASSUME NEW c, DOMAIN c = DBFields PROVE Same(c, RebuildMMR(c))
  BY <1>2 DEF RebuildMMR, DBFields
<1>3. ASSUME NEW c, DOMAIN c = DBFields PROVE Same(c, RebuildMegaMMR(c))
  BY <1>3 DEF RebuildMegaMMR, DBFields
<1>4. ASSUME NEW c, DOMAIN c = DBFields PROVE Same(c, RebuildCascade(c))
  BY <1>4 DEF RebuildCascade, DBFields
<1> DEFINE d1 == RebuildMMR(d)
           d2 == RebuildMegaMMR(d1)
           d3 == RebuildCascade(d2)
<1>5. DOMAIN d = DBFields
  BY DEF GrownDB
<1>6. Same(d, d1)
  BY <1>2, <1>5
<1> HIDE DEF d1
<1>7. Same(d1, d2)
  BY <1>3, <1>6
<1> HIDE DEF d2
<1>8. Same(d2, d3)
  BY <1>4, <1>7
<1>9. Rebuild(d) = d3
  BY DEF Rebuild, d3, d2, d1
<1> HIDE DEF d3
<1> QED BY <1>6, <1>7, <1>8, <1>9 DEF GrownDB

-----------------------------------------------------------------------------
(* Replaying the block table.                                              *)

\* The saved blocks descend from the genesis.
OnDisk(S) ==
  /\ S \subseteq TxPoWs
  /\ S # {} => Genesis \in S
  /\ \A b \in S \ {Genesis} : Parent[b] \in S /\ Number[b] > 0

\* Each row is read after the row of its parent.
ParentsFirst(rows, S) ==
  /\ rows \in Seq(S) /\ Range(rows) = S
  /\ S # {} => Len(rows) > 0 /\ rows[1] = Genesis
  /\ \A i \in 2 .. Len(rows) : \E j \in 1 .. i - 1 : rows[j] = Parent[rows[i]]

\* Ordered(S) lists each row of S once.
IsListing(rows, S) ==
  LET N == Cardinality(S)
  IN  /\ rows \in [1 .. N -> S] /\ Range(rows) = S
      /\ \A i, j \in 1 .. N : i # j => rows[i] # rows[j]
      /\ \A i \in 2 .. Len(rows) : Number[rows[i - 1]] <= Number[rows[i]]

LEMMA Listed ==
  ASSUME NEW S, IsFiniteSet(S), NEW rows \in Ordered(S)
  PROVE  IsListing(rows, S)
<1> DEFINE N == Cardinality(S)
<1>1. N \in Nat
  BY FS_CardinalityType
<1>2. IsFiniteSet(1 .. N) /\ Cardinality(1 .. N) = N
  BY <1>1, FS_Interval
<1>3. /\ rows \in [1 .. N -> S]
      /\ \A i, j \in 1 .. N : i # j => rows[i] # rows[j]
      /\ \A i \in 2 .. Len(rows) : Number[rows[i - 1]] <= Number[rows[i]]
  BY DEF Ordered, SetToSeqs
<1>4. rows \in Injection(1 .. N, S)
  BY <1>3 DEF Injection, IsInjective
<1>5. rows \in Surjection(1 .. N, S)
  BY <1>2, <1>4, FS_Injection
<1>6. Range(rows) = S
  <2> HIDE DEF N
  <2>1. \A x \in S : \E i \in 1 .. N : rows[i] = x
    BY <1>5 DEF Surjection
  <2>2. DOMAIN rows = 1 .. N /\ \A i \in 1 .. N : rows[i] \in S
    BY <1>3
  <2> QED BY <2>1, <2>2 DEF Range
<1> QED BY <1>3, <1>6 DEF IsListing

LEMMA FunctionIsSequence ==
  ASSUME NEW n \in Nat, NEW S, NEW f \in [1 .. n -> S]
  PROVE  f \in Seq(S) /\ Len(f) = n
OBVIOUS

LEMMA RowsInOrder ==
  ASSUME NumbersFollow, NEW S, OnDisk(S), IsFiniteSet(S), NEW rows \in Ordered(S)
  PROVE  ParentsFirst(rows, S)
<1> USE HeaderAssumption, PersistAssumption
<1> DEFINE N == Cardinality(S)
<1>1. N \in Nat
  BY FS_CardinalityType
<1>2. /\ rows \in [1 .. N -> S]
      /\ \A i, j \in 1 .. N : i # j => rows[i] # rows[j]
      /\ \A i \in 2 .. Len(rows) : Number[rows[i - 1]] <= Number[rows[i]]
  BY Listed DEF IsListing
<1>3. Range(rows) = S
  BY Listed DEF IsListing
<1> HIDE DEF N
<1>4. rows \in Seq(S) /\ Len(rows) = N
  BY <1>1, <1>2, FunctionIsSequence
<1>5. \A i \in 1 .. N : rows[i] \in S /\ Number[rows[i]] \in Int
  BY <1>2 DEF OnDisk
<1>6. ASSUME NEW i \in 1 .. N, NEW j \in 1 .. N, Number[rows[j]] < Number[rows[i]]
      PROVE  j < i
  <2> DEFINE T == {k \in Nat : i + k <= N => Number[rows[i]] <= Number[rows[i + k]]}
  <2>1. 0 \in T
    <3>1. i + 0 = i
      BY <1>1
    <3> QED BY <1>5, <3>1
  <2>2. ASSUME NEW k \in T PROVE k + 1 \in T
    <3> SUFFICES ASSUME i + (k + 1) <= N PROVE Number[rows[i]] <= Number[rows[i + (k + 1)]]
      OBVIOUS
    <3>1. /\ k \in Nat /\ i + k \in 1 .. N /\ i + (k + 1) \in 2 .. N /\ (i + (k + 1)) - 1 = i + k
          /\ i + (k + 1) \in 1 .. N
      BY <1>1
    <3>2. Number[rows[i]] <= Number[rows[i + k]]
      BY <1>1, <3>1
    <3>3. Number[rows[i + k]] <= Number[rows[i + (k + 1)]]
      BY <1>2, <1>4, <3>1
    <3>4. Number[rows[i + k]] \in Int /\ Number[rows[i]] \in Int /\ Number[rows[i + (k + 1)]] \in Int
      BY <1>5, <3>1
    <3> QED BY <3>2, <3>3, <3>4
  <2>3. T = Nat
    <3>1. T \in SUBSET Nat
      OBVIOUS
    <3> HIDE DEF T
    <3> QED BY <2>1, <2>2, <3>1, SetInduction
  <2>4. CASE j >= i
    <3>1. j - i \in Nat /\ i + (j - i) = j /\ j <= N
      BY <1>1, <2>4
    <3>2. Number[rows[i]] <= Number[rows[j]]
      BY <2>3, <3>1
    <3> QED BY <1>5, <1>6, <3>2
  <2> QED BY <1>1, <2>4
<1>7. ASSUME NEW b \in S \ {Genesis} PROVE Number[Parent[b]] < Number[b] /\ Parent[b] \in S
  <2>1. Parent[b] \in S /\ Parent[b] \in TxPoWs /\ b \in TxPoWs /\ Parent[b] # NoBlock
    BY <1>7 DEF OnDisk
  <2>2. Number[b] = Number[Parent[b]] + 1 /\ Number[Parent[b]] \in Int
    BY <2>1 DEF NumbersFollow
  <2> QED BY <2>1, <2>2
<1>8. ASSUME S # {} PROVE N > 0 /\ rows[1] = Genesis
  <2>1. Genesis \in S
    BY <1>8 DEF OnDisk
  <2>2. PICK g \in 1 .. N : rows[g] = Genesis
    BY <1>3, <1>2, <2>1 DEF Range
  <2>3. N > 0 /\ 1 \in 1 .. N
    BY <1>1, <2>2
  <2>4. CASE rows[1] # Genesis
    <3>1. rows[1] \in S \ {Genesis}
      BY <1>5, <2>3, <2>4
    <3>2. Number[rows[1]] > 0 /\ Number[Genesis] = 0
      BY <3>1 DEF OnDisk
    <3>3. Number[rows[g]] < Number[rows[1]]
      BY <1>5, <2>2, <2>3, <3>2
    <3>4. g < 1
      BY <1>6, <2>2, <2>3, <3>3
    <3> QED BY <1>1, <2>2, <3>4
  <2> QED BY <2>3, <2>4
<1>9. ASSUME NEW i \in 2 .. N PROVE \E j \in 1 .. i - 1 : rows[j] = Parent[rows[i]]
  <2>1. i \in 1 .. N /\ 1 \in 1 .. N /\ i # 1
    BY <1>1
  <2>2. rows[i] \in S /\ rows[1] = Genesis /\ rows[i] # rows[1]
    BY <1>2, <1>5, <1>8, <2>1
  <2>3. Number[Parent[rows[i]]] < Number[rows[i]] /\ Parent[rows[i]] \in S
    BY <1>7, <2>2
  <2>4. PICK j \in 1 .. N : rows[j] = Parent[rows[i]]
    BY <1>2, <1>3, <2>3 DEF Range
  <2>5. j < i
    BY <1>6, <2>1, <2>3, <2>4
  <2>6. j \in 1 .. i - 1
    BY <1>1, <2>5
  <2> QED BY <2>4, <2>6
<1> QED BY <1>3, <1>4, <1>8, <1>9 DEF ParentsFirst
\* The databases a replay may pass through.
TipStates ==
  {EmptyDB.chainState}
    \cup {[tip |-> b, height |-> Number[b]] : b \in TxPoWs \cup {NoBlock}}
Databases ==
  [txPowTree   : {t \in Tree!Trees : Tree!IsTree(t)},
   blockStore  : SUBSET TxPoWs,
   chainState  : TipStates,
   mmrSet      : {EmptyDB.mmrSet},
   megaMMR     : {EmptyDB.megaMMR},
   checkpoints : {EmptyDB.checkpoints},
   cascade     : {EmptyDB.cascade},
   mempool     : {EmptyDB.mempool}]

LEMMA ReplayStays ==
  EmptyDB \in Databases /\ \A d \in Databases, b \in TxPoWs : ReplayBlock(d, b) \in Databases
<1>1. EmptyDB \in Databases
  BY EmptyIsATree DEF EmptyDB, Databases, IsATree, TipStates
<1>2. ASSUME NEW d \in Databases, NEW b \in TxPoWs PROVE ReplayBlock(d, b) \in Databases
  <2> DEFINE t == d.txPowTree
             u == Tree!AddTxPoW(t, b)
  <2>1. u \in Tree!Trees /\ Tree!IsTree(u)
    <3>1. t \in TreeProofs!Trees /\ TreeProofs!IsTree(t)
      BY SameTrees, SameIsTree DEF Databases
    <3>2. TreeProofs!AddTxPoW(t, b) \in TreeProofs!Trees /\ TreeProofs!IsTree(TreeProofs!AddTxPoW(t, b))
      BY <3>1, TreeProofs!AddIsTree, HeaderAssumption, HashAssumption
    <3> QED BY <3>2, SameTrees, SameIsTree, SameAdd
  <2>2. u.tip \in TxPoWs \cup {NoBlock}
    BY <2>1 DEF Tree!Trees
  <2> HIDE DEF u
  <2>3. CASE ReplayBlock(d, b) = d
    BY <2>3
  <2>4. CASE ReplayBlock(d, b) # d
    <3>1. ReplayBlock(d, b) = [[d EXCEPT !.chainState = [tip |-> u.tip, height |-> Number[u.tip]]]
                                 EXCEPT !.txPowTree = u, !.blockStore = @ \cup {b}]
      BY <2>4 DEF ReplayBlock, SetTip, u
    <3> DEFINE cs == [tip |-> u.tip, height |-> Number[u.tip]]
    <3>2. cs \in TipStates
      BY <2>2 DEF TipStates
    <3> HIDE DEF cs
    <3>3. ReplayBlock(d, b) = [[d EXCEPT !.chainState = cs]
                                 EXCEPT !.txPowTree = u, !.blockStore = @ \cup {b}]
      BY <3>1 DEF cs
    <3>4. d.blockStore \cup {b} \in SUBSET TxPoWs
      BY DEF Databases
    <3>5. u \in {x \in Tree!Trees : Tree!IsTree(x)}
      BY <2>1
    <3> QED BY <3>2, <3>3, <3>4, <3>5 DEF Databases
  <2> QED BY <2>3, <2>4
<1> QED BY <1>1, <1>2

\* bootstrapFromDB replays the rows one after the other, and rebuilds the rest.
Replays(f, rows) ==
  /\ f[0] = EmptyDB
  /\ \A k \in 1 .. Len(rows) : f[k] = ReplayBlock(f[k - 1], rows[k])

LEMMA BootstrapReplays ==
  ASSUME NEW rows \in Seq(TxPoWs)
  PROVE  \E f : /\ Replays(f, rows)
                /\ Bootstrap(EmptyDB, rows) =
                     IF rows = <<>> THEN EmptyDB ELSE Rebuild(f[Len(rows)])
<1> DEFINE N == Len(rows)
           f == CHOOSE g : g = [i \in 0 .. N |->
                  IF i = 0 THEN EmptyDB ELSE ReplayBlock(g[i - 1], rows[i])]
           F == [k \in 1 .. N |-> [d \in Databases |-> ReplayBlock(d, rows[k])]]
<1>1. N \in Nat /\ \A k \in 1 .. N : rows[k] \in TxPoWs
  OBVIOUS
<1>2. Bootstrap(EmptyDB, rows) = IF rows = <<>> THEN EmptyDB ELSE Rebuild(f[N])
  BY DEF Bootstrap
<1> HIDE DEF N
<1>3. F \in [1 .. N -> [Databases -> Databases]]
  BY <1>1, ReplayStays
<1>4. \A k \in 1 .. N, d \in Databases : F[k][d] = ReplayBlock(d, rows[k])
  OBVIOUS
<1> HIDE DEF F
<1>5. PICK g : Recursive(g, N, Databases, EmptyDB, F)
  BY <1>1, <1>3, ReplayStays, RecursionExists DEF Recursion
<1>6. g = [i \in 0 .. N |-> IF i = 0 THEN EmptyDB ELSE ReplayBlock(g[i - 1], rows[i])]
  <2>1. /\ g \in [0 .. N -> Databases] /\ g[0] = EmptyDB
        /\ \A k \in 1 .. N : g[k] = F[k][g[k - 1]]
    BY <1>5 DEF Recursive
  <2>2. ASSUME NEW i \in 0 .. N
        PROVE  g[i] = IF i = 0 THEN EmptyDB ELSE ReplayBlock(g[i - 1], rows[i])
    <3>1. CASE i = 0
      BY <2>1, <3>1
    <3>2. CASE i # 0
      <4>1. i \in 1 .. N /\ i - 1 \in 0 .. N
        BY <1>1, <3>2
      <4>2. g[i - 1] \in Databases /\ g[i] = F[i][g[i - 1]]
        BY <2>1, <4>1
      <4> QED BY <1>4, <3>2, <4>1, <4>2
    <3> QED BY <3>1, <3>2
  <2> QED BY <2>1, <2>2
<1>7. f = [i \in 0 .. N |-> IF i = 0 THEN EmptyDB ELSE ReplayBlock(f[i - 1], rows[i])]
  BY <1>6, Zenon
<1> HIDE DEF f
<1>8. f[0] = EmptyDB /\ \A k \in 1 .. N : f[k] = ReplayBlock(f[k - 1], rows[k])
  <2>1. 0 \in 0 .. N /\ \A k \in 1 .. N : k \in 0 .. N /\ k # 0
    BY <1>1
  <2> QED BY <1>7, <2>1
<1>9. Replays(f, rows)
  BY <1>8 DEF Replays, N
<1> QED BY <1>2, <1>9 DEF N

\* The object that is opened again holds the saved blocks, in a tree that has
\* grown from the genesis.
Restored(e, S) == GrownDB(e) /\ e.txPowTree.nodes = S /\ e.blockStore = S

LEMMA BootstrapRestores ==
  ASSUME NumbersFollow, NEW S, OnDisk(S), IsFiniteSet(S), NEW rows \in Ordered(S)
  PROVE  Restored(Bootstrap(EmptyDB, rows), S)
<1> DEFINE N == Len(rows)
           Upto(n) == {rows[i] : i \in 1 .. n}
<1>1. ParentsFirst(rows, S) /\ S \subseteq TxPoWs
  BY RowsInOrder DEF OnDisk
<1>2. /\ rows \in Seq(S) /\ Range(rows) = S /\ N \in Nat
      /\ \A i \in 1 .. N : rows[i] \in TxPoWs
  BY <1>1 DEF ParentsFirst
<1>3. rows \in Seq(TxPoWs)
  BY <1>1, <1>2
<1>4. PICK f : /\ Replays(f, rows)
               /\ Bootstrap(EmptyDB, rows) = IF rows = <<>> THEN EmptyDB ELSE Rebuild(f[N])
  BY <1>3, BootstrapReplays
<1> DEFINE T == {n \in 0 .. N : Restored(f[n], Upto(n))}
<1>5. 0 \in T
  <2>1. f[0] = EmptyDB /\ Upto(0) = {}
    BY <1>4 DEF Replays
  <2> QED BY <1>2, <2>1, EmptyIsGrown DEF Restored
<1>6. ASSUME NEW n \in 1 .. N, n - 1 \in T PROVE n \in T
  <2> DEFINE d == f[n - 1]
             b == rows[n]
  <2>1. Restored(d, Upto(n - 1)) /\ f[n] = ReplayBlock(d, b) /\ b \in TxPoWs /\ n \in 0 .. N
    BY <1>2, <1>4, <1>6 DEF Replays
  <2>2. Upto(n) = Upto(n - 1) \cup {b}
    <3>1. 1 .. n = (1 .. n - 1) \cup {n}
      BY <1>2
    <3> QED BY <3>1
  <2>3. CASE n = 1
    <3>1. b = Genesis /\ Upto(0) = {}
      BY <1>1, <1>2, <2>3 DEF ParentsFirst, Range
    <3>2. d.txPowTree.nodes = {}
      BY <2>1, <2>3, <3>1 DEF Restored
    <3>3. AddBlockReturns(d, b)
      <4>1. d.txPowTree.root = NoBlock
        BY <2>1, <3>2 DEF Restored, GrownDB, Grown, IsATree, Tree!IsTree, Tree!Anchored
      <4> QED BY <4>1 DEF AddBlockReturns, Tree!AddReturns, Tree!IsOrphan
    <3> HIDE DEF d, b, Upto
    <3>4. DBTakes(d, b, ReplayBlock(d, b))
      BY <2>1, <3>1, <3>2, <3>3, GrownDBTakes DEF Restored
    <3>5. Restored(f[n], Upto(n))
      BY <2>1, <2>2, <3>4 DEF DBTakes, Restored
    <3> QED BY <2>1, <3>5
  <2>4. CASE n # 1
    <3>1. n \in 2 .. N
      BY <1>2, <2>4
    <3>2. PICK j \in 1 .. n - 1 : rows[j] = Parent[b]
      BY <1>1, <3>1 DEF ParentsFirst
    <3>3. Parent[b] \in d.txPowTree.nodes
      BY <2>1, <3>2 DEF Restored
    <3>4. AddBlockReturns(d, b) /\ d.txPowTree.nodes # {}
      BY <3>3 DEF AddBlockReturns, Tree!AddReturns, Tree!IsOrphan
    <3> HIDE DEF d, b, Upto
    <3>5. DBTakes(d, b, ReplayBlock(d, b))
      BY <2>1, <3>4, GrownDBTakes DEF Restored
    <3>6. Restored(f[n], Upto(n))
      BY <2>1, <2>2, <3>5 DEF DBTakes, Restored
    <3> QED BY <2>1, <3>6
  <2> QED BY <2>3, <2>4
<1>7. Restored(f[N], Upto(N))
  <2>1. 0 .. N \subseteq T
    <3> HIDE DEF T
    <3> QED BY <1>2, <1>5, <1>6, BoundedInduction
  <2>2. N \in 0 .. N
    BY <1>2
  <2> QED BY <2>1, <2>2
<1>8. Upto(N) = S
  BY <1>2 DEF Range
<1>9. CASE rows = <<>>
  <2>1. S = {}
    BY <1>2, <1>9 DEF Range
  <2> QED BY <1>4, <1>9, <2>1, EmptyIsGrown DEF Restored
<1>10. CASE rows # <<>>
  <2> DEFINE d == f[N]
  <2>1. Restored(d, S) /\ Bootstrap(EmptyDB, rows) = Rebuild(d)
    BY <1>4, <1>7, <1>8, <1>10
  <2> HIDE DEF d
  <2> QED BY <2>1, RebuildKeeps DEF Restored
<1> QED BY <1>9, <1>10
-----------------------------------------------------------------------------
(* While no write has failed.                                              *)

AllSpent(t) == Spent(t.coins) = OutputsOf(t.blocks) \cap InputsOf(t.blocks)

\* The saved blocks descend from the genesis and mark all they spend; memory
\* holds the blocks of the table, once it was read.
Clean ==
  /\ bound = Unbound /\ ~ mixed
  /\ \A n \in DOMAIN wal : OnDisk(wal[n].blocks) /\ AllSpent(wal[n])
  /\ GrownDB(db)
  /\ phase = "open" =>
       db.blockStore = tables.blocks /\ db.txPowTree.nodes \subseteq tables.blocks

CleanInv == DiskInv /\ (phase = "closed" => db = EmptyDB) /\ (failures = 0 => Clean)

\* The saved blocks spend no coin that none of them creates.
LEMMA SpentWereCreated ==
  ASSUME CoinsFlowDown, NEW S, OnDisk(S)
  PROVE  InputsOf(S) \subseteq OutputsOf(S)
<1>1. ParentsIn(S) /\ S \in SUBSET TxPoWs
  BY PersistAssumption DEF OnDisk, ParentsIn
<1>2. ASSUME NEW b \in S PROVE Inputs[b] \subseteq OutputsOf(S)
  <2>1. Lineage[b] \subseteq S
    BY <1>1, <1>2 DEF Lineage
  <2>2. Inputs[b] \subseteq OutputsOf(Lineage[b])
    BY <1>1, <1>2 DEF CoinsFlowDown
  <2> QED BY <2>1, <2>2 DEF OutputsOf
<1> QED BY <1>2 DEF InputsOf

\* A block whose parent is saved joins the others.
LEMMA DiskGrows ==
  ASSUME NumbersFollow, NEW S, OnDisk(S), NEW b \in TxPoWs,
         b \in S \/ b = Genesis \/ Parent[b] \in S
  PROVE  OnDisk(S \cup {b})
<1> USE HeaderAssumption, PersistAssumption
<1>1. CASE b \in S \/ b = Genesis
  BY <1>1 DEF OnDisk
<1>2. CASE b \notin S /\ b # Genesis
  <2>1. Parent[b] \in S /\ Parent[b] \in TxPoWs /\ Parent[b] # NoBlock
    BY <1>2 DEF OnDisk
  <2>2. Number[b] = Number[Parent[b]] + 1 /\ Number[Parent[b]] \in Int
    BY <2>1 DEF NumbersFollow
  <2>3. Number[Parent[b]] >= 0
    BY <2>1, <2>2 DEF OnDisk
  <2> QED BY <2>1, <2>2, <2>3 DEF OnDisk
<1> QED BY <1>1, <1>2

\* The numbers of the saved blocks are not the -1 that stands for unspent.
LEMMA SavedAreNumbered ==
  ASSUME NEW S, OnDisk(S), NEW b \in S
  PROVE  Number[b] # -1
BY HeaderAssumption, PersistAssumption DEF OnDisk

LEMMA TransactionIsClean ==
  ASSUME NumbersFollow, CoinsFlowDown, DiskInv, Clean, phase = "open",
         NEW b \in TxPoWs, PersistBlock(b), failures = 0, failures' = 0,
         b \in tables.blocks \/ b = Genesis \/ Parent[b] \in tables.blocks
  PROVE  /\ bound' = Unbound /\ ~ mixed' /\ tables'.blocks = tables.blocks \cup {b}
         /\ \A n \in DOMAIN wal' : OnDisk(wal'[n].blocks) /\ AllSpent(wal'[n])
<1> DEFINE N == Len(Rows(b))
           t == After(N, b).tables
<1>1. DiskType /\ tables \in Tables /\ bound \in Bounds /\ N \in Nat /\ Len(wal) \in DOMAIN wal
  BY TablesAreLast, RowsAre DEF DiskInv, DiskType, AreRows
<1>2. PersistCommits(b)
  BY DEF PersistBlock, PersistThrows
<1>3. Commit(t) /\ bound' = After(N, b).bound
      /\ mixed' = (mixed \/ \E row \in Range(Rows(b)) : BoundRow(bound, row) # row)
  BY <1>2 DEF PersistCommits
<1>4. Unmixed(b)
  <2>1. ASSUME NEW row \in Range(Rows(b)) PROVE BoundRow(bound, row) = row
    <3>1. row.kind \in Kinds
      BY RowsAre, <1>1, <2>1 DEF AreRows, Range
    <3>2. bound[row.kind] = NoRow
      BY <3>1 DEF Clean, Unbound, Kinds
    <3> QED BY <3>2 DEF BoundRow
  <2> QED BY <2>1 DEF Unmixed
<1>5. ~ mixed'
  BY <1>3, <1>4 DEF Clean, Unmixed
<1>6. bound' = Unbound
  <2>1. After(N, b) \in Runs /\ N \in 0 .. N
    BY <1>1, AfterIs DEF IsRun
  <2>2. After(N, b).bound \in Bounds /\ \A k \in Kinds : After(N, b).bound[k] \in {bound[k], NoRow}
    BY <1>1, <2>1, BoundsAreReset DEF Runs
  <2>3. \A k \in Kinds : bound[k] = NoRow
    BY DEF Clean, Unbound, Kinds
  <2> HIDE DEF N
  <2> QED BY <1>3, <2>2, <2>3 DEF Bounds, Unbound, Kinds
<1>7. Saves(b, tables, t)
  BY <1>1, <1>4, TransactionSaves
<1> HIDE DEF t
<1>8. OnDisk(tables.blocks) /\ AllSpent(tables) /\ CoinsMatch(tables)
  BY <1>1 DEF Clean, DiskInv, tables
<1>9. t.blocks = tables.blocks \cup {b} /\ OnDisk(t.blocks)
  <2>1. OnDisk(tables.blocks \cup {b})
    BY <1>8, DiskGrows
  <2> QED BY <1>7, <2>1 DEF Saves
<1>10. AllSpent(t)
  <2>1. Number[b] # -1
    BY <1>9, SavedAreNumbered
  <2>2. /\ Spent(t.coins) = Spent(tables.coins) \cup (Inputs[b] \cap DOMAIN t.coins)
        /\ DOMAIN t.coins = OutputsOf(t.blocks)
    <3>1. CoinsMatch(t)
      BY <1>1, <1>7, <1>8, SavedMatch
    <3> QED BY <1>7, <2>1, <3>1 DEF Saves, CoinsMatch
  <2>3. InputsOf(tables.blocks) \subseteq OutputsOf(tables.blocks)
    BY <1>8, SpentWereCreated
  <2>4. /\ OutputsOf(t.blocks) = OutputsOf(tables.blocks) \cup Range(Outputs[b])
        /\ InputsOf(t.blocks) = InputsOf(tables.blocks) \cup Inputs[b]
    BY <1>9 DEF OutputsOf, InputsOf
  <2> QED BY <1>8, <2>2, <2>3, <2>4 DEF AllSpent
<1>11. /\ tables' = t
       /\ \A n \in DOMAIN wal' : wal'[n] = t \/ \E m \in DOMAIN wal : wal'[n] = wal[m]
  <2>1. t \in Tables
    BY <1>7 DEF Saves
  <2> QED BY <1>1, <1>3, <2>1, CommitAppends
<1>12. \A n \in DOMAIN wal' : OnDisk(wal'[n].blocks) /\ AllSpent(wal'[n])
  <2>1. \A m \in DOMAIN wal : OnDisk(wal[m].blocks) /\ AllSpent(wal[m])
    BY DEF Clean
  <2> QED BY <1>9, <1>10, <1>11, <2>1
<1> QED BY <1>5, <1>6, <1>9, <1>11, <1>12
\* addBlock followed by persistBlock.
LEMMA AddingStaysClean ==
  ASSUME NumbersFollow, CoinsFlowDown, CleanInv, Clean, phase # "closed", phase' = phase,
         NEW b \in TxPoWs, AddBlockReturns(db, b), db.txPowTree.nodes = {} => b = Genesis,
         db' = AddBlock(db, b), PersistBlock(b), failures = 0, failures' = 0
  PROVE  Clean'
<1>1. DBTakes(db, b, db')
  BY GrownDBTakes DEF Clean
<1>2. GrownDB(db')
  BY <1>1 DEF DBTakes
<1>3. CASE phase = "open"
  <2>1. b \in tables.blocks \/ b = Genesis \/ Parent[b] \in tables.blocks
    BY <1>1, <1>3 DEF DBTakes, Clean
  <2>2. /\ bound' = Unbound /\ ~ mixed' /\ tables'.blocks = tables.blocks \cup {b}
        /\ \A n \in DOMAIN wal' : OnDisk(wal'[n].blocks) /\ AllSpent(wal'[n])
    BY <1>3, <2>1, TransactionIsClean DEF CleanInv
  <2>3. db.blockStore = tables.blocks /\ db.txPowTree.nodes \subseteq tables.blocks
    BY <1>3 DEF Clean
  <2>4. db'.blockStore = tables'.blocks /\ db'.txPowTree.nodes \subseteq tables'.blocks
    BY <1>1, <2>2, <2>3 DEF DBTakes
  <2> QED BY <1>2, <2>2, <2>4 DEF Clean
<1>4. CASE phase # "open"
  <2>1. UNCHANGED <<wal, bound, mixed>> /\ phase' # "open"
    BY <1>4 DEF PersistBlock
  <2> QED BY <1>2, <2>1 DEF Clean
<1> QED BY <1>3, <1>4

LEMMA CleanInitial == Init => CleanInv
<1> SUFFICES ASSUME Init PROVE CleanInv
  OBVIOUS
<1>1. DiskInv /\ db = EmptyDB /\ phase = "closed" /\ bound = Unbound /\ ~ mixed
      /\ wal = <<EmptyTables>>
  BY DiskInitial DEF Init
<1>2. \A n \in DOMAIN wal : wal[n] = EmptyTables
  BY <1>1
<1>3. OnDisk(EmptyTables.blocks) /\ AllSpent(EmptyTables)
  BY DEF EmptyTables, OnDisk, AllSpent, Spent, OutputsOf
<1> QED BY <1>1, <1>2, <1>3, EmptyIsGrown DEF CleanInv, Clean

LEMMA CleanStep ==
  ASSUME NumbersFollow, CoinsFlowDown, CleanInv, [Next]_vars
  PROVE  CleanInv'
<1>1. DiskInv' /\ failures \in Nat /\ Len(wal) \in DOMAIN wal
  BY DiskStep, TablesAreLast DEF CleanInv, DiskInv, DiskType
<1>2. failures' = 0 => failures = 0
  <2>1. failures' = failures \/ failures' = failures + 1
    BY DEF Next, Open, InitGenesis, RebuildAll, Reset, Close, Crash, PowerLoss, Gone,
           AddBlockWithPersist, RollbackMegaMMR, PersistBlock, PersistCommits, PersistThrows,
           vars, history
  <2> QED BY <1>1, <2>1
<1>3. phase' = "closed" => db' = EmptyDB
  BY DEF CleanInv, Next, Open, InitGenesis, RebuildAll, Reset, Close, Crash, PowerLoss, Gone,
         AddBlockWithPersist, RollbackMegaMMR, vars, history
<1> SUFFICES ASSUME failures = 0, failures' = 0, Clean PROVE Clean'
  BY <1>1, <1>2, <1>3 DEF CleanInv
<1>4. GrownDB(db)
  BY DEF Clean
<1>5. CASE UNCHANGED vars
  BY <1>5 DEF Clean, vars, history, tables
\* The disk stays as it is, and memory holds the blocks of the table.
<1>6. ASSUME UNCHANGED <<wal, bound, mixed>>, GrownDB(db'),
             phase' = "open" => db'.blockStore = tables.blocks /\ db'.txPowTree.nodes \subseteq tables.blocks
      PROVE  Clean'
  BY <1>6 DEF Clean, tables
<1>7. CASE Open
  <2>1. UNCHANGED <<wal, bound, mixed>> /\ db = EmptyDB
    BY <1>7 DEF Open, CleanInv
  <2>2. CASE phase' = "open" /\ \E rows \in Ordered(tables.blocks) : db' = Bootstrap(db, rows)
    <3>1. OnDisk(tables.blocks) /\ IsFiniteSet(tables.blocks)
      <4>1. tables \in Tables
        BY TablesAreLast DEF CleanInv, DiskInv
      <4>2. OnDisk(tables.blocks)
        BY <1>1 DEF Clean, tables
      <4> QED BY <4>1, <4>2 DEF Tables, BlockRows
    <3>2. Restored(db', tables.blocks)
      BY <2>1, <2>2, <3>1, BootstrapRestores
    <3> QED BY <1>6, <2>1, <3>2 DEF Restored
  <2>3. CASE phase' = "memory" /\ UNCHANGED db
    BY <1>4, <1>6, <2>1, <2>3
  <2> QED BY <1>7, <2>2, <2>3 DEF Open
<1>8. CASE InitGenesis
  <2>1. AddBlockReturns(db, Genesis)
    <3>1. db.txPowTree.root = NoBlock
      BY <1>4, <1>8 DEF InitGenesis, GrownDB, Grown, IsATree, Tree!IsTree, Tree!Anchored
    <3> QED BY <3>1 DEF AddBlockReturns, Tree!AddReturns, Tree!IsOrphan
  <2> QED BY <1>8, <2>1, AddingStaysClean, PersistAssumption DEF InitGenesis
<1>9. ASSUME NEW b \in TxPoWs, AddBlockWithPersist(b) PROVE Clean'
  BY <1>9, AddingStaysClean DEF AddBlockWithPersist
<1>10. ASSUME NEW n, RollbackMegaMMR(n) PROVE Clean'
  <2>1. db' = [db EXCEPT !.megaMMR = db.checkpoints[n]]
        /\ UNCHANGED <<wal, bound, mixed, phase>>
    BY <1>10 DEF RollbackMegaMMR
  <2>2. /\ DOMAIN db' = DBFields /\ db'.txPowTree = db.txPowTree
        /\ db'.blockStore = db.blockStore /\ db'.chainState = db.chainState
    BY <1>4, <2>1 DEF GrownDB, DBFields
  <2> QED BY <1>4, <1>6, <2>1, <2>2 DEF GrownDB, Clean
<1>11. CASE RebuildAll
  <2>1. db' = Rebuild(db) /\ UNCHANGED <<wal, bound, mixed, phase>>
    BY <1>11 DEF RebuildAll
  <2> QED BY <1>4, <1>6, <2>1, RebuildKeeps DEF Clean
<1>12. CASE Reset
  <2>1. db' = ResetDB(db) /\ UNCHANGED <<wal, bound, mixed, phase>>
    BY <1>12 DEF Reset
  <2>2. /\ DOMAIN db' = DBFields /\ db'.blockStore = db.blockStore
        /\ db'.txPowTree = EmptyDB.txPowTree
    BY <2>1 DEF ResetDB, EmptyDB, DBFields
  <2>3. GrownDB(db') /\ db'.txPowTree.nodes = {}
    BY <2>2, EmptyIsGrown DEF GrownDB
  <2> QED BY <1>6, <2>1, <2>2, <2>3 DEF Clean
<1>13. CASE Close \/ Crash \/ PowerLoss
  <2>1. phase' = "closed" /\ db' = EmptyDB /\ bound' = Unbound /\ mixed' = mixed
    BY <1>13 DEF Close, Crash, PowerLoss, Gone
  <2>2. \A m \in DOMAIN wal' : \E n \in DOMAIN wal : wal'[m] = wal[n]
    <3>1. CASE wal' = wal
      BY <3>1
    <3>2. ASSUME NEW n \in DOMAIN wal, wal' = <<wal[n]>>
          PROVE  \A m \in DOMAIN wal' : wal'[m] = wal[n]
      BY <3>2
    <3> QED BY <1>1, <1>13, <3>1, <3>2 DEF Close, Crash, PowerLoss, tables
  <2>3. \A n \in DOMAIN wal' : OnDisk(wal'[n].blocks) /\ AllSpent(wal'[n])
    BY <2>2 DEF Clean
  <2> QED BY <2>1, <2>3, EmptyIsGrown DEF Clean
<1> QED BY <1>5, <1>7, <1>8, <1>9, <1>10, <1>11, <1>12, <1>13 DEF Next

\* Without a failed write the saved blocks are a tree that has grown from the
\* genesis, every coin they spend is marked, and memory holds the same blocks.
THEOREM CleanInvariant == ASSUME NumbersFollow, CoinsFlowDown PROVE Spec => []CleanInv
<1>1. CleanInv /\ [Next]_vars => CleanInv'
  BY CleanStep
<1> QED BY <1>1, CleanInitial, PTL DEF Spec

\* Blocks and coins are saved together, through failed writes, crashes and power
\* losses (SavedTogether).
THEOREM AlwaysSavedTogether ==
  ASSUME NumbersFollow, CoinsFlowDown PROVE Spec => []SavedTogether
<1>1. CleanInv => SavedTogether
  <2> SUFFICES ASSUME CleanInv, ~ mixed, NEW n \in DOMAIN wal
               PROVE  /\ CoinsMatch(wal[n])
                      /\ failures = 0 => AllSpent(wal[n])
    BY DEF SavedTogether, CoinsMatch, AllSpent
  <2> QED BY DEF CleanInv, DiskInv, Clean
<1> QED BY <1>1, CleanInvariant, PTL
\* The highest row is as high as the tip of a tree of all rows.
LEMMA TipIsHighest ==
  ASSUME GrownDB(db), tables.blocks = db.txPowTree.nodes, NEW b \in GetTip
  PROVE  Number[b] = db.chainState.height
<1> DEFINE t == db.txPowTree
<1>1. b \in t.nodes /\ \A c \in t.nodes : Number[c] <= Number[b]
  BY DEF GetTip
<1>2. Grown(t) /\ db.chainState.height = Number[t.tip]
  BY <1>1 DEF GrownDB
<1>3. t.tip \in t.nodes /\ t.weight[b] <= t.weight[t.tip] /\ t.nodes \subseteq TxPoWs
  BY <1>1, <1>2 DEF Grown, IsATree, Tree!IsTree, Tree!Anchored, Tree!Heaviest, Tree!Trees
<1>4. t.weight[b] = Number[b] + 1 /\ t.weight[t.tip] = Number[t.tip] + 1
  BY <1>1, <1>2, <1>3 DEF Grown
<1>5. Number[b] \in Int /\ Number[t.tip] \in Int /\ Number[t.tip] <= Number[b]
  BY <1>1, <1>3, HeaderAssumption
<1> HIDE DEF t
<1> QED BY <1>2, <1>3, <1>4, <1>5

\* On the canonical chain a number names one block.
LEMMA HeightsName ==
  ASSUME GrownDB(db), NEW b \in Range(Chain)
  PROVE  /\ GetBlockAtHeight(Number[b]) = b /\ b \in db.txPowTree.nodes
         /\ \A c \in Range(Chain) : Number[c] = Number[b] => c = b
<1> DEFINE c == Chain
           at == {i \in DOMAIN c : Number[c[i]] = Number[b]}
<1>1. c \in Seq(db.txPowTree.nodes) /\ \A i \in 1 .. Len(c) : Number[c[i]] = i - 1
  BY GrownChain DEF GrownDB, Chain
<1> HIDE DEF c
<1>2. PICK k \in 1 .. Len(c) : c[k] = b
  <2>1. Range(c) = {c[i] : i \in 1 .. Len(c)}
    BY <1>1 DEF Range
  <2> QED BY <2>1 DEF c
<1>3. Number[b] = k - 1 /\ k \in Nat
  BY <1>1, <1>2
<1>4. \A i \in 1 .. Len(c) : Number[c[i]] = Number[b] => i = k
  BY <1>1, <1>3
<1>5. at = {k}
  BY <1>1, <1>2, <1>4
<1>6. Min({k}) = k
  BY <1>3 DEF Min
<1>7. GetBlockAtHeight(Number[b]) = b
  <2>1. GetBlockAtHeight(Number[b]) = IF at = {} THEN NoBlock ELSE c[Min(at)]
    BY DEF GetBlockAtHeight, c
  <2> HIDE DEF at
  <2> QED BY <1>2, <1>5, <1>6, <2>1
<1>8. ASSUME NEW d \in Range(Chain), Number[d] = Number[b] PROVE d = b
  <2>1. PICK i \in 1 .. Len(c) : c[i] = d
    BY <1>1, <1>8 DEF Range, c
  <2> QED BY <1>2, <1>4, <1>8, <2>1
<1> QED BY <1>1, <1>2, <1>7, <1>8

\* While no write has failed, the two stores answer as memory does
\* (DiskAnswersLikeMemory).
THEOREM StoresAgree ==
  ASSUME NumbersFollow, CoinsFlowDown PROVE Spec => []DiskAnswersLikeMemory
<1>1. CleanInv => DiskAnswersLikeMemory
  <2> SUFFICES ASSUME CleanInv, phase = "open", failures = 0
               PROVE  /\ tables.blocks = db.blockStore
                      /\ tables.blocks = db.txPowTree.nodes =>
                           \A b \in GetTip : Number[b] = db.chainState.height
                      /\ (\A b \in tables.blocks : IsInChain(b)) =>
                           /\ \A b \in tables.blocks :
                                GetByNumber(Number[b]) = {GetBlockAtHeight(Number[b])}
                           /\ GetUnspent = {c \in Coins : IsCoinUnspent(c)}
    BY DEF DiskAnswersLikeMemory
  <2>1. /\ GrownDB(db) /\ tables.blocks = db.blockStore
        /\ db.txPowTree.nodes \subseteq tables.blocks
    BY DEF CleanInv, Clean
  <2>2. /\ CoinsMatch(tables) /\ AllSpent(tables)
        /\ tables.blocks \subseteq TxPoWs /\ Len(wal) \in DOMAIN wal
    <3>1. Len(wal) \in DOMAIN wal
      BY TablesAreLast DEF CleanInv, DiskInv
    <3> QED BY <3>1 DEF CleanInv, Clean, DiskInv, OnDisk, tables
  <2>3. tables.blocks = db.txPowTree.nodes => \A b \in GetTip : Number[b] = db.chainState.height
    BY <2>1, TipIsHighest
  <2>4. ASSUME \A b \in tables.blocks : IsInChain(b), NEW b \in tables.blocks
        PROVE  GetByNumber(Number[b]) = {GetBlockAtHeight(Number[b])}
    <3>1. b \in Range(Chain) /\ \A c \in tables.blocks : c \in Range(Chain)
      BY <2>4 DEF IsInChain
    <3>2. GetBlockAtHeight(Number[b]) = b /\ \A c \in Range(Chain) : Number[c] = Number[b] => c = b
      BY <2>1, <3>1, HeightsName
    <3>3. {c \in tables.blocks : Number[c] = Number[b]} = {b}
      BY <2>4, <3>1, <3>2
    <3>4. BlockTime[b] <= BlockTime[b]
      BY <2>2, PersistAssumption
    <3> QED BY <3>2, <3>3, <3>4 DEF GetByNumber
  <2>5. ASSUME \A b \in tables.blocks : IsInChain(b)
        PROVE  GetUnspent = {c \in Coins : IsCoinUnspent(c)}
    <3>1. Range(Chain) = tables.blocks
      <4>1. Range(Chain) \subseteq tables.blocks
        BY <2>1, HeightsName
      <4> QED BY <2>5, <4>1 DEF IsInChain
    <3>2. GetUnspent = OutputsOf(tables.blocks) \ InputsOf(tables.blocks)
      <4>1. GetUnspent = DOMAIN tables.coins \ Spent(tables.coins)
        BY DEF GetUnspent, Spent
      <4> QED BY <2>2, <4>1 DEF CoinsMatch, AllSpent
    <3>3. OutputsOf(tables.blocks) \subseteq Coins
      <4>1. \A b \in tables.blocks : Range(Outputs[b]) \subseteq Coins
        BY <2>2, BodyAssumption DEF Range
      <4> QED BY <4>1 DEF OutputsOf
    <3> QED BY <3>1, <3>2, <3>3 DEF IsCoinUnspent
  <2> QED BY <2>1, <2>3, <2>4, <2>5
<1> QED BY <1>1, CleanInvariant, PTL

-----------------------------------------------------------------------------
(* The coins an MMR shows.                                                 *)

MegaProofs == INSTANCE IndexProofs
  WITH Coins <- Coins \cup TxPoWs, Numbers <- Int, Window <- CheckpointDepth,
       MaxLeaves <- 0, mmr <- db.megaMMR, checkpoints <- db.checkpoints,
       input <- <<>>,
       Blocks <- TxPoWs, MaxLength <- 0, cascade <- db.cascade, chain <- <<>>

LEMMA MegaAssumptions ==
  /\ Int \subseteq Int /\ CheckpointDepth \in Nat /\ 0 \in Nat
  /\ SuperLevel \in [TxPoWs -> Nat]
  /\ DifficultyWeight \in [TxPoWs -> Nat \ {0}]
  /\ LevelsMax \in Nat \ {0} /\ LevelNodes \in Nat \ {0}
BY BoundsAssumption, HeaderAssumption

LEMMA SameMega ==
  ASSUME NEW m, NEW cs
  PROVE  /\ Mega!AddCoins(m, cs) = MegaProofs!AddCoins(m, cs)
         /\ Mega!SpendCoins(m, cs) = MegaProofs!SpendCoins(m, cs)
         /\ Mega!Unspent(m) = MegaProofs!Unspent(m)
         /\ Mega!EmptyMMR = MegaProofs!EmptyMMR
BY Zenon DEF Mega!AddCoins, MegaProofs!AddCoins, Mega!LastAt, MegaProofs!LastAt,
     Mega!SpendCoins, MegaProofs!SpendCoins, Mega!Tracked, MegaProofs!Tracked,
     Mega!Unspent, MegaProofs!Unspent, Mega!EmptyMMR, MegaProofs!EmptyMMR

\* An MMR that went through the blocks of s: it tracks the coins they create, and
\* if they are on one branch it shows those they leave unspent.
Leaves == Coins \cup TxPoWs
Tracks(m, cs) == \A c \in Leaves : m.idx[c] # 0 <=> c \in cs
Shows(m, s) ==
  /\ s \in Seq(TxPoWs) /\ MegaProofs!Good(m)
  /\ Tracks(m, OutputsOf(Range(s)))
  /\ Linear(s) => Mega!Unspent(m) = CoinsLeft(s)

LEMMA EmptyShows == Shows(Mega!EmptyMMR, <<>>)
<1>1. MegaProofs!Good(Mega!EmptyMMR) /\ Mega!Unspent(Mega!EmptyMMR) = {}
  BY MegaProofs!EmptyIsGood, MegaAssumptions, SameMega
<1>2. Range(<<>>) = {} /\ <<>> \in Seq(TxPoWs)
  BY DEF Range
<1>3. OutputsOf({}) = {} /\ CoinsLeft(<<>>) = {}
  BY <1>2 DEF OutputsOf, CoinsLeft
<1>4. Tracks(Mega!EmptyMMR, {})
  BY DEF Tracks, Leaves, Mega!EmptyMMR
<1> QED BY <1>1, <1>2, <1>3, <1>4 DEF Shows

\* One more block at the end of a list.
OneMore(s, b, l) ==
  /\ l \in Seq(TxPoWs) /\ Range(l) = Range(s) \cup {b}
  /\ Linear(l) => Linear(s) /\ Range(s) \subseteq Lineage[b]

LEMMA AppendIsOneMore ==
  ASSUME NEW s \in Seq(TxPoWs), NEW b \in TxPoWs
  PROVE  OneMore(s, b, Append(s, b))
<1> DEFINE l == Append(s, b)
           n == Len(s)
<1>1. /\ l \in Seq(TxPoWs) /\ n \in Nat /\ Len(l) = n + 1 /\ l[n + 1] = b
      /\ \A i \in 1 .. n : l[i] = s[i]
      /\ DOMAIN s = 1 .. n /\ DOMAIN l = 1 .. n + 1
  OBVIOUS
<1> HIDE DEF l, n
<1>2. 1 .. n + 1 = (1 .. n) \cup {n + 1} /\ \A j \in 1 .. n : 1 .. j - 1 \subseteq 1 .. n
  BY <1>1
<1>3. Range(l) = Range(s) \cup {b}
  BY <1>1, <1>2 DEF Range
<1>4. ASSUME Linear(l) PROVE Linear(s)
  <2> SUFFICES ASSUME NEW j \in 1 .. n, NEW i \in 1 .. j - 1
               PROVE  s[i] \in Lineage[s[j]] \ {s[j]}
    BY <1>1 DEF Linear
  <2>1. j \in 1 .. n + 1 /\ i \in 1 .. n /\ l[i] = s[i] /\ l[j] = s[j]
    BY <1>1, <1>2
  <2> QED BY <1>1, <1>4, <2>1 DEF Linear
<1>5. ASSUME Linear(l), NEW a \in Range(s) PROVE a \in Lineage[b]
  <2>1. PICK i \in 1 .. n : s[i] = a
    BY <1>1 DEF Range
  <2>2. n + 1 \in 1 .. n + 1 /\ i \in 1 .. (n + 1) - 1
    BY <1>1
  <2> QED BY <1>1, <1>5, <2>1, <2>2 DEF Linear
<1> QED BY <1>1, <1>3, <1>4, <1>5 DEF OneMore, l

LEMMA CoinsLeftAfter ==
  ASSUME CoinsAreNew, NEW s, NEW b \in TxPoWs, NEW l, OneMore(s, b, l), Linear(l)
  PROVE  /\ CoinsLeft(l) = (CoinsLeft(s) \ Inputs[b]) \cup Range(Outputs[b])
         /\ CoinsLeft(l) = (CoinsLeft(s) \cup Range(Outputs[b])) \ Inputs[b]
<1>1. /\ OutputsOf(Range(l)) = OutputsOf(Range(s)) \cup Range(Outputs[b])
      /\ InputsOf(Range(l)) = InputsOf(Range(s)) \cup Inputs[b]
  BY DEF OneMore, OutputsOf, InputsOf
<1>2. b \in Lineage[b] /\ Range(s) \subseteq Lineage[b]
  BY DEF OneMore, Lineage
<1>3. /\ Range(Outputs[b]) \cap Inputs[b] = {}
      /\ Range(Outputs[b]) \cap InputsOf(Range(s)) = {}
  BY <1>2 DEF CoinsAreNew, InputsOf
<1> QED BY <1>1, <1>3 DEF CoinsLeft

\* processBlock of the global MMR spends first, applyBlockToMMR creates first.
LEMMA BlockShows ==
  ASSUME CoinsAreNew, NEW m, NEW s, Shows(m, s), NEW b \in TxPoWs
  PROVE  /\ Shows(Mega!ProcessBlock(m, Inputs[b], Outputs[b]), Append(s, b))
         /\ Shows(ApplyBlockToMMR(m, b), Append(s, b))
<1> DEFINE l == Append(s, b)
           In == Inputs[b]
           Out == Outputs[b]
<1>1. /\ In \in SUBSET Leaves /\ Out \in Seq(Leaves) /\ MegaProofs!Good(m) 
      /\ Tracks(m, OutputsOf(Range(s)))
      /\ Linear(s) => Mega!Unspent(m) = CoinsLeft(s)
  BY BodyAssumption DEF Shows, Leaves
<1>2. OneMore(s, b, l)
  BY AppendIsOneMore DEF Shows
<1>3. OutputsOf(Range(l)) = OutputsOf(Range(s)) \cup Range(Out)
  BY <1>2 DEF OneMore, OutputsOf
<1> HIDE DEF In, Out, l
<1>4. \A k : MegaProofs!SpendCoins(k, In).idx = k.idx \/ ~ MegaProofs!Good(k)
  <2> SUFFICES ASSUME NEW k, MegaProofs!Good(k)
               PROVE  MegaProofs!SpendCoins(k, In).idx = k.idx
    OBVIOUS
  <2>1. k \in [leaves : Seq(Coins \cup TxPoWs), spent : SUBSET Nat, idx : [Coins \cup TxPoWs -> Nat]]
    BY DEF MegaProofs!Good, MegaProofs!MMRs
  <2> QED BY <2>1 DEF MegaProofs!SpendCoins
<1>5. ASSUME NEW k, MegaProofs!Good(k)
      PROVE  /\ MegaProofs!Good(MegaProofs!SpendCoins(k, In))
             /\ MegaProofs!Unspent(MegaProofs!SpendCoins(k, In)) = MegaProofs!Unspent(k) \ In
             /\ MegaProofs!Good(MegaProofs!AddCoins(k, Out))
             /\ MegaProofs!Unspent(MegaProofs!AddCoins(k, Out)) = MegaProofs!Unspent(k) \cup Range(Out)
             /\ \A c \in Leaves :
                  MegaProofs!AddCoins(k, Out).idx[c] # 0 <=> k.idx[c] # 0 \/ c \in Range(Out)
  <2>1. In \in SUBSET (Coins \cup TxPoWs) /\ Out \in Seq(Coins \cup TxPoWs)
    BY <1>1 DEF Leaves
  <2>2. /\ MegaProofs!Good(MegaProofs!SpendCoins(k, In))
        /\ MegaProofs!Unspent(MegaProofs!SpendCoins(k, In)) = MegaProofs!Unspent(k) \ In
    BY <1>5, <2>1, MegaProofs!SpendCoinsIsRight, MegaAssumptions
  <2>3. /\ MegaProofs!Good(MegaProofs!AddCoins(k, Out))
        /\ MegaProofs!Unspent(MegaProofs!AddCoins(k, Out)) = MegaProofs!Unspent(k) \cup MegaProofs!Range(Out)
    BY <1>5, <2>1, MegaProofs!AddCoinsIsRight, MegaAssumptions
  <2>4. \A c \in Coins \cup TxPoWs :
          MegaProofs!AddCoins(k, Out).idx[c] # 0 <=> k.idx[c] # 0 \/ c \in MegaProofs!Range(Out)
    BY <1>5, <2>1, MegaProofs!AddCoinsTracks, MegaAssumptions
  <2>5. MegaProofs!Range(Out) = Range(Out)
    BY DEF Range, MegaProofs!Range
  <2> QED BY <2>2, <2>3, <2>4, <2>5 DEF Leaves
<1>6. Linear(l) =>
        /\ CoinsLeft(l) = (MegaProofs!Unspent(m) \ In) \cup Range(Out)
        /\ CoinsLeft(l) = (MegaProofs!Unspent(m) \cup Range(Out)) \ In
  BY <1>1, <1>2, CoinsLeftAfter, SameMega DEF OneMore, In, Out
<1>7. l \in Seq(TxPoWs)
  BY <1>2 DEF OneMore
<1>8. ASSUME NEW k, MegaProofs!Good(k),
             \A c \in Leaves : k.idx[c] # 0 <=> m.idx[c] # 0 \/ c \in Range(Out),
             Linear(l) => MegaProofs!Unspent(k) = CoinsLeft(l)
      PROVE  Shows(k, l)
  <2>1. Mega!Unspent(k) = MegaProofs!Unspent(k)
    BY SameMega
  <2> QED BY <1>1, <1>3, <1>7, <1>8, <2>1 DEF Shows, Tracks
<1>9. Shows(Mega!ProcessBlock(m, In, Out), l)
  <2> DEFINE p == MegaProofs!SpendCoins(m, In)
             q == MegaProofs!AddCoins(p, Out)
  <2>1. MegaProofs!Good(p) /\ MegaProofs!Unspent(p) = MegaProofs!Unspent(m) \ In /\ p.idx = m.idx
    BY <1>1, <1>4, <1>5
  <2> HIDE DEF p
  <2>2. /\ MegaProofs!Good(q) /\ MegaProofs!Unspent(q) = MegaProofs!Unspent(p) \cup Range(Out)
        /\ \A c \in Leaves : q.idx[c] # 0 <=> p.idx[c] # 0 \/ c \in Range(Out)
    BY <1>5, <2>1
  <2>3. Mega!ProcessBlock(m, In, Out) = q
    BY SameMega DEF Mega!ProcessBlock, p, q
  <2> HIDE DEF q
  <2> QED BY <1>6, <1>8, <2>1, <2>2, <2>3
<1>10. Shows(ApplyBlockToMMR(m, b), l)
  <2> DEFINE p == MegaProofs!AddCoins(m, Out)
             q == MegaProofs!SpendCoins(p, In)
  <2>1. /\ MegaProofs!Good(p) /\ MegaProofs!Unspent(p) = MegaProofs!Unspent(m) \cup Range(Out)
        /\ \A c \in Leaves : p.idx[c] # 0 <=> m.idx[c] # 0 \/ c \in Range(Out)
    BY <1>1, <1>5
  <2> HIDE DEF p
  <2>2. MegaProofs!Good(q) /\ MegaProofs!Unspent(q) = MegaProofs!Unspent(p) \ In /\ q.idx = p.idx
    BY <1>4, <1>5, <2>1
  <2>3. ApplyBlockToMMR(m, b) = q
    BY SameMega DEF ApplyBlockToMMR, p, q, In, Out
  <2> HIDE DEF q
  <2> QED BY <1>6, <1>8, <2>1, <2>2, <2>3
<1> QED BY <1>9, <1>10 DEF l, In, Out

-----------------------------------------------------------------------------
(* The cascade and the checkpoints of such a list.                         *)

LEMMA SameCascade ==
  ASSUME NEW ns, NEW b
  PROVE  /\ Casc!CascadeChain(ns) = MegaProofs!CascadeChain(ns)
         /\ Casc!AddToTip(ns, b) = MegaProofs!AddToTip(ns, b)
         /\ Casc!RebuildCascade(ns) = MegaProofs!RebuildCascade(ns)
BY Zenon DEF Casc!CascadeChain, MegaProofs!CascadeChain, Casc!AddToTip, MegaProofs!AddToTip,
     Casc!RebuildCascade, MegaProofs!RebuildCascade, Casc!Walk, MegaProofs!Walk,
     Casc!KeepTip, MegaProofs!KeepTip, Casc!VisitNode, MegaProofs!VisitNode,
     Casc!KeepNode, MegaProofs!KeepNode

CascadeOf(s) == Casc!RebuildCascade(Reverse(s))

\* A block that is added to the tip makes the cascade of the longer list.
LEMMA CascadeGrows ==
  ASSUME NEW s \in Seq(TxPoWs), NEW b \in TxPoWs
  PROVE  Casc!CascadeChain(Casc!AddToTip(CascadeOf(s), b)) = CascadeOf(Append(s, b))
<1> DEFINE r == Reverse(s)
           q == Reverse(Append(s, b))
<1>1. r \in Seq(TxPoWs)
  BY DEF Reverse
<1>2. q = <<b>> \o r
  <2> DEFINE n == Len(s)
             l == Append(s, b)
  <2>1. /\ n \in Nat /\ Len(l) = n + 1 /\ l[n + 1] = b /\ \A i \in 1 .. n : l[i] = s[i]
    OBVIOUS
  <2> HIDE DEF l
  <2>2. /\ q \in [1 .. n + 1 -> TxPoWs]
        /\ \A i \in 1 .. n + 1 : q[i] = l[(n + 1 - i) + 1]
    <3>1. \A i \in 1 .. n + 1 : (n + 1 - i) + 1 \in 1 .. n + 1
      BY <2>1
    <3>2. \A i \in 1 .. n + 1 : l[i] \in TxPoWs
      BY <2>1
    <3> QED BY <2>1, <3>1, <3>2 DEF Reverse, l
  <2>3. /\ r \in [1 .. n -> TxPoWs] /\ Len(r) = n
        /\ \A i \in 1 .. n : r[i] = s[(n - i) + 1]
    BY <2>1 DEF Reverse
  <2> HIDE DEF q, r, n
  <2>4. q[1] = b
    <3>1. 1 \in 1 .. n + 1 /\ (n + 1 - 1) + 1 = n + 1
      BY <2>1
    <3> QED BY <2>1, <2>2, <3>1
  <2>5. ASSUME NEW i \in 2 .. n + 1 PROVE q[i] = r[i - 1]
    <3>1. /\ i \in 1 .. n + 1 /\ i - 1 \in 1 .. n /\ (n + 1 - i) + 1 \in 1 .. n
          /\ (n - (i - 1)) + 1 = (n + 1 - i) + 1
      BY <2>1
    <3> QED BY <2>1, <2>2, <2>3, <3>1
  <2> DEFINE p == <<b>> \o r
  <2>6. p \in Seq(TxPoWs) /\ Len(p) = n + 1 /\ p[1] = b /\ \A i \in 2 .. n + 1 : p[i] = r[i - 1]
    BY <1>1, <2>1, <2>3
  <2> HIDE DEF p
  <2>7. p \in [1 .. n + 1 -> TxPoWs]
    BY <2>1, <2>6
  <2>8. \A i \in 1 .. n + 1 : p[i] = q[i]
    <3>1. \A i \in 1 .. n + 1 : i = 1 \/ i \in 2 .. n + 1
      BY <2>1
    <3> QED BY <2>4, <2>5, <2>6, <3>1
  <2>9. p = q
    <3>1. p = [i \in 1 .. n + 1 |-> p[i]] /\ q = [i \in 1 .. n + 1 |-> q[i]]
      BY <2>2, <2>7
    <3> QED BY <2>8, <3>1
  <2> QED BY <2>9 DEF p
<1> HIDE DEF r, q
<1> DEFINE old == MegaProofs!RebuildCascade(r)
<1>3. MegaProofs!CascadeChain(MegaProofs!AddToTip(old, b)) = MegaProofs!RebuildCascade(<<b>> \o r)
  BY <1>1, MegaProofs!OneMoreBlock, MegaAssumptions
<1> QED BY <1>2, <1>3, SameCascade DEF CascadeOf, r, q

LEMMA EmptyCascade == CascadeOf(<<>>) = <<>>
<1>1. Reverse(<<>>) = <<>>
  BY DEF Reverse
<1>2. MegaProofs!RebuildCascade(<<>>) = <<>>
  <2>1. <<>> \in Seq(TxPoWs)
    OBVIOUS
  <2> QED BY <2>1, MegaProofs!RebuildIs, MegaAssumptions
<1> QED BY <1>1, <1>2, SameCascade DEF CascadeOf

\* Numbers that count along a list.
Consecutive(s) == \A i \in 2 .. Len(s) : Number[s[i]] = Number[s[i - 1]] + 1

LEMMA NumbersAlong ==
  ASSUME NEW s \in Seq(TxPoWs), Consecutive(s)
  PROVE  \A i \in 1 .. Len(s) : Number[s[i]] = Number[s[1]] + (i - 1)
<1> DEFINE n == Len(s)
           S == {k \in 0 .. n : k # 0 => Number[s[k]] = Number[s[1]] + (k - 1)}
<1>1. n \in Nat /\ \A i \in 1 .. n : Number[s[i]] \in Int
  BY HeaderAssumption
<1> HIDE DEF n
<1>2. 0 \in S
  BY <1>1
<1>3. ASSUME NEW k \in 1 .. n, k - 1 \in S PROVE k \in S
  <2>1. CASE k = 1
    BY <1>1, <2>1
  <2>2. CASE k # 1
    <3>1. k \in 2 .. n /\ k - 1 \in 1 .. n /\ k - 1 # 0 /\ 1 \in 1 .. n /\ k \in 0 .. n
      BY <1>1, <2>2
    <3>2. Number[s[k]] = Number[s[k - 1]] + 1
      BY <3>1 DEF Consecutive, n
    <3>3. Number[s[k - 1]] = Number[s[1]] + ((k - 1) - 1)
      BY <1>3, <3>1
    <3>4. Number[s[1]] \in Int /\ Number[s[k]] \in Int
      BY <1>1, <3>1
    <3> QED BY <3>1, <3>2, <3>3, <3>4
  <2> QED BY <2>1, <2>2
<1>4. 0 .. n \subseteq S
  <2> HIDE DEF S
  <2> QED BY <1>1, <1>2, <1>3, BoundedInduction
<1>5. ASSUME NEW i \in 1 .. n PROVE Number[s[i]] = Number[s[1]] + (i - 1)
  <2>1. i \in 0 .. n /\ i # 0
    BY <1>1
  <2> QED BY <1>4, <2>1
<1> QED BY <1>5 DEF n

\* Every checkpoint stands for a list, and there is one for each of the last
\* CheckpointDepth blocks and the tip.
Snapshots(cps, at) ==
  DOMAIN at = DOMAIN cps /\ \A n \in DOMAIN cps : Shows(cps[n], at[n])
Kept(cps, s) ==
  Consecutive(s) =>
    \A i \in 1 .. Len(s) : i >= Len(s) - CheckpointDepth => Number[s[i]] \in DOMAIN cps

\* In a list that counts, these are the numbers pruneCheckpoints keeps.
LEMMA LastNumbers ==
  ASSUME NEW s \in Seq(TxPoWs), Consecutive(s), NEW i \in 1 .. Len(s),
         i >= Len(s) - CheckpointDepth
  PROVE  Number[s[i]] >= Number[s[Len(s)]] - CheckpointDepth
<1> DEFINE n == Len(s)
<1>1. n \in Nat /\ n \in 1 .. n /\ Number[s[1]] \in Int /\ CheckpointDepth \in Nat
  BY HeaderAssumption, BoundsAssumption
<1>2. Number[s[i]] = Number[s[1]] + (i - 1) /\ Number[s[n]] = Number[s[1]] + (n - 1)
  BY <1>1, NumbersAlong
<1> HIDE DEF n
<1>3. i >= n - CheckpointDepth
  BY DEF n
<1>4. Number[s[i]] >= Number[s[n]] - CheckpointDepth
  BY <1>1, <1>2, <1>3
<1> QED BY <1>4 DEF n

\* A checkpoint at the new tip, then pruneCheckpoints.
LEMMA CheckpointsGrow ==
  ASSUME NEW cps, NEW at, Snapshots(cps, at), NEW s \in Seq(TxPoWs), Kept(cps, s),
         NEW b \in TxPoWs, NEW m, NEW a, Shows(m, a)
  PROVE  LET new == Mega!PruneCheckpoints(Mega!Checkpoint(cps, m, Number[b]), Number[b])
         IN  /\ Snapshots(new, [n \in DOMAIN new |-> IF n = Number[b] THEN a ELSE at[n]])
             /\ Kept(new, Append(s, b))
<1> DEFINE k == Number[b]
           all == Mega!Checkpoint(cps, m, k)
           new == Mega!PruneCheckpoints(all, k)
           l == Append(s, b)
<1>1. k \in Int /\ CheckpointDepth \in Nat
  BY HeaderAssumption, BoundsAssumption
<1> HIDE DEF k
<1>2. /\ DOMAIN all = DOMAIN cps \cup {k} /\ all[k] = m
      /\ \A n \in DOMAIN cps \ {k} : all[n] = cps[n]
  BY DEF Mega!Checkpoint
<1> HIDE DEF all
<1>3. DOMAIN new = {n \in DOMAIN all : n >= k - CheckpointDepth}
      /\ \A n \in DOMAIN new : new[n] = all[n]
  BY DEF Mega!PruneCheckpoints
<1> HIDE DEF new
<1> DEFINE to == [n \in DOMAIN new |-> IF n = k THEN a ELSE at[n]]
<1>4. Snapshots(new, to)
  <2>1. ASSUME NEW n \in DOMAIN new PROVE Shows(new[n], to[n])
    <3>1. CASE n = k
      BY <1>2, <1>3, <3>1
    <3>2. CASE n # k
      BY <1>2, <1>3, <3>2 DEF Snapshots
    <3> QED BY <3>1, <3>2
  <2> QED BY <2>1 DEF Snapshots
<1>5. ASSUME Consecutive(l), NEW i \in 1 .. Len(l), i >= Len(l) - CheckpointDepth
      PROVE  Number[l[i]] \in DOMAIN new
  <2> DEFINE N == Len(s)
  <2>1. /\ N \in Nat /\ Len(l) = N + 1 /\ l[N + 1] = b /\ \A j \in 1 .. N : l[j] = s[j]
        /\ l \in Seq(TxPoWs)
    OBVIOUS
  <2> HIDE DEF l, N
  <2>2. Number[l[i]] >= k - CheckpointDepth
    BY <1>5, <2>1, LastNumbers DEF k
  <2>3. CASE i = N + 1
    BY <1>2, <1>3, <2>1, <2>2, <2>3 DEF k
  <2>4. CASE i # N + 1
    <3>1. i \in 1 .. N /\ i >= N - CheckpointDepth
      BY <1>1, <1>5, <2>1, <2>4
    <3>2. Consecutive(s)
      <4> SUFFICES ASSUME NEW j \in 2 .. N PROVE Number[s[j]] = Number[s[j - 1]] + 1
        BY DEF Consecutive, N
      <4>1. j \in 2 .. Len(l) /\ j \in 1 .. N /\ j - 1 \in 1 .. N
        BY <2>1
      <4> QED BY <1>5, <2>1, <4>1 DEF Consecutive
    <3>3. Number[s[i]] \in DOMAIN cps
      BY <3>1, <3>2 DEF Kept, N
    <3> QED BY <1>2, <1>3, <2>1, <2>2, <3>1, <3>3
  <2> QED BY <2>3, <2>4
<1>6. Kept(new, l)
  BY <1>5 DEF Kept
<1> QED BY <1>4, <1>6 DEF new, all, k, l, to

-----------------------------------------------------------------------------
(* Rebuilding from the canonical chain.                                    *)

GoodMMRs == {m \in MegaProofs!MMRs : MegaProofs!Good(m)}

LEMMA GoodStays ==
  /\ Mega!EmptyMMR \in GoodMMRs
  /\ \A m \in GoodMMRs, b \in TxPoWs :
       /\ Mega!ProcessBlock(m, Inputs[b], Outputs[b]) \in GoodMMRs
       /\ ApplyBlockToMMR(m, b) \in GoodMMRs
<1>1. \A m : MegaProofs!Good(m) => m \in GoodMMRs
  BY DEF GoodMMRs, MegaProofs!Good
<1>2. Mega!EmptyMMR \in GoodMMRs
  BY <1>1, EmptyShows DEF Shows
<1>3. ASSUME NEW m \in GoodMMRs, NEW b \in TxPoWs
      PROVE  /\ Mega!ProcessBlock(m, Inputs[b], Outputs[b]) \in GoodMMRs
             /\ ApplyBlockToMMR(m, b) \in GoodMMRs
  <2> DEFINE In == Inputs[b]
             Out == Outputs[b]
  <2>1. In \in SUBSET (Coins \cup TxPoWs) /\ Out \in Seq(Coins \cup TxPoWs)
    BY BodyAssumption
  <2> HIDE DEF In, Out
  <2>2. ASSUME NEW k, MegaProofs!Good(k)
        PROVE  /\ MegaProofs!Good(MegaProofs!SpendCoins(k, In))
               /\ MegaProofs!Good(MegaProofs!AddCoins(k, Out))
    <3>1. MegaProofs!Good(MegaProofs!SpendCoins(k, In))
      BY <2>1, <2>2, MegaProofs!SpendCoinsIsRight, MegaAssumptions
    <3>2. MegaProofs!Good(MegaProofs!AddCoins(k, Out))
      BY <2>1, <2>2, MegaProofs!AddCoinsIsRight, MegaAssumptions
    <3> QED BY <3>1, <3>2
  <2>3. MegaProofs!Good(m)
    BY <1>3 DEF GoodMMRs
  <2>4. /\ MegaProofs!Good(MegaProofs!AddCoins(MegaProofs!SpendCoins(m, In), Out))
        /\ MegaProofs!Good(MegaProofs!SpendCoins(MegaProofs!AddCoins(m, Out), In))
    BY <2>2, <2>3
  <2>5. /\ Mega!ProcessBlock(m, In, Out)
             = MegaProofs!AddCoins(MegaProofs!SpendCoins(m, In), Out)
        /\ ApplyBlockToMMR(m, b) = MegaProofs!SpendCoins(MegaProofs!AddCoins(m, Out), In)
    BY SameMega DEF Mega!ProcessBlock, ApplyBlockToMMR, In, Out
  <2> QED BY <1>1, <2>4, <2>5 DEF In, Out
<1> QED BY <1>2, <1>3

\* The first blocks of a list.
First(s, k) == SubSeq(s, 1, k)

LEMMA FirstBlocks ==
  ASSUME NEW s \in Seq(TxPoWs)
  PROVE  /\ First(s, 0) = <<>> /\ First(s, Len(s)) = s
         /\ \A k \in 1 .. Len(s) : First(s, k) = Append(First(s, k - 1), s[k])
<1> DEFINE n == Len(s)
<1>1. n \in Nat
  OBVIOUS
<1>2. SubSeq(s, 1, 0) = <<>>
  OBVIOUS
<1>3. SubSeq(s, 1, Len(s)) = s
  OBVIOUS
<1>4. ASSUME NEW k \in 1 .. n PROVE SubSeq(s, 1, k) = Append(SubSeq(s, 1, k - 1), s[k])
  <2> DEFINE p == SubSeq(s, 1, k)
             q == SubSeq(s, 1, k - 1)
             r == Append(q, s[k])
  <2>1. p \in Seq(TxPoWs) /\ Len(p) = k /\ \A i \in 1 .. k : p[i] = s[i]
    BY <1>1, <1>4
  <2>2. q \in Seq(TxPoWs) /\ Len(q) = k - 1 /\ \A i \in 1 .. k - 1 : q[i] = s[i]
    BY <1>1, <1>4
  <2> HIDE DEF p, q
  <2>3. s[k] \in TxPoWs /\ k \in Nat
    BY <1>4
  <2>4. r \in Seq(TxPoWs) /\ Len(r) = k /\ \A i \in 1 .. k - 1 : r[i] = s[i]
    BY <2>2, <2>3
  <2>5. r[k] = s[k]
    BY <2>2, <2>3
  <2> HIDE DEF r
  <2>6. \A i \in 1 .. k : p[i] = r[i]
    <3>1. \A i \in 1 .. k : i = k \/ i \in 1 .. k - 1
      BY <2>3
    <3> QED BY <2>1, <2>4, <2>5, <3>1
  <2>7. p = r
    BY <2>1, <2>4, <2>6
  <2> QED BY <2>7 DEF p, q, r
<1> QED BY <1>2, <1>3, <1>4 DEF First

\* The canonical chain leads along parents to the tip.
ChainIsRight(t, c) ==
  /\ c \in Seq(TxPoWs)
  /\ t.nodes = {} => c = <<>>
  /\ t.nodes # {} => c # <<>> /\ c[Len(c)] = t.tip
  /\ \A i \in 2 .. Len(c) : Parent[c[i]] = c[i - 1]

LEMMA ChainOfTree ==
  ASSUME NEW t, IsATree(t)
  PROVE  ChainIsRight(t, Tree!CanonicalChain(t))
<1> USE HeaderAssumption
<1> DEFINE c == Tree!CanonicalChain(t)
<1>1. t \in Tree!Trees /\ Tree!IsTree(t) /\ t.nodes \subseteq TxPoWs
  BY DEF IsATree, Tree!Trees
<1>2. CASE t.tip = NoBlock
  <2>1. c = <<>>
    BY <1>2 DEF Tree!CanonicalChain
  <2>2. Len(<<>>) = 0 /\ <<>> \in Seq(TxPoWs)
    OBVIOUS
  <2>3. t.nodes = {}
    BY <1>1, <1>2 DEF Tree!IsTree, Tree!Anchored
  <2> HIDE DEF c
  <2> QED BY <2>1, <2>2, <2>3 DEF ChainIsRight, c
<1>3. CASE t.tip # NoBlock
  <2>1. t.nodes # {} /\ t.root \in t.nodes
    BY <1>1, <1>3 DEF Tree!IsTree, Tree!Anchored
  <2>2. TreeProofs!IsPath(t, t.tip, c)
    <3>1. t \in TreeProofs!Trees /\ TreeProofs!IsTree(t)
      BY SameTrees, SameIsTree DEF IsATree
    <3>2. TreeProofs!IsPath(t, t.tip, TreeProofs!CanonicalChain(t))
      BY <1>3, <3>1, TreeProofs!ChainIsPath, HashAssumption
    <3> QED BY <3>2, SameChain
  <2> HIDE DEF c
  <2>3. /\ c \in Seq(t.nodes) /\ c # <<>> /\ c[Len(c)] = t.tip
        /\ \A i \in 2 .. Len(c) : t.parent[c[i]] = c[i - 1]
    BY <2>2 DEF TreeProofs!IsPath
  <2>4. c \in Seq(TxPoWs) /\ \A i \in 1 .. Len(c) : c[i] \in t.nodes
    BY <1>1, <2>3
  <2>5. ASSUME NEW i \in 2 .. Len(c) PROVE Parent[c[i]] = c[i - 1]
    <3>1. i \in 1 .. Len(c) /\ i - 1 \in 1 .. Len(c)
      BY <2>4
    <3>2. c[i] \in t.nodes /\ c[i - 1] # NoBlock /\ t.parent[c[i]] = c[i - 1]
      BY <1>1, <2>3, <2>4, <3>1
    <3>3. t.parent[t.root] = NoBlock
      BY <1>1, <2>1 DEF Tree!IsTree, Tree!RootDetached
    <3>4. c[i] \in t.nodes \ {t.root}
      BY <3>2, <3>3
    <3> QED BY <1>1, <3>2, <3>4 DEF Tree!IsTree, Tree!Linked
  <2> QED BY <2>1, <2>3, <2>4, <2>5 DEF ChainIsRight, c
<1> QED BY <1>2, <1>3

\* Where numbers follow, such a chain counts, and is on one branch.
LEMMA ChainIsLinear ==
  ASSUME NumbersFollow, NEW t, NEW c, ChainIsRight(t, c)
  PROVE  Consecutive(c) /\ Linear(c)
<1> DEFINE n == Len(c)
<1>1. /\ c \in Seq(TxPoWs) /\ n \in Nat /\ DOMAIN c = 1 .. n
      /\ \A i \in 1 .. n : c[i] \in TxPoWs
      /\ \A i \in 2 .. n : Parent[c[i]] = c[i - 1]
  BY DEF ChainIsRight
<1> HIDE DEF n
<1>2. ASSUME NEW i \in 2 .. n PROVE Number[c[i]] = Number[c[i - 1]] + 1
  <2>1. i \in 1 .. n /\ i - 1 \in 1 .. n
    BY <1>1
  <2>2. Parent[c[i]] = c[i - 1] /\ c[i - 1] # NoBlock /\ c[i] \in TxPoWs
    BY <1>1, <2>1, HeaderAssumption
  <2> QED BY <2>2 DEF NumbersFollow
<1>3. Consecutive(c)
  BY <1>2 DEF Consecutive, n
<1>4. ASSUME NEW j \in 1 .. n, NEW i \in 1 .. j - 1
      PROVE  c[i] \in Lineage[c[j]] \ {c[j]}
  <2>1. i \in 1 .. n /\ j \in Nat /\ i \in Nat /\ i < j
    BY <1>1
  <2>2. Number[c[i]] # Number[c[j]]
    <3>1. \A k \in 1 .. n : Number[c[k]] = Number[c[1]] + (k - 1)
      BY <1>1, <1>3, NumbersAlong DEF n
    <3>2. Number[c[1]] \in Int
      <4>1. 1 \in 1 .. n
        BY <1>1, <2>1
      <4> QED BY <1>1, <4>1, HeaderAssumption
    <3>3. Number[c[i]] = Number[c[1]] + (i - 1) /\ Number[c[j]] = Number[c[1]] + (j - 1)
      BY <2>1, <3>1
    <3> QED BY <2>1, <3>2, <3>3
  <2>3. ASSUME NEW S \in SUBSET TxPoWs, c[j] \in S, ParentsIn(S) PROVE c[i] \in S
    <3> DEFINE T == {k \in 0 .. j : k < j => c[j - k] \in S}
    <3>1. 0 \in T
      <4>1. j - 0 = j
        BY <2>1
      <4> QED BY <2>1, <2>3, <4>1
    <3>2. ASSUME NEW k \in 1 .. j, k - 1 \in T PROVE k \in T
      <4> SUFFICES ASSUME k < j PROVE c[j - k] \in S
        BY <2>1
      <4>1. /\ j - (k - 1) \in 2 .. n /\ (j - (k - 1)) - 1 = j - k /\ j - k \in 1 .. n
            /\ k - 1 < j
        BY <1>1, <2>1
      <4>2. c[j - (k - 1)] \in S /\ Parent[c[j - (k - 1)]] = c[j - k]
        BY <1>1, <3>2, <4>1
      <4>3. c[j - k] # NoBlock
        BY <1>1, <4>1, HeaderAssumption
      <4> QED BY <2>3, <4>2, <4>3 DEF ParentsIn
    <3>3. 0 .. j \subseteq T
      <4> HIDE DEF T
      <4> QED BY <2>1, <3>1, <3>2, BoundedInduction
    <3>4. j - i \in 0 .. j /\ j - i < j /\ j - (j - i) = i
      BY <2>1
    <3> QED BY <3>3, <3>4
  <2>4. c[i] \in TxPoWs /\ c[j] \in TxPoWs
    BY <1>1, <2>1
  <2> QED BY <2>2, <2>3, <2>4 DEF Lineage
<1>5. Linear(c)
  BY <1>1, <1>4 DEF Linear
<1> QED BY <1>3, <1>5

LEMMA RebuiltMMRShows ==
  ASSUME CoinsAreNew, NEW d, IsATree(d.txPowTree), DOMAIN d = DBFields
  PROVE  Shows(RebuildMMR(d).mmrSet, Tree!CanonicalChain(d.txPowTree))
<1> DEFINE c == Tree!CanonicalChain(d.txPowTree)
           N == Len(c)
           x0 == Mega!EmptyMMR
           X == GoodMMRs
           F == [k \in 1 .. N |-> [m \in X |-> ApplyBlockToMMR(m, c[k])]]
           Body(f) == [i \in 0 .. N |-> IF i = 0 THEN x0 ELSE ApplyBlockToMMR(f[i - 1], c[i])]
           g == CHOOSE f : f = Body(f)
<1>1. RebuildMMR(d).mmrSet = g[N]
  BY DEF RebuildMMR, DBFields
<1>2. c \in Seq(TxPoWs)
  BY ChainOfTree DEF ChainIsRight
<1> HIDE DEF c
<1>3. N \in Nat /\ \A k \in 1 .. N : c[k] \in TxPoWs
  BY <1>2
<1> HIDE DEF N, x0, X
<1>4. x0 \in X /\ \A m \in X, b \in TxPoWs : ApplyBlockToMMR(m, b) \in X
  BY GoodStays DEF X, x0
<1>5. F \in [1 .. N -> [X -> X]]
      /\ \A k \in 1 .. N, m \in X : F[k][m] = ApplyBlockToMMR(m, c[k])
  BY <1>3, <1>4
<1> HIDE DEF F
<1>6. PICK h : Recursive(h, N, X, x0, F)
  BY <1>3, <1>4, <1>5, RecursionExists DEF Recursion
<1>7. /\ h \in [0 .. N -> X] /\ h[0] = x0
      /\ \A k \in 1 .. N : h[k] = F[k][h[k - 1]]
  BY <1>6 DEF Recursive
<1>8. h = Body(h)
  <2>1. ASSUME NEW i \in 0 .. N
        PROVE  h[i] = IF i = 0 THEN x0 ELSE ApplyBlockToMMR(h[i - 1], c[i])
    <3>1. CASE i = 0
      BY <1>7, <3>1
    <3>2. CASE i # 0
      <4>1. i \in 1 .. N /\ i - 1 \in 0 .. N
        BY <1>3, <3>2
      <4>2. h[i - 1] \in X /\ h[i] = F[i][h[i - 1]]
        BY <1>7, <4>1
      <4> QED BY <1>5, <3>2, <4>1, <4>2
    <3> QED BY <3>1, <3>2
  <2> QED BY <1>7, <2>1
<1> HIDE DEF Body
<1>9. g = Body(g)
  BY <1>8, Zenon
<1> HIDE DEF g
<1>10. g[0] = x0 /\ \A k \in 1 .. N : g[k] = ApplyBlockToMMR(g[k - 1], c[k])
  <2>1. \A i \in 0 .. N : g[i] = IF i = 0 THEN x0 ELSE ApplyBlockToMMR(g[i - 1], c[i])
    BY <1>9 DEF Body
  <2>2. 0 \in 0 .. N /\ \A k \in 1 .. N : k \in 0 .. N /\ k # 0
    BY <1>3
  <2> QED BY <2>1, <2>2
<1> DEFINE P(k) == First(c, k)
           S == {k \in 0 .. N : Shows(g[k], P(k))}
<1>11. P(0) = <<>> /\ P(N) = c /\ \A k \in 1 .. N : P(k) = Append(P(k - 1), c[k])
  BY <1>2, FirstBlocks DEF N
<1> HIDE DEF P
<1>12. 0 \in S
  BY <1>3, <1>10, <1>11, EmptyShows DEF x0
<1>13. ASSUME NEW k \in 1 .. N, k - 1 \in S PROVE k \in S
  <2>1. Shows(g[k - 1], P(k - 1)) /\ k \in 0 .. N
    BY <1>3, <1>13
  <2>2. Shows(ApplyBlockToMMR(g[k - 1], c[k]), Append(P(k - 1), c[k]))
    BY <1>3, <2>1, BlockShows
  <2> QED BY <1>10, <1>11, <2>1, <2>2
<1>14. 0 .. N \subseteq S
  <2> HIDE DEF S
  <2> QED BY <1>3, <1>12, <1>13, BoundedInduction
<1>15. Shows(g[N], c)
  BY <1>3, <1>11, <1>14
<1> QED BY <1>1, <1>15 DEF c

\* The loop of rebuildMegaMMR after k blocks of c: the MMR has gone through them,
\* and each checkpoint through those up to the last of its number.
LastOf(c, k, n, i) ==
  /\ i \in 1 .. k /\ Number[c[i]] = n
  /\ \A j \in 1 .. k : Number[c[j]] = n => j <= i
MegaLoop(c, k, r) ==
  /\ Shows(r.mega, First(c, k))
  /\ DOMAIN r.cps = {Number[c[i]] : i \in 1 .. k}
  /\ \A n \in DOMAIN r.cps : \E i \in 1 .. k :
       LastOf(c, k, n, i) /\ Shows(r.cps[n], First(c, i))

LEMMA MegaLoopSteps ==
  ASSUME CoinsAreNew, NEW c \in Seq(TxPoWs), NEW k \in 1 .. Len(c), NEW r, MegaLoop(c, k - 1, r)
  PROVE  MegaLoop(c, k, Onto(r, c[k]))
<1> DEFINE b == c[k]
           m == Mega!ProcessBlock(r.mega, Inputs[b], Outputs[b])
           cps == Mega!Checkpoint(r.cps, m, Number[b])
<1>1. b \in TxPoWs /\ k \in Nat /\ k # 0
  OBVIOUS
<1>2. Onto(r, b) = [mega |-> m, cps |-> cps]
  BY DEF Onto
<1>3. First(c, k) = Append(First(c, k - 1), b)
  BY FirstBlocks
<1>4. Shows(m, First(c, k))
  <2>1. Shows(r.mega, First(c, k - 1))
    BY DEF MegaLoop
  <2> HIDE DEF b
  <2>2. Shows(m, Append(First(c, k - 1), b))
    BY <1>1, <2>1, BlockShows
  <2> QED BY <1>3, <2>2
<1>5. /\ DOMAIN cps = DOMAIN r.cps \cup {Number[b]} /\ cps[Number[b]] = m
      /\ \A n \in DOMAIN r.cps \ {Number[b]} : cps[n] = r.cps[n]
  BY DEF Mega!Checkpoint
<1> HIDE DEF m, cps
<1>6. 1 .. k = (1 .. k - 1) \cup {k}
  BY <1>1
<1>7. DOMAIN cps = {Number[c[i]] : i \in 1 .. k}
  BY <1>5, <1>6 DEF MegaLoop
<1>8. ASSUME NEW n \in DOMAIN cps
      PROVE  \E i \in 1 .. k : LastOf(c, k, n, i) /\ Shows(cps[n], First(c, i))
  <2>1. CASE n = Number[b]
    <3>1. LastOf(c, k, n, k) /\ k \in 1 .. k
      BY <1>1, <2>1 DEF LastOf
    <3> QED BY <1>4, <1>5, <2>1, <3>1
  <2>2. CASE n # Number[b]
    <3>1. n \in DOMAIN r.cps /\ cps[n] = r.cps[n]
      BY <1>5, <2>2
    <3>2. PICK i \in 1 .. k - 1 : LastOf(c, k - 1, n, i) /\ Shows(r.cps[n], First(c, i))
      BY <3>1 DEF MegaLoop
    <3>3. LastOf(c, k, n, i) /\ i \in 1 .. k
      BY <1>6, <2>2, <3>2 DEF LastOf
    <3> QED BY <3>1, <3>2, <3>3
  <2> QED BY <2>1, <2>2
<1>9. MegaLoop(c, k, [mega |-> m, cps |-> cps])
  BY <1>4, <1>7, <1>8 DEF MegaLoop
<1> QED BY <1>2, <1>9

\* What the loop ends with.
MegaRebuilt(c, d, e) ==
  \E r : /\ MegaLoop(c, Len(c), r) /\ e.megaMMR = r.mega
         /\ e.checkpoints = Mega!PruneCheckpoints(r.cps, d.chainState.height)

LEMMA RebuiltMegaMMR ==
  ASSUME CoinsAreNew, NEW d, IsATree(d.txPowTree), DOMAIN d = DBFields
  PROVE  MegaRebuilt(Tree!CanonicalChain(d.txPowTree), d, RebuildMegaMMR(d))
<1> DEFINE c == Tree!CanonicalChain(d.txPowTree)
           N == Len(c)
           x0 == [mega |-> Mega!EmptyMMR, cps |-> <<>>]
           Cps == UNION {[D -> GoodMMRs] : D \in SUBSET Int}
           X == [mega : GoodMMRs, cps : Cps]
           F == [k \in 1 .. N |-> [m \in X |-> Onto(m, c[k])]]
           Body(f) == [i \in 0 .. N |-> IF i = 0 THEN x0 ELSE Onto(f[i - 1], c[i])]
           g == CHOOSE f : f = Body(f)
<1>1. /\ RebuildMegaMMR(d).megaMMR = g[N].mega
      /\ RebuildMegaMMR(d).checkpoints = Mega!PruneCheckpoints(g[N].cps, d.chainState.height)
  BY DEF RebuildMegaMMR, DBFields
<1>2. c \in Seq(TxPoWs)
  BY ChainOfTree DEF ChainIsRight
<1> HIDE DEF c
<1>3. N \in Nat /\ \A k \in 1 .. N : c[k] \in TxPoWs
  BY <1>2
<1> HIDE DEF N
<1>4. x0 \in X
  <2>1. <<>> \in [{} -> GoodMMRs] /\ {} \in SUBSET Int
    OBVIOUS
  <2> QED BY <2>1, GoodStays
<1>5. ASSUME NEW m \in X, NEW b \in TxPoWs PROVE Onto(m, b) \in X
  <2> DEFINE p == Mega!ProcessBlock(m.mega, Inputs[b], Outputs[b])
             q == Mega!Checkpoint(m.cps, p, Number[b])
  <2>1. p \in GoodMMRs
    <3>1. m.mega \in GoodMMRs
      BY <1>5
    <3> QED BY <3>1, GoodStays
  <2> HIDE DEF p
  <2>2. PICK D \in SUBSET Int : m.cps \in [D -> GoodMMRs]
    BY <1>5
  <2>3. D \cup {Number[b]} \in SUBSET Int /\ q \in [D \cup {Number[b]} -> GoodMMRs]
    <3>1. Number[b] \in Int
      BY HeaderAssumption
    <3>2. q = [k \in D \cup {Number[b]} |-> IF k = Number[b] THEN p ELSE m.cps[k]]
      BY <2>2 DEF Mega!Checkpoint
    <3> HIDE DEF q
    <3>3. \A k \in D \cup {Number[b]} : (IF k = Number[b] THEN p ELSE m.cps[k]) \in GoodMMRs
      BY <2>1, <2>2
    <3> QED BY <3>1, <3>2, <3>3
  <2> HIDE DEF q
  <2>4. q \in Cps
    BY <2>3
  <2>5. Onto(m, b) = [mega |-> p, cps |-> q]
    BY DEF Onto, p, q
  <2> HIDE DEF Cps
  <2> QED BY <2>1, <2>4, <2>5
<1> HIDE DEF x0, X, Cps
<1>6. F \in [1 .. N -> [X -> X]]
      /\ \A k \in 1 .. N, m \in X : F[k][m] = Onto(m, c[k])
  BY <1>3, <1>5
<1> HIDE DEF F
<1>7. PICK h : Recursive(h, N, X, x0, F)
  BY <1>3, <1>4, <1>6, RecursionExists DEF Recursion
<1>8. /\ h \in [0 .. N -> X] /\ h[0] = x0
      /\ \A k \in 1 .. N : h[k] = F[k][h[k - 1]]
  BY <1>7 DEF Recursive
<1>9. h = Body(h)
  <2>1. ASSUME NEW i \in 0 .. N
        PROVE  h[i] = IF i = 0 THEN x0 ELSE Onto(h[i - 1], c[i])
    <3>1. CASE i = 0
      BY <1>8, <3>1
    <3>2. CASE i # 0
      <4>1. i \in 1 .. N /\ i - 1 \in 0 .. N
        BY <1>3, <3>2
      <4>2. h[i - 1] \in X /\ h[i] = F[i][h[i - 1]]
        BY <1>8, <4>1
      <4> QED BY <1>6, <3>2, <4>1, <4>2
    <3> QED BY <3>1, <3>2
  <2> QED BY <1>8, <2>1
<1> HIDE DEF Body
<1>10. g = Body(g)
  BY <1>9, Zenon
<1> HIDE DEF g
<1>11. g[0] = x0 /\ \A k \in 1 .. N : g[k] = Onto(g[k - 1], c[k])
  <2>1. \A i \in 0 .. N : g[i] = IF i = 0 THEN x0 ELSE Onto(g[i - 1], c[i])
    BY <1>10 DEF Body
  <2>2. 0 \in 0 .. N /\ \A k \in 1 .. N : k \in 0 .. N /\ k # 0
    BY <1>3
  <2> QED BY <2>1, <2>2
<1> DEFINE S == {k \in 0 .. N : MegaLoop(c, k, g[k])}
<1>12. 0 \in S
  <2>1. g[0].mega = Mega!EmptyMMR /\ DOMAIN g[0].cps = {} /\ First(c, 0) = <<>>
    BY <1>2, <1>11, FirstBlocks DEF x0
  <2>2. MegaLoop(c, 0, g[0])
    BY <2>1, EmptyShows DEF MegaLoop
  <2> QED BY <1>3, <2>2
<1>13. ASSUME NEW k \in 1 .. N, k - 1 \in S PROVE k \in S
  <2>1. MegaLoop(c, k - 1, g[k - 1]) /\ k \in 0 .. N /\ k \in 1 .. Len(c)
    BY <1>3, <1>13 DEF N
  <2>2. MegaLoop(c, k, Onto(g[k - 1], c[k]))
    BY <1>2, <2>1, MegaLoopSteps
  <2> QED BY <1>11, <2>1, <2>2
<1>14. 0 .. N \subseteq S
  <2> HIDE DEF S
  <2> QED BY <1>3, <1>12, <1>13, BoundedInduction
<1>15. MegaLoop(c, N, g[N])
  BY <1>3, <1>14
<1>16. MegaRebuilt(c, d, RebuildMegaMMR(d))
  BY <1>1, <1>15 DEF MegaRebuilt, N
<1> QED BY <1>16 DEF c

\* A database whose tree is one and whose height is that of the tip.
Sound(d) ==
  /\ DOMAIN d = DBFields /\ IsATree(d.txPowTree)
  /\ d.txPowTree.nodes # {} => d.chainState.height = Number[d.txPowTree.tip]

\* Its indexes stand for the blocks of the histories.
Views(d, a, at, cn) ==
  /\ Shows(d.megaMMR, a) /\ Snapshots(d.checkpoints, at)
  /\ Shows(d.mmrSet, cn) /\ d.cascade = CascadeOf(cn) /\ Kept(d.checkpoints, cn)

ViewsOfChain(d) ==
  LET c == Tree!CanonicalChain(d.txPowTree)
  IN  Sound(d) /\ Views(d, c, [n \in DOMAIN d.checkpoints |-> UpTo(c, n)], c)

LEMMA PrunedSnapshots ==
  ASSUME NEW c \in Seq(TxPoWs), NEW r, MegaLoop(c, Len(c), r), NEW h,
         c # <<>> => h = Number[c[Len(c)]]
  PROVE  LET cps == Mega!PruneCheckpoints(r.cps, h)
         IN  /\ Snapshots(cps, [n \in DOMAIN cps |-> UpTo(c, n)])
             /\ Kept(cps, c)
<1> DEFINE cps == Mega!PruneCheckpoints(r.cps, h)
           N == Len(c)
<1>1. /\ DOMAIN cps = {n \in DOMAIN r.cps : n >= h - CheckpointDepth}
      /\ \A n \in DOMAIN cps : cps[n] = r.cps[n]
  BY DEF Mega!PruneCheckpoints
<1> HIDE DEF cps
<1>2. N \in Nat /\ DOMAIN c = 1 .. N
  OBVIOUS
<1>3. ASSUME NEW n \in DOMAIN cps PROVE Shows(cps[n], UpTo(c, n))
  <2> DEFINE T == {i \in DOMAIN c : Number[c[i]] = n}
  <2>1. PICK i \in 1 .. N : LastOf(c, N, n, i) /\ Shows(r.cps[n], First(c, i))
    BY <1>1, <1>3 DEF MegaLoop
  <2>2. i \in T /\ \A j \in T : i >= j
    BY <1>2, <2>1 DEF LastOf
  <2>3. T \subseteq Nat
    BY <1>2
  <2> HIDE DEF T
  <2>4. Max(T) = i
    <3>1. \A x \in T : (\A j \in T : x >= j) => x = i
      BY <2>2, <2>3
    <3> QED BY <2>2, <3>1 DEF Max
  <2>5. UpTo(c, n) = First(c, i)
    BY <2>4 DEF UpTo, First, T
  <2> QED BY <1>1, <1>3, <2>1, <2>5
<1>4. ASSUME Consecutive(c), NEW i \in 1 .. N, i >= N - CheckpointDepth
      PROVE  Number[c[i]] \in DOMAIN cps
  <2>1. c # <<>>
    <3>1. Len(<<>>) = 0
      OBVIOUS
    <3> QED BY <1>2, <3>1
  <2>2. Number[c[i]] >= h - CheckpointDepth
    BY <1>4, <2>1, LastNumbers
  <2>3. Number[c[i]] \in DOMAIN r.cps
    BY <1>4 DEF MegaLoop
  <2> QED BY <1>1, <2>2, <2>3
<1>5. Snapshots(cps, [n \in DOMAIN cps |-> UpTo(c, n)])
  BY <1>3 DEF Snapshots
<1>6. Kept(cps, c)
  BY <1>4 DEF Kept
<1> QED BY <1>5, <1>6 DEF cps

LEMMA RebuildViews ==
  ASSUME CoinsAreNew, NEW d, Sound(d)
  PROVE  ViewsOfChain(Rebuild(d))
<1> DEFINE c == Tree!CanonicalChain(d.txPowTree)
           d1 == RebuildMMR(d)
           d2 == RebuildMegaMMR(d1)
           d3 == RebuildCascade(d2)
           Same(x, y) == /\ DOMAIN y = DBFields /\ y.txPowTree = x.txPowTree
                         /\ y.chainState = x.chainState
<1>1. DOMAIN d = DBFields /\ IsATree(d.txPowTree)
  BY DEF Sound
<1>2. Same(d, d1)
  BY <1>1 DEF RebuildMMR, DBFields
<1>3. Shows(d1.mmrSet, c)
  BY <1>1, RebuiltMMRShows
<1> HIDE DEF d1
<1>4. Same(d1, d2) /\ d2.mmrSet = d1.mmrSet
  BY <1>2 DEF RebuildMegaMMR, DBFields
<1>5. MegaRebuilt(c, d1, d2)
  BY <1>1, <1>2, RebuiltMegaMMR
<1> HIDE DEF d2
<1>6. /\ Same(d2, d3) /\ d3.mmrSet = d2.mmrSet /\ d3.megaMMR = d2.megaMMR
      /\ d3.checkpoints = d2.checkpoints
      /\ d3.cascade = Casc!RebuildCascade(Reverse(Tree!CanonicalChain(d2.txPowTree)))
  BY <1>4 DEF RebuildCascade, DBFields
<1>7. d3 = Rebuild(d)
  BY DEF Rebuild, d1, d2
<1> HIDE DEF d3
<1>8. /\ DOMAIN d3 = DBFields /\ d3.txPowTree = d.txPowTree /\ d3.chainState = d.chainState
      /\ d3.cascade = CascadeOf(c) /\ Shows(d3.mmrSet, c)
  BY <1>2, <1>3, <1>4, <1>6 DEF CascadeOf
<1>9. Sound(d3)
  BY <1>8 DEF Sound
<1>10. PICK r : /\ MegaLoop(c, Len(c), r) /\ d3.megaMMR = r.mega
                /\ d3.checkpoints = Mega!PruneCheckpoints(r.cps, d.chainState.height)
  BY <1>2, <1>5, <1>6 DEF MegaRebuilt
<1>11. ChainIsRight(d.txPowTree, c)
  BY <1>1, ChainOfTree
<1>12. d3.txPowTree = d.txPowTree
  BY <1>8
<1> HIDE DEF c
<1>13. c \in Seq(TxPoWs) /\ (c # <<>> => d.chainState.height = Number[c[Len(c)]])
  BY <1>11 DEF ChainIsRight, Sound
<1> DEFINE at == [n \in DOMAIN d3.checkpoints |-> UpTo(c, n)]
<1>14. Snapshots(d3.checkpoints, at) /\ Kept(d3.checkpoints, c)
  BY <1>10, <1>13, PrunedSnapshots
<1>15. Shows(d3.megaMMR, c)
  <2>1. First(c, Len(c)) = c
    BY <1>13, FirstBlocks
  <2> QED BY <1>10, <2>1 DEF MegaLoop
<1>16. Views(d3, c, at, c)
  BY <1>8, <1>14, <1>15 DEF Views
<1> QED BY <1>7, <1>9, <1>12, <1>16 DEF ViewsOfChain, c

LEMMA EmptyViews ==
  /\ Sound(EmptyDB) /\ ViewsOfChain(EmptyDB) /\ Views(EmptyDB, <<>>, <<>>, <<>>)
<1> DEFINE c == Tree!CanonicalChain(EmptyDB.txPowTree)
<1>1. /\ DOMAIN EmptyDB = DBFields /\ EmptyDB.txPowTree = Tree!EmptyTree
      /\ EmptyDB.mmrSet = Mega!EmptyMMR /\ EmptyDB.megaMMR = Mega!EmptyMMR
      /\ EmptyDB.checkpoints = <<>> /\ EmptyDB.cascade = <<>>
  BY DEF EmptyDB, DBFields
<1>2. Tree!EmptyTree.nodes = {}
  BY DEF Tree!EmptyTree
<1>3. Sound(EmptyDB)
  BY <1>1, <1>2, EmptyIsATree DEF Sound
<1>4. c = <<>>
  BY <1>1, <1>2, EmptyIsATree, ChainOfTree DEF ChainIsRight
<1>5. DOMAIN <<>> = {} /\ Len(<<>>) = 0
  OBVIOUS
<1>6. Snapshots(<<>>, <<>>) /\ Kept(<<>>, <<>>)
  BY <1>5 DEF Snapshots, Kept
<1>7. Views(EmptyDB, <<>>, <<>>, <<>>)
  BY <1>1, <1>6, EmptyShows, EmptyCascade DEF Views
<1>8. [n \in DOMAIN EmptyDB.checkpoints |-> UpTo(c, n)] = <<>>
  BY <1>1, <1>5
<1> HIDE DEF c
<1>9. Views(EmptyDB, c, [n \in DOMAIN EmptyDB.checkpoints |-> UpTo(c, n)], c)
  BY <1>4, <1>7, <1>8
<1> QED BY <1>3, <1>7, <1>9 DEF ViewsOfChain, c

\* A block the tree takes.
LEMMA SoundTakes ==
  ASSUME NEW d, Sound(d), NEW b \in TxPoWs
  PROVE  Sound(ReplayBlock(d, b)) /\ (AddBlockReturns(d, b) => Sound(AddBlock(d, b)))
<1> DEFINE t == d.txPowTree
           u == Tree!AddTxPoW(t, b)
           cs == [tip |-> u.tip, height |-> Number[u.tip]]
<1>1. IsATree(u)
  <2>1. t \in TreeProofs!Trees /\ TreeProofs!IsTree(t)
    BY SameTrees, SameIsTree DEF Sound, IsATree
  <2>2. TreeProofs!AddTxPoW(t, b) \in TreeProofs!Trees /\ TreeProofs!IsTree(TreeProofs!AddTxPoW(t, b))
    BY <2>1, TreeProofs!AddIsTree, HeaderAssumption, HashAssumption
  <2> QED BY <2>2, SameTrees, SameIsTree, SameAdd DEF IsATree
<1> HIDE DEF u
<1>2. cs.height = Number[u.tip] /\ DOMAIN d = DBFields
  BY DEF Sound
<1> HIDE DEF cs
<1>3. ASSUME NEW e, DOMAIN e = DBFields, e.txPowTree = u, e.chainState = cs PROVE Sound(e)
  BY <1>1, <1>2, <1>3 DEF Sound
<1>4. CASE AddBlockReturns(d, b)
  <2> DEFINE e == ReplayBlock(d, b)
             f == AddBlock(d, b)
  <2>1. DOMAIN e = DBFields /\ e.txPowTree = u /\ e.chainState = cs
    BY <1>2, <1>4 DEF DBFields, ReplayBlock, SetTip, AddBlockReturns, u, cs
  <2>2. DOMAIN f = DBFields /\ f.txPowTree = u /\ f.chainState = cs
    BY <1>2, <1>4 DEF DBFields, AddBlock, Apply, SetTip, u, cs
  <2> HIDE DEF e, f
  <2>3. Sound(e) /\ Sound(f)
    BY <1>3, <2>1, <2>2
  <2> QED BY <2>3 DEF e, f
<1>5. CASE ~ AddBlockReturns(d, b)
  BY <1>5 DEF AddBlockReturns, ReplayBlock
<1> QED BY <1>4, <1>5

LEMMA AddedViews ==
  ASSUME CoinsAreNew, NEW d, Sound(d), NEW b \in TxPoWs, AddBlockReturns(d, b),
         NEW a, NEW at, NEW cn, Views(d, a, at, cn)
  PROVE  LET e == AddBlock(d, b)
             more == Append(a, b)
         IN  /\ Sound(e)
             /\ Views(e, more,
                      [n \in DOMAIN e.checkpoints |-> IF n = Number[b] THEN more ELSE at[n]],
                      Append(cn, b))
<1> DEFINE e == AddBlock(d, b)
           mega == Mega!ProcessBlock(d.megaMMR, Inputs[b], Outputs[b])
           cps == Mega!Checkpoint(d.checkpoints, mega, Number[b])
           more == Append(a, b)
           l == Append(cn, b)
<1>1. /\ e.mmrSet = ApplyBlockToMMR(d.mmrSet, b) /\ e.megaMMR = mega
      /\ e.checkpoints = Mega!PruneCheckpoints(cps, Number[b])
      /\ e.cascade = Casc!CascadeChain(Casc!AddToTip(d.cascade, b))
  <2>1. DOMAIN d = DBFields
    BY DEF Sound
  <2> HIDE DEF mega, cps
  <2> QED BY <2>1 DEF DBFields, AddBlock, Apply, SetTip, mega, cps
<1>2. Sound(e)
  BY SoundTakes
<1> HIDE DEF e
<1>3. /\ Shows(d.megaMMR, a) /\ Snapshots(d.checkpoints, at) /\ Shows(d.mmrSet, cn)
      /\ d.cascade = CascadeOf(cn) /\ Kept(d.checkpoints, cn) /\ cn \in Seq(TxPoWs)
  BY DEF Views, Shows
<1>4. Shows(e.megaMMR, more) /\ Shows(e.mmrSet, l)
  BY <1>1, <1>3, BlockShows
<1>5. e.cascade = CascadeOf(l)
  BY <1>1, <1>3, CascadeGrows
<1> DEFINE to == [n \in DOMAIN e.checkpoints |-> IF n = Number[b] THEN more ELSE at[n]]
<1>6. Snapshots(e.checkpoints, to) /\ Kept(e.checkpoints, l)
  <2>1. Shows(mega, more)
    BY <1>1, <1>4
  <2> HIDE DEF mega, more, to
  <2>2. /\ Snapshots(e.checkpoints, [n \in DOMAIN e.checkpoints |-> IF n = Number[b] THEN more ELSE at[n]])
        /\ Kept(e.checkpoints, l)
    BY <1>1, <1>3, <2>1, CheckpointsGrow
  <2> QED BY <2>2 DEF to
<1> HIDE DEF to, more, l
<1>7. Views(e, more, to, l)
  BY <1>4, <1>5, <1>6 DEF Views
<1> QED BY <1>2, <1>7 DEF e, more, to, l

LEMMA BootstrapViews ==
  ASSUME CoinsAreNew, NEW S \in SUBSET TxPoWs, IsFiniteSet(S), NEW rows \in Ordered(S)
  PROVE  ViewsOfChain(Bootstrap(EmptyDB, rows))
<1> DEFINE N == Len(rows)
<1>1. rows \in Seq(TxPoWs)
  <2>1. Cardinality(S) \in Nat
    BY FS_CardinalityType
  <2>2. rows \in [1 .. Cardinality(S) -> S]
    BY Listed DEF IsListing
  <2>3. rows \in [1 .. Cardinality(S) -> TxPoWs]
    BY <2>2
  <2> QED BY <2>1, <2>3
<1>2. PICK f : /\ Replays(f, rows)
               /\ Bootstrap(EmptyDB, rows) = IF rows = <<>> THEN EmptyDB ELSE Rebuild(f[N])
  BY <1>1, BootstrapReplays
<1>3. N \in Nat /\ \A k \in 1 .. N : rows[k] \in TxPoWs
  BY <1>1
<1>4. f[0] = EmptyDB /\ \A k \in 1 .. N : f[k] = ReplayBlock(f[k - 1], rows[k])
  BY <1>2 DEF Replays
<1> HIDE DEF N
<1> DEFINE T == {k \in 0 .. N : Sound(f[k])}
<1>5. 0 \in T
  BY <1>3, <1>4, EmptyViews
<1>6. ASSUME NEW k \in 1 .. N, k - 1 \in T PROVE k \in T
  <2>1. Sound(f[k - 1]) /\ rows[k] \in TxPoWs /\ k \in 0 .. N
    BY <1>3, <1>6
  <2>2. Sound(ReplayBlock(f[k - 1], rows[k]))
    BY <2>1, SoundTakes
  <2> QED BY <1>4, <2>1, <2>2
<1>7. 0 .. N \subseteq T
  <2> HIDE DEF T
  <2> QED BY <1>3, <1>5, <1>6, BoundedInduction
<1>8. Sound(f[N])
  BY <1>3, <1>7
<1> QED BY <1>2, <1>8, EmptyViews, RebuildViews

-----------------------------------------------------------------------------
(* The views agree.                                                        *)

ViewsInv ==
  /\ DiskInv /\ (phase = "closed" => db = EmptyDB)
  /\ Sound(db) /\ Views(db, applied, appliedAt, counted)

LEMMA ViewsInitial == Init => ViewsInv
BY DiskInitial, EmptyViews DEF Init, ViewsInv

LEMMA BlockAppliedViews ==
  ASSUME CoinsAreNew, ViewsInv, NEW b \in TxPoWs, AddBlockReturns(db, b),
         db' = AddBlock(db, b), BlockApplied(b)
  PROVE  Sound(db') /\ Views(db', applied', appliedAt', counted')
<1>1. /\ applied' = Append(applied, b) /\ counted' = Append(counted, b)
      /\ appliedAt' = [n \in DOMAIN db'.checkpoints |->
                         IF n = Number[b] THEN applied' ELSE appliedAt[n]]
  BY DEF BlockApplied
<1>2. LET e == AddBlock(db, b)
          more == Append(applied, b)
      IN  /\ Sound(e)
          /\ Views(e, more,
                   [n \in DOMAIN e.checkpoints |-> IF n = Number[b] THEN more ELSE appliedAt[n]],
                   Append(counted, b))
  BY AddedViews DEF ViewsInv
<1> QED BY <1>1, <1>2

LEMMA ViewsStep ==
  ASSUME CoinsAreNew, ViewsInv, [Next]_vars
  PROVE  ViewsInv'
<1>1. DiskInv'
  BY DiskStep DEF ViewsInv
<1>2. phase' = "closed" => db' = EmptyDB
  BY DEF ViewsInv, Next, Open, InitGenesis, RebuildAll, Reset, Close, Crash, PowerLoss, Gone,
         AddBlockWithPersist, RollbackMegaMMR, vars, history
<1> SUFFICES Sound(db') /\ Views(db', applied', appliedAt', counted')
  BY <1>1, <1>2 DEF ViewsInv
<1>3. Sound(db) /\ Views(db, applied, appliedAt, counted)
  BY DEF ViewsInv
<1>4. CASE UNCHANGED vars
  BY <1>3, <1>4 DEF vars, history
<1>5. ASSUME ChainApplied, ViewsOfChain(db')
      PROVE  Sound(db') /\ Views(db', applied', appliedAt', counted')
  BY <1>5 DEF ChainApplied, ViewsOfChain
<1>6. CASE Open
  <2>1. db = EmptyDB /\ ChainApplied
    BY <1>6 DEF Open, ViewsInv
  <2>2. tables.blocks \in SUBSET TxPoWs /\ IsFiniteSet(tables.blocks)
    <3>1. tables \in Tables
      BY TablesAreLast DEF ViewsInv, DiskInv
    <3> QED BY <3>1 DEF Tables, BlockRows
  <2>3. ViewsOfChain(db')
    <3>1. CASE db' = db
      BY <2>1, <3>1, EmptyViews
    <3>2. ASSUME NEW rows \in Ordered(tables.blocks), db' = Bootstrap(db, rows)
          PROVE  ViewsOfChain(db')
      BY <2>1, <2>2, <3>2, BootstrapViews
    <3> QED BY <1>6, <3>1, <3>2 DEF Open
  <2> QED BY <1>5, <2>1, <2>3
<1>7. CASE InitGenesis
  <2>1. AddBlockReturns(db, Genesis)
    <3>1. db.txPowTree.root = NoBlock
      BY <1>3, <1>7 DEF InitGenesis, Sound, IsATree, Tree!IsTree, Tree!Anchored
    <3> QED BY <3>1 DEF AddBlockReturns, Tree!AddReturns, Tree!IsOrphan
  <2> QED BY <1>7, <2>1, BlockAppliedViews, PersistAssumption DEF InitGenesis
<1>8. ASSUME NEW b \in TxPoWs, AddBlockWithPersist(b)
      PROVE  Sound(db') /\ Views(db', applied', appliedAt', counted')
  BY <1>8, BlockAppliedViews DEF AddBlockWithPersist
<1>9. ASSUME NEW n \in DOMAIN db.checkpoints, RollbackMegaMMR(n)
      PROVE  Sound(db') /\ Views(db', applied', appliedAt', counted')
  <2>1. db' = [db EXCEPT !.megaMMR = db.checkpoints[n]] /\ applied' = appliedAt[n]
        /\ UNCHANGED <<appliedAt, counted>>
    BY <1>9 DEF RollbackMegaMMR
  <2>2. /\ DOMAIN db' = DBFields /\ db'.txPowTree = db.txPowTree
        /\ db'.chainState = db.chainState /\ db'.mmrSet = db.mmrSet
        /\ db'.checkpoints = db.checkpoints /\ db'.cascade = db.cascade
        /\ db'.megaMMR = db.checkpoints[n]
    BY <1>3, <2>1 DEF Sound, DBFields
  <2>3. Shows(db.checkpoints[n], appliedAt[n])
    BY <1>3 DEF Views, Snapshots
  <2> QED BY <1>3, <2>1, <2>2, <2>3 DEF Sound, Views
<1>10. CASE RebuildAll
  <2>1. db' = Rebuild(db) /\ ChainApplied
    BY <1>10 DEF RebuildAll
  <2> QED BY <1>3, <1>5, <2>1, RebuildViews
<1>11. CASE Reset
  <2>1. db' = ResetDB(db) /\ applied' = <<>> /\ appliedAt' = <<>> /\ counted' = <<>>
    BY <1>11 DEF Reset
  <2>2. /\ DOMAIN db' = DBFields /\ DOMAIN EmptyDB = DBFields
        /\ db'.txPowTree = EmptyDB.txPowTree /\ db'.chainState = EmptyDB.chainState
        /\ db'.mmrSet = EmptyDB.mmrSet /\ db'.megaMMR = EmptyDB.megaMMR
        /\ db'.checkpoints = EmptyDB.checkpoints /\ db'.cascade = EmptyDB.cascade
    BY <2>1 DEF ResetDB, EmptyDB, DBFields
  <2> QED BY <2>1, <2>2, EmptyViews DEF Sound, Views
<1>12. CASE Close \/ Crash \/ PowerLoss
  <2>1. db' = EmptyDB /\ applied' = <<>> /\ appliedAt' = <<>> /\ counted' = <<>>
    BY <1>12 DEF Close, Crash, PowerLoss, Gone
  <2> QED BY <2>1, EmptyViews
<1> QED BY <1>4, <1>6, <1>7, <1>8, <1>9, <1>10, <1>11, <1>12 DEF Next

\* The invariant says what ViewsAgree does, once the canonical chain is known to
\* count and to be on one branch.
LEMMA ViewsDoAgree == ASSUME NumbersFollow, ViewsInv PROVE ViewsAgree
<1>1. Sound(db) /\ Views(db, applied, appliedAt, counted)
  BY DEF ViewsInv
<1>2. ChainIsRight(db.txPowTree, Chain)
  BY <1>1, ChainOfTree DEF Sound, Chain
<1>3. Chain \in Seq(TxPoWs) /\ Consecutive(Chain) /\ Linear(Chain)
  BY <1>2, ChainIsLinear DEF ChainIsRight
<1>4. Linear(applied) => Mega!Unspent(db.megaMMR) = CoinsLeft(applied)
  BY <1>1 DEF Views, Shows
<1>5. \A n \in DOMAIN appliedAt :
        Linear(appliedAt[n]) => Mega!Unspent(db.checkpoints[n]) = CoinsLeft(appliedAt[n])
  BY <1>1 DEF Views, Snapshots, Shows
<1>6. Linear(counted) => Mega!Unspent(db.mmrSet) = CoinsLeft(counted)
  BY <1>1 DEF Views, Shows
<1>7. ASSUME counted = Chain
      PROVE  /\ \A c \in Coins : IsCoinUnspent(c) <=> c \in Mega!Unspent(db.mmrSet)
             /\ \A c \in OutputsOf(Range(Chain)) :
                  IsCoinSpent(c) <=> db.mmrSet.idx[c] \in db.mmrSet.spent
             /\ \A b \in Range(GetLastBlocks(CheckpointDepth + 1)) :
                  Number[b] \in DOMAIN db.checkpoints
             /\ db.cascade = RebuildCascade(db).cascade
  <2>1. Mega!Unspent(db.mmrSet) = CoinsLeft(Chain)
    BY <1>3, <1>6, <1>7
  <2>2. \A c \in Coins : IsCoinUnspent(c) <=> c \in Mega!Unspent(db.mmrSet)
    BY <2>1 DEF IsCoinUnspent, CoinsLeft
  <2>3. ASSUME NEW c \in OutputsOf(Range(Chain))
        PROVE  IsCoinSpent(c) <=> db.mmrSet.idx[c] \in db.mmrSet.spent
    <3>1. c \in Leaves
      BY <1>3, BodyAssumption DEF OutputsOf, Range, Leaves
    <3>2. db.mmrSet.idx[c] # 0
      BY <1>1, <1>7, <3>1 DEF Views, Shows, Tracks
    <3>3. c \in Mega!Unspent(db.mmrSet) <=> db.mmrSet.idx[c] \notin db.mmrSet.spent
      BY <3>1, <3>2 DEF Mega!Unspent, Leaves
    <3>4. c \in CoinsLeft(Chain) <=> ~ IsCoinSpent(c)
      BY DEF CoinsLeft, IsCoinSpent
    <3> QED BY <2>1, <3>3, <3>4
  <2>4. ASSUME NEW b \in Range(GetLastBlocks(CheckpointDepth + 1))
        PROVE  Number[b] \in DOMAIN db.checkpoints
    <3> DEFINE N == Len(Chain)
               M == {1, N - (CheckpointDepth + 1) + 1}
               k == Max(M)
    <3>1. N \in Nat /\ CheckpointDepth \in Nat
      BY <1>3, BoundsAssumption
    <3> HIDE DEF N
    <3>2. k \in M /\ \A y \in M : k >= y
      <4>1. \E x \in M : \A y \in M : x >= y
        BY <3>1
      <4> HIDE DEF M
      <4> QED BY <4>1 DEF Max
    <3>3. k \in Nat /\ k >= 1 /\ k >= N - CheckpointDepth
      BY <3>1, <3>2
    <3> HIDE DEF k
    <3>4. GetLastBlocks(CheckpointDepth + 1) = SubSeq(Chain, k, N)
      BY DEF GetLastBlocks, k, N
    <3>5. PICK i \in k .. N : b = Chain[i]
      <4> DEFINE s == SubSeq(Chain, k, N)
      <4>1. /\ s \in Seq(TxPoWs) /\ Len(s) = IF k <= N THEN N - k + 1 ELSE 0
            /\ \A j \in 1 .. Len(s) : s[j] = Chain[k + j - 1]
        BY <1>3, <3>1, <3>3 DEF N
      <4>2. b \in Range(s)
        BY <3>4
      <4> HIDE DEF s
      <4>3. PICK j \in 1 .. Len(s) : b = s[j]
        BY <4>1, <4>2 DEF Range
      <4>4. k + j - 1 \in k .. N
        BY <3>1, <3>3, <4>1
      <4> QED BY <4>1, <4>3, <4>4
    <3>6. i \in 1 .. N /\ i >= N - CheckpointDepth
      BY <3>1, <3>3
    <3>7. Kept(db.checkpoints, Chain)
      BY <1>1, <1>7 DEF Views
    <3> QED BY <1>3, <3>5, <3>6, <3>7 DEF Kept, N
  <2>5. db.cascade = RebuildCascade(db).cascade
    <3>1. DOMAIN db = DBFields /\ db.cascade = CascadeOf(Chain)
      BY <1>1, <1>7 DEF Sound, Views
    <3> QED BY <3>1 DEF RebuildCascade, DBFields, CascadeOf, Chain
  <2> QED BY <2>2, <2>3, <2>4, <2>5
<1> QED BY <1>4, <1>5, <1>6, <1>7 DEF ViewsAgree

\* Block by block, by replay, by a rebuild or by rolling back: an MMR that went
\* through the blocks of one branch shows the coins they leave unspent, and on a
\* chain without side branches all indexes describe it (ViewsAgree).
THEOREM ViewsAlwaysAgree ==
  ASSUME NumbersFollow, CoinsAreNew PROVE Spec => []ViewsAgree
<1>1. ViewsInv /\ [Next]_vars => ViewsInv'
  BY ViewsStep
<1>2. ViewsInv => ViewsAgree
  BY ViewsDoAgree
<1> QED BY <1>1, <1>2, ViewsInitial, PTL DEF Spec
=============================================================================
