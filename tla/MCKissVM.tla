------------------------------ MODULE MCKissVM ------------------------------
(***************************************************************************)
(* Contracts for TLC: expressions over every operator, programs of nested  *)
(* blocks, loops and scripts under EXEC, and laws of the functions.        *)
(***************************************************************************)
EXTENDS KissVM

Coin(id, address, amount, token) ==
    [coinID |-> <<id>>, address |-> <<address>>, amount |-> amount, tokenID |-> token,
     hasToken |-> token # <<>>, keepState |-> id = 1]
Txn(ins, outs) == [inputs |-> ins, outputs |-> outs]
NoTxn == Txn(<<>>, <<>>)

Key(k)     == <<k>>
Witness    == <<[root |-> Key(0), keys |-> {Key(1)}, signature |-> <<3>>],
                [root |-> Key(2), keys |-> {}, signature |-> <<1>>]>>

Contract(stmts, law, accept, txn) ==
    [source |-> Source(Program(stmts)), program |-> Program(stmts), law |-> law, accept |-> accept,
     inputs |-> txn.inputs, outputs |-> txn.outputs, input |-> 0, signatures |-> Witness]
Plain(stmts) == Contract(stmts, "none", TRUE, NoTxn)

Let(name, e) == <<"LET", name, e>>
Expr(e)      == <<"EXPR", e>>
Exec(stmts)  == <<"EXEC", Str(Source(Program(stmts)))>>
A            == Var("a")
Nat0(n)      == Num(n, 0)

-----------------------------------------------------------------------------
(* Expressions: every operator on every type, and one operator of every    *)
(* level inside every other.                                               *)

AllOperators == {"OR", "NOR", "XOR", "AND", "NAND", "EQ", "NEQ", "LT", "GT", "LTE", "GTE",
                 "+", "-", "*", "/", "%"}
Leaves == {Bool(TRUE), Bool(FALSE), Nat0(0), Nat0(-1), HexLit(<<1>>), Str(<<>>), A}
Flat   == {Bin(op, l, r) : op \in AllOperators, l \in Leaves, r \in Leaves}
Small  == LET ones == {Nat0(1), A} IN
          ones \cup {Un(op, x) : op \in {"NOT", "-"}, x \in ones}
               \cup {Bin(op, l, r) : op \in {"OR", "AND", "EQ", "-", "*"}, l \in ones, r \in ones}
Nested == {Bin(op, l, r) : op \in {"OR", "AND", "EQ", "-", "*"}, l \in Small, r \in Small}
          \cup {Un(op, x) : op \in {"NOT", "-"}, x \in Small}
Calls  == {Fun("MAX", <<Nat0(1), Bin("-", Nat0(1), Nat0(-1))>>), Fun("LEN", <<Nat0(1)>>),
           Fun("MAX", <<Nat0(1)>>), Fun("SUBSET", <<HexLit(<<1>>), Nat0(1), Nat0(1)>>),
           Fun("CONCAT", <<Bin("NEQ", Nat0(1), Nat0(1)), HexLit(<<>>)>>), Fun("NOSUCH", <<>>)}
Expressions == {Plain(<<Expr(e)>>) : e \in Flat \cup Nested \cup Calls}

-----------------------------------------------------------------------------
(* Programs: three levels of blocks, loops and scripts around statements   *)
(* that count, return or fail.                                             *)

Increment == Let("a", Bin("+", A, Nat0(1)))
Below(n)  == Bin("LT", A, Nat0(n))
Simple    == {Increment, <<"RETURN", A>>, <<"ASSERT", Below(2)>>, Expr(Bin("EQ", A, Nat0(1)))}
Around(bodies) ==
    UNION {{<<"IF", <<Below(2), Program(b)>>>>,
            <<"IF", <<Bool(FALSE), Program(<<Increment>>), Below(1), Program(b), Program(<<Increment>>)>>>>,
            <<"IF", <<Bin("EQ", A, Nat0(1)), Program(<<Increment>>), Program(b)>>>>,
            <<"WHILE", Below(2), b>>, Exec(b)} : b \in bodies}
Bodies1 == {<<s>> : s \in Simple} \cup {<<Increment, s>> : s \in Simple}
Bodies2 == {<<s, t>> : s \in Around(Bodies1), t \in {Increment, <<"RETURN", Nat0(0)>>}}
Bodies3 == {<<s, Increment>> : s \in Around({<<Increment, b>> : b \in Around({<<<<"RETURN", A>>>>})})}
Endless == {<<"WHILE", Bool(TRUE), <<Increment>>>>, <<"WHILE", Bool(TRUE), <<>>>>,
            <<"EXEC", Var("@SCRIPT")>>, <<"MAST", Var("@SCRIPT")>>, <<"EXEC", Nat0(1)>>,
            <<"EXEC", Str(<<Kw("IF")>>)>>, <<"MAST", Str(<<<<"char", 1>>>>)>>,
            <<"WHILE", Bin("NEQ", A, A), <<>>>>, <<"IF", <<Fun("LEN", <<A>>), Program(<<>>)>>>>}
Programs == {Plain(<<Let("a", Nat0(0)), s, Expr(A)>>) :
                 s \in Simple \cup Endless \cup Around(Bodies1 \cup Bodies2 \cup Bodies3)}
            \cup {Plain(<<>>)}

-----------------------------------------------------------------------------
(* Laws of numbers, with the exact result cut to MaxDigits digits.         *)

Truncated(i) ==
    LET drop == CHOOSE k \in 0..9 : Absolute(i) < 10^(MaxDigits + k) /\ (k = 0 \/ Absolute(i) >= 10^(MaxDigits + k - 1))
        cut  == (Absolute(i) \div 10^drop) * 10^drop
    IN  IF i < 0 THEN -cut ELSE cut
Exact(i, places) == Num(Truncated(i), places)
Law(family, l, r) == Contract(<<Expr(Bin("EQ", l, r))>>, family, TRUE, NoTxn)

Decimals == {-995, -64, -12, -1, 0, 2, 15, 128, 999} \X {0, 1}
Scaled(d, places) == d[1] * 10^(places - d[2])
Written(d) == Num(d[1], d[2])
NumberLaws ==
    UNION {LET x == Written(d[1])
               y == Written(d[2])
               p == Scaled(d[1], 1)
               q == Scaled(d[2], 1)
           IN  {Law("number", Bin("+", x, y), Exact(p + q, 1)),
                Law("number", Bin("-", x, y), Exact(p - q, 1)),
                Law("number", Bin("*", x, y), Exact(d[1][1] * d[2][1], d[1][2] + d[2][2])),
                Law("number", Bin("LT", x, y), Bool(p < q)),
                Law("number", Bin("GTE", x, y), Bool(p >= q)),
                Law("number", Fun("MAX", <<x, y>>), IF p > q THEN x ELSE y),
                Law("number", Bin("+", Fun("MIN", <<x, y>>), Fun("MAX", <<x, y>>)), Bin("+", x, y))}
               \cup IF q = 0 THEN {}
                    ELSE {Law("number", Bin("%", x, y), Num((IF p < 0 THEN -1 ELSE 1) * (Absolute(p) % Absolute(q)), 1))}
           : d \in Decimals \X Decimals}
    \cup UNION {LET x == Written(d) IN
                {Law("number", Fun("ABS", <<x>>), Num(Absolute(d[1]), d[2])),
                 Law("number", Un("-", x), Num(-d[1], d[2])),
                 Law("number", Fun("INC", <<x>>), Exact(Scaled(d, 1) + 10, 1)),
                Law("number", Fun("DEC", <<x>>), Exact(Scaled(d, 1) - 10, 1)),
                 Law("number", Fun("NUMBER", <<Fun("SCRIPT", <<x>>)>>), x)} : d \in Decimals}
    \cup {Law("number", Fun("POW", <<Nat0(b), Nat0(n)>>), Exact(b^n, 0)) : b \in {-3, 2, 12}, n \in 0..3}
    \cup {Law("number", Fun("HEXTONUM", <<Fun("NUMTOHEX", <<Nat0(n)>>)>>), Nat0(n)) : n \in {0, 1, 2, 31, 128, 999}}
    \cup {Law("number", Fun("SIGDIG", <<Num(155, p), Nat0(2)>>), Num(160, p)) : p \in 0..1}

\* Quotients, and the integers next to a number.
DivisionLaws ==
    {Law("division", Bin("/", Nat0(d[1]), Nat0(d[2])), Nat0(d[1] \div d[2])) : d \in {<<100, 4>>, <<6, 1>>}}
    \cup UNION {{Law("division", Fun("FLOOR", <<Num(i, 1)>>), Nat0(i \div 10)),
                 Law("division", Fun("CEIL", <<Num(i, 1)>>), Nat0(-((-i) \div 10)))} :
                i \in {-2005, -1275, -25, -10, 5, 120, 1275, 1285, 2005}}

-----------------------------------------------------------------------------
(* Laws of byte strings.                                                   *)

Strings(n) == UNION {[1..k -> {0, 1, 3}] : k \in 0..n}
Call2(name, x, y)    == Fun(name, <<x, y>>)
Slice(x, from, n)    == Fun("SUBSET", <<x, Nat0(from), Nat0(n)>>)
BytesLaw(l, r)       == Law("bytes", l, r)
SliceLaws(s) ==
    LET b == HexLit(s)
        n == Len(s)
        Text8(x) == Fun("UTF8", <<x>>)
        Part(from, k) == Fun("SUBSTR", <<b, Nat0(from), Nat0(k)>>)
    IN  UNION {{BytesLaw(Call2("CONCAT", Slice(b, 0, i), Slice(b, i, n - i)), b),
                BytesLaw(Call2("CONCAT", Part(0, i), Part(i, n - i)), Text8(b)),
                BytesLaw(Fun("OVERWRITE", <<b, Nat0(i), Slice(b, i, n - i)>>), b),
                BytesLaw(Fun("REPLACEFIRST", <<b, Slice(b, 0, i), Slice(b, 0, i)>>), Text8(b)),
                Contract(<<Expr(Bin("EQ", Slice(b, i, n - i + 1), b))>>, "bytes", FALSE, NoTxn)} : i \in 0..n}
        \cup {BytesLaw(Fun("REV", <<Fun("REV", <<b>>)>>), b),
              BytesLaw(Fun("ASCII", <<Text8(b)>>), b),
              BytesLaw(Fun("HEX", <<Fun("SCRIPT", <<b>>)>>), b),
              BytesLaw(Fun("CLEAN", <<Call2("CONCAT", HexLit(<<0>>), b)>>), Fun("CLEAN", <<b>>)),
              BytesLaw(Fun("REPLACE", <<Fun("REPLACE", <<b, HexLit(<<1>>), HexLit(<<2, 2>>)>>),
                                        HexLit(<<2, 2>>), HexLit(<<1>>)>>), b)}
PairLaws(s, t) ==
    LET b == HexLit(s)
        c == HexLit(t)
        both == Call2("CONCAT", b, c)
    IN  {BytesLaw(Fun("REV", <<both>>), Call2("CONCAT", Fun("REV", <<c>>), Fun("REV", <<b>>))),
         BytesLaw(Fun("BITCOUNT", <<both>>), Bin("+", Fun("BITCOUNT", <<b>>), Fun("BITCOUNT", <<c>>))),
         BytesLaw(Fun("LEN", <<both>>), Bin("+", Fun("LEN", <<b>>), Fun("LEN", <<c>>))),
         BytesLaw(Call2("SETLEN", both, Fun("LEN", <<b>>)), b),
         BytesLaw(Slice(Fun("OVERWRITE", <<both, Nat0(Len(s)), c>>), Len(s), Len(t)), c),
         BytesLaw(Bin("EQ", Fun("SHA3", <<b>>), Fun("SHA3", <<c>>)), Bool(s = t))}
BitLaws(s) ==
    {BytesLaw(Call2("BITGET", Fun("BITSET", <<HexLit(s), Nat0(p), Bool(v)>>), Nat0(q)),
              IF p = q THEN Bool(v) ELSE Call2("BITGET", HexLit(s), Nat0(q))) :
         p \in 0..Len(s) * ByteBits - 1, q \in 0..Len(s) * ByteBits, v \in BOOLEAN}
BytesLaws == UNION {SliceLaws(s) : s \in Strings(3)} \cup UNION {BitLaws(s) : s \in Strings(2)}
             \cup UNION {PairLaws(p[1], p[2]) : p \in Strings(2) \X Strings(2)}

-----------------------------------------------------------------------------
(* Laws of a transaction: two inputs and an output of two tokens, or of    *)
(* none; the keys that signed; the leaves of a mountain range.             *)

Tokens == {<<>>, <<1>>, <<2>>}
Amount == (<<>> :> 12) @@ (<<1>> :> 5) @@ (<<2>> :> 150)
Moved(t, u, v) == Txn(<<Coin(0, 0, Of(Amount[t], 1), t), Coin(1, 1, Of(Amount[u], 0), u)>>,
                      <<Coin(2, 1, Of(Amount[v], 0), v)>>)
TokenSum(token, t, u) ==
    Num((IF t = token THEN Amount[t] ELSE 0) + (IF u = token THEN 10 * Amount[u] ELSE 0), 1)
At(name, i) == Fun(name, <<Nat0(i)>>)
TxnLaws(t, u, v) ==
    LET Coins(accept, l, r) == Contract(<<Expr(Bin("EQ", l, r))>>, "coins", accept, Moved(t, u, v)) IN
    {Coins(t # <<>> /\ u # <<>>, Fun("SUMINPUTS", <<HexLit(token)>>), TokenSum(token, t, u)) :
         token \in Tokens \ {<<>>}}
    \cup {Coins(v # <<>>, Fun("SUMOUTPUTS", <<HexLit(token)>>), Nat0(IF v = token THEN Amount[v] ELSE 0)) :
              token \in Tokens \ {<<>>}}
    \cup {Coins(TRUE, Var("@TOTIN"), Bin("+", At("GETINAMT", 0), At("GETINAMT", 1))),
          Coins(TRUE, Var("@TOTOUT"), At("GETOUTAMT", 0)),
          Coins(TRUE, Bin("AND", Bin("EQ", Var("@AMOUNT"), At("GETINAMT", 0)),
                          Bin("EQ", Var("@ADDRESS"), At("GETINADDR", 0))), Bool(TRUE)),
          Coins(TRUE, At("GETINTOK", 1), HexLit(u)),
          Coins(v # <<>>, At("GETOUTTOKEN", 0), HexLit(v)),
          Coins(TRUE, At("GETOUTKEEPSTATE", 0), Bool(FALSE)),
          Coins(TRUE, Fun("VERIFYIN", <<Nat0(1), At("GETINADDR", 1), At("GETINAMT", 1)>>), Bool(TRUE)),
          Coins(v # <<>>, Fun("VERIFYOUT", <<Nat0(0), HexLit(<<1>>), At("GETOUTAMT", 0), HexLit(<<1>>)>>),
                Bool(v = <<1>>)),
          Coins(TRUE, Fun("VERIFYOUT", <<Nat0(0), At("GETINADDR", 1), At("GETINAMT", 1)>>), Bool(u = v)),
          Coins(TRUE, Fun("VERIFYOUT", <<Nat0(1), HexLit(<<1>>), Nat0(1)>>), Bool(FALSE)),
          Coins(FALSE, At("GETOUTADDR", 1), HexLit(<<1>>)), Coins(TRUE, At("GETINID", 1), HexLit(<<1>>))}

KeyLaws ==
    LET k(i) == HexLit(Key(i))
        signed == {0, 1, 2}
    IN  {Law("coins", Fun("SIGNEDBY", <<k(i)>>), Bool(i \in signed)) : i \in 0..3}
        \cup {Law("coins", Fun("MULTISIG", <<Nat0(n), k(p[1]), k(p[2]), k(p[3])>>),
                  Bool(Cardinality({p[1], p[2], p[3]} \cap signed) >= n)) :
                  n \in 1..3, p \in {q \in (0..4) \X (0..4) \X (0..4) : q[1] < q[2] /\ q[2] < q[3]}}
        \cup {Law("coins", Fun("CHECKSIG", <<k(i), HexLit(<<>>), HexLit(<<s>>)>>), Bool(i = 1 /\ s = 3)) :
                  i \in 0..2, s \in {1, 3}}

StateLaws ==
    {Contract(<<Let("@STATE1", Nat0(i)), Let("@PREVSTATE1", Nat0(j)),
                Expr(Bin("EQ", Fun("SAMESTATE", <<Nat0(0), Nat0(1)>>), Bin("EQ", At("STATE", 1), At("PREVSTATE", 1))))>>,
              "coins", TRUE, NoTxn) : i \in 0..1, j \in 0..1}

\* A name exists once it is assigned, or if the contract has set it.
Exists(lexeme) == Expr(Bin("EQ", Fun("EXISTS", <<Str(<<lexeme>>)>>), Bool(TRUE)))
ExistsLaws ==
    {Contract(<<Let("a", Nat0(1)), Exists(x)>>, "coins", x[2] \in {"a", "@TOTIN"}, NoTxn) :
         x \in {<<"id", "a">>, <<"id", "b">>, <<"env", "@TOTIN">>, <<"env", "@AMOUNT">>}}
    \cup {Contract(<<Exists(<<"env", "@AMOUNT">>)>>, "coins", TRUE, Moved(<<1>>, <<2>>, <<1>>))}

\* A range of n leaves, one of them updated after the last was added.
Leaf(i)  == <<i>>
Range_(n) == PutLeaf(FoldLeft(LAMBDA nodes, i : PutLeaf(nodes, i - 1, Leaf(i - 1)), NoNodes,
                              [i \in 1..n |-> i]), 0, Leaf(9))
ProofLaws ==
    {Contract(<<Expr(Fun("PROOF", <<HexLit(leaf), HexLit(SerialiseProof(GetProof(Range_(p[1]), p[2]))),
                                    HexLit(GetRoot(Range_(p[1])))>>))>>,
              "coins", leaf = (IF p[2] = 0 THEN Leaf(9) ELSE Leaf(p[2])), NoTxn) :
         leaf \in {Leaf(i) : i \in 0..9}, p \in {q \in (1..7) \X (0..6) : q[2] < q[1]}}
CoinsLaws == UNION {TxnLaws(t, u, v) : t \in Tokens, u \in Tokens, v \in Tokens} \cup KeyLaws \cup StateLaws \cup ExistsLaws
             \cup ProofLaws

-----------------------------------------------------------------------------
MCScripts == Expressions \cup Programs \cup NumberLaws \cup BytesLaws \cup CoinsLaws

(* A quotient is the exact one cut towards zero, and FLOOR and CEIL are the*)
(* integers next to a number (MiniNumber.hpp: "Arithmetic: 64 significant  *)
(* digits, RoundingMode.DOWN (truncation toward zero)").                   *)
DivisionTruncates == script.law = "division" /\ verdict # Running => (Accepted <=> script.accept)
=============================================================================
