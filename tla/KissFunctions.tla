---------------------------- MODULE KissFunctions ----------------------------
(***************************************************************************)
(* The values and the built-in functions of the KISS VM:                   *)
(* src/kissvm/Value.cpp and src/kissvm/functions/Functions.cpp.  A byte    *)
(* has Radix values and ByteBits bits; a hash is the hashed string between *)
(* two marks no byte equals, so that two strings never share one.          *)
(* A function takes its arguments and the contract it runs in: the         *)
(* transaction's inputs and outputs, the witness's signatures and the      *)
(* environment.  A ContractException is the value Exception.               *)
(***************************************************************************)
EXTENDS MiniNumber, MMRProof, TLC

CONSTANT ByteBits

ASSUME ByteAssumption == 2^ByteBits = Radix

Boolean(b)  == <<"BOOLEAN", b>>
Number(n)   == <<"NUMBER", n>>
Hex(bytes)  == <<"HEX", bytes>>
Script(s)   == <<"SCRIPT", s>>
Exception   == <<"EXCEPTION">>
Crash       == <<"CRASH">>
Stops(v)    == v[1] \in {"EXCEPTION", "CRASH"}
Type(v)     == v[1]
Integer(i)  == Number(Of(i, 0))
False       == Boolean(FALSE)

IsTrue(v) == CASE Type(v) = "BOOLEAN" -> v[2]
               [] Type(v) = "NUMBER"  -> ~IsZero(v[2].unscaled)
               [] OTHER               -> v[2] # <<>>

\* toString, as lexemes of a script.
NumberText(t) == IF t[1] < 0 THEN <<<<"sym", "-">>, <<"num", -t[1], t[2]>>>> ELSE <<<<"num", t[1], t[2]>>>>
Text(v) ==
    CASE Type(v) = "BOOLEAN" -> <<<<"bool", v[2]>>>>
      [] Type(v) = "NUMBER"  -> NumberText(Shown(v[2]))
      [] Type(v) = "HEX"     -> <<<<"hex", v[2]>>>>
      [] OTHER               -> v[2]

\* The characters of a string that came from bytes, and back.
Chars(bytes) == [i \in DOMAIN bytes |-> <<"char", bytes[i]>>]
Bytes(text)  == [i \in DOMAIN text |-> text[i][2]]
RawBytes(v)  == IF Type(v) = "SCRIPT" THEN Bytes(v[2]) ELSE v[2]

-----------------------------------------------------------------------------
(* What the functions read of a transaction.                               *)

SignedWith(key, contract) ==
    \E sig \in Range(contract.signatures) : key = sig.root \/ key \in sig.keys

\* A key that is listed twice is counted twice.
MultiSig(n, keys, contract) ==
    Cardinality({i \in DOMAIN keys : Type(keys[i]) = "HEX" /\ SignedWith(keys[i][2], contract)}) >= n

\* Mutant: every coin is added.
SumOfAny(coins, token) ==
    Number(FoldLeft(LAMBDA sum, c : Add(sum, c.amount), Zero, coins))
\* tokenID() of a coin without a token throws, and the sum with it.
SumOf(coins, token) ==
    IF \E c \in Range(coins) : ~c.hasToken THEN Exception
    ELSE Number(FoldLeft(LAMBDA sum, c : IF c.tokenID = token THEN Add(sum, c.amount) ELSE sum, Zero, coins))

\* The coin at an index that counts from zero.
CoinAt(coins, i)   == coins[i + 1]
HasCoin(coins, i)  == i >= 0 /\ i < Len(coins)
\* An argument of another type than the one compared is not compared.
CoinMatches(coin, args) ==
    CASE Type(args[2]) = "HEX" /\ coin.address # args[2][2] -> False
      [] Type(args[3]) = "NUMBER" /\ ~SameNumber(coin.amount, args[3][2]) -> False
      [] Len(args) >= 4 /\ Type(args[4]) = "HEX" -> IF coin.hasToken THEN Boolean(coin.tokenID = args[4][2])
                                                    ELSE Exception
      [] OTHER -> Boolean(TRUE)
MatchesAt(coins, i, args) == IF HasCoin(coins, i) THEN CoinMatches(CoinAt(coins, i), args) ELSE False

\* The text of a variable of the state, and of an unset one.
StateText(env, name) == IF name \in DOMAIN env THEN Text(env[name]) ELSE <<>>
StateName(prefix, i) == prefix \o ToString(i)
SameState(env, from, to) ==
    \A i \in from..to : StateText(env, StateName("@PREVSTATE", i)) = StateText(env, StateName("@STATE", i))

-----------------------------------------------------------------------------
(* Byte strings.                                                           *)

SliceOf(s, start, length) == SubSeq(s, start + 1, start + length)
OutOfRange(s, start, length) == start < 0 \/ length < 0 \/ start + length > Len(s)

OccursAt(find, hay, i) == i + Len(find) - 1 <= Len(hay) /\ SubSeq(hay, i, i + Len(find) - 1) = find

RECURSIVE ReplaceFrom(_, _, _, _)
ReplaceFrom(hay, find, repl, i) ==
    CASE i > Len(hay)           -> <<>>
      [] OccursAt(find, hay, i) -> repl \o ReplaceFrom(hay, find, repl, i + Len(find))
      [] OTHER                  -> <<hay[i]>> \o ReplaceFrom(hay, find, repl, i + 1)

ReplaceFirst(s, from, to) ==
    LET places == {i \in 1..Len(s) + 1 : OccursAt(from, s, i)}
        i == CHOOSE p \in places : \A q \in places : p <= q
    IN  IF places = {} THEN s
        ELSE SubSeq(s, 1, i - 1) \o to \o SubSeq(s, i + Len(from), Len(s))

Clean(bytes) == IF \A i \in DOMAIN bytes : bytes[i] = 0 THEN <<>> ELSE StripLeadingZeros(bytes)
SetLen(bytes, n) == [i \in 1..n |-> IF i <= Len(bytes) THEN bytes[i] ELSE 0]
Overwrite(bytes, pos, val) ==
    [i \in DOMAIN bytes |-> IF i > pos /\ i <= pos + Len(val) THEN val[i - pos] ELSE bytes[i]]

\* Bit 0 is the highest bit of the first byte.
BitWeight(pos) == 2^(ByteBits - 1 - (pos % ByteBits))
BitOf(bytes, pos) == (bytes[pos \div ByteBits + 1] \div BitWeight(pos)) % 2
HasBit(bytes, pos) == pos >= 0 /\ pos \div ByteBits < Len(bytes)
\* A small negative position falls on a bit above the first byte: no bit at all.
AboveFirstByte(bytes, pos) == pos < 0 /\ pos > -ByteBits /\ bytes # <<>>
BitSet(bytes, pos, on) ==
    [bytes EXCEPT ![pos \div ByteBits + 1] =
        @ + ((IF on THEN 1 ELSE 0) - BitOf(bytes, pos)) * BitWeight(pos)]
BitCount(bytes) == Cardinality({p \in 0..Len(bytes) * ByteBits - 1 : BitOf(bytes, p) = 1})

-----------------------------------------------------------------------------
(* Conversions.                                                            *)

NumberOf(v) ==
    CASE Type(v) = "NUMBER"  -> v
      [] Type(v) = "BOOLEAN" -> Integer(IF v[2] THEN 1 ELSE 0)
      [] Type(v) = "HEX"     -> Number(FromBytes(v[2]))
      [] OTHER -> \* the text of one number, with or without a sign; other text throws
           CASE v[2] = <<>> -> Integer(0)
             [] Len(v[2]) = 1 /\ v[2][1][1] = "num" -> Number(Of(v[2][1][2], v[2][1][3]))
             [] Len(v[2]) = 2 /\ v[2][1] = <<"sym", "-">> /\ v[2][2][1] = "num"
                  -> Number(Of(-v[2][2][2], v[2][2][3]))
             [] OTHER -> Exception

HexOf(v) ==
    CASE Type(v) = "HEX"     -> v
      [] Type(v) = "NUMBER"  -> Hex(ToBytes(v[2]))
      [] Type(v) = "BOOLEAN" -> Hex(<<IF v[2] THEN 1 ELSE 0>>)
      [] OTHER               -> IF Len(v[2]) = 1 /\ v[2][1][1] = "hex" THEN Hex(v[2][1][2])
                                ELSE Hex(Bytes(v[2]))

\* SIGDIG: through a double, rounded half away from zero.
SigDig(x, n) ==
    LET v    == Absolute(ToInt(x.unscaled))
        drop == DigitCount(v, 10) - n
        half == 10^drop \div 2
    IN  CASE n <= 0 \/ v = 0 -> Zero
          [] drop <= 0       -> x
          [] OTHER           -> Of((IF IsNegative(x.unscaled) THEN -1 ELSE 1)
                                       * ((v + half) \div 10^drop) * 10^drop, x.scale)

-----------------------------------------------------------------------------
(* The registry: the types each function demands of its arguments, and     *)
(* its value.  "ANY" accepts every type.                                   *)

Signature ==
    ("SIGNEDBY" :> <<"HEX">>) @@ ("STATE" :> <<"NUMBER">>) @@ ("PREVSTATE" :> <<"NUMBER">>) @@
    ("SAMESTATE" :> <<"NUMBER", "NUMBER">>) @@ ("SHA3" :> <<"TEXT">>) @@ ("SHA2" :> <<"TEXT">>) @@
    ("CONCAT" :> <<"ANY", "ANY">>) @@ ("SUBSET" :> <<"HEX", "NUMBER", "NUMBER">>) @@
    ("LEN" :> <<"TEXT">>) @@ ("REV" :> <<"HEX">>) @@ ("REPLACE" :> <<"HEX", "HEX", "HEX">>) @@
    ("CLEAN" :> <<"HEX">>) @@ ("UTF8" :> <<"HEX">>) @@ ("STRING" :> <<"HEX">>) @@
    ("ASCII" :> <<"SCRIPT">>) @@ ("NUMBER" :> <<"ANY">>) @@ ("HEX" :> <<"ANY">>) @@
    ("SCRIPT" :> <<"ANY">>) @@ ("BOOL" :> <<"ANY">>) @@ ("HEXTONUM" :> <<"HEX">>) @@
    ("NUMTOHEX" :> <<"NUMBER">>) @@ ("ABS" :> <<"NUMBER">>) @@ ("MAX" :> <<"NUMBER", "NUMBER">>) @@
    ("MIN" :> <<"NUMBER", "NUMBER">>) @@ ("DEC" :> <<"NUMBER">>) @@ ("INC" :> <<"NUMBER">>) @@
    ("FLOOR" :> <<"NUMBER">>) @@ ("CEIL" :> <<"NUMBER">>) @@ ("POW" :> <<"NUMBER", "NUMBER">>) @@
    ("BITSET" :> <<"HEX", "NUMBER", "ANY">>) @@ ("BITGET" :> <<"HEX", "NUMBER">>) @@
    ("BITCOUNT" :> <<"HEX">>) @@ ("GETOUTADDR" :> <<"NUMBER">>) @@ ("GETOUTAMT" :> <<"NUMBER">>) @@
    ("GETOUTTOKEN" :> <<"NUMBER">>) @@ ("SUMINPUTS" :> <<"HEX">>) @@ ("SUMOUTPUTS" :> <<"HEX">>) @@
    ("EXISTS" :> <<"TEXT">>) @@ ("OVERWRITE" :> <<"HEX", "NUMBER", "HEX">>) @@
    ("SETLEN" :> <<"HEX", "NUMBER">>) @@ ("SIGDIG" :> <<"NUMBER", "NUMBER">>) @@
    ("REPLACEFIRST" :> <<"TEXT", "TEXT", "TEXT">>) @@ ("SUBSTR" :> <<"TEXT", "NUMBER", "NUMBER">>) @@
    ("GETINADDR" :> <<"NUMBER">>) @@ ("GETINAMT" :> <<"NUMBER">>) @@ ("GETINID" :> <<"NUMBER">>) @@
    ("GETINTOK" :> <<"NUMBER">>) @@ ("GETOUTKEEPSTATE" :> <<"NUMBER">>) @@
    ("CHECKSIG" :> <<"HEX", "HEX", "HEX">>) @@ ("PROOF" :> <<"HEX", "HEX", "HEX">>)

\* MULTISIG, VERIFYIN and VERIFYOUT take a tail of further arguments.
AtLeast == ("MULTISIG" :> <<"NUMBER", "ANY">>) @@
           ("VERIFYOUT" :> <<"NUMBER", "ANY", "ANY">>) @@ ("VERIFYIN" :> <<"NUMBER", "ANY", "ANY">>)

Accepts(type, v) == \/ type = "ANY"
                    \/ type = "TEXT" /\ Type(v) \in {"HEX", "SCRIPT"}
                    \/ type = Type(v)
AcceptsAll(types, args) == \A i \in DOMAIN types : Accepts(types[i], args[i])
WellCalled(name, args) ==
    \/ name \in DOMAIN Signature /\ Len(args) = Len(Signature[name]) /\ AcceptsAll(Signature[name], args)
    \/ name \in DOMAIN AtLeast /\ Len(args) >= Len(AtLeast[name]) /\ AcceptsAll(AtLeast[name], args)

-----------------------------------------------------------------------------
(* The values.  A coin index out of range is an exception, except that     *)
(* VERIFYIN and VERIFYOUT answer FALSE.                                    *)

Guarded(condition, v) == IF condition THEN v ELSE Exception
InputFunctions == {"GETINADDR", "GETINAMT", "GETINID", "GETINTOK", "VERIFYIN"}
CoinField(name, c) ==
    CASE name \in {"GETINADDR", "GETOUTADDR"} -> Hex(c.address)
      [] name \in {"GETINAMT", "GETOUTAMT"}   -> Number(c.amount)
      [] name = "GETINID"         -> Hex(c.coinID)
      [] name = "GETINTOK"        -> Hex(IF c.hasToken THEN c.tokenID ELSE <<>>)
      [] name = "GETOUTTOKEN"     -> Guarded(c.hasToken, Hex(c.tokenID))
      [] name = "GETOUTKEEPSTATE" -> Boolean(c.keepState)
\* The name is made from the text of the number: a fraction names nothing.
StateNamed(env, prefix, t) ==
    IF t[2] = 0 /\ StateName(prefix, t[1]) \in DOMAIN env THEN env[StateName(prefix, t[1])] ELSE Hex(<<>>)
StateValue(env, prefix, n) == StateNamed(env, prefix, Shown(n))
MaxOf(x, y) == IF LessThan(y, x) THEN x ELSE y
MinOf(x, y) == IF LessThan(x, y) THEN x ELSE y

\* Without OpenSSL a signature is valid when the witness holds it.
CheckSig(key, sig, contract) ==
    \E s \in Range(contract.signatures) : key \in s.keys /\ sig = s.signature

BytesFunction(name, args, longs) ==
    LET a == args[1][2]
        N(i) == longs[i]
    IN  CASE name = "SHA3"   -> Hex(Hash(RawBytes(args[1])))
          [] name = "SHA2"   -> Hex(<<-3>> \o RawBytes(args[1]) \o <<-4>>)
          [] name = "CONCAT" -> IF Type(args[1]) = "HEX" /\ Type(args[2]) = "HEX" THEN Hex(a \o args[2][2])
                                ELSE Script(Text(args[1]) \o Text(args[2]))
          [] name = "SUBSET" -> Guarded(~OutOfRange(a, N(2), N(3)), Hex(SliceOf(a, N(2), N(3))))
          [] name = "SUBSTR" -> Guarded(~OutOfRange(a, N(2), N(3)),
                                        Script(LET s == SliceOf(a, N(2), N(3)) IN
                                               IF Type(args[1]) = "HEX" THEN Chars(s) ELSE s))
          [] name = "LEN"    -> Integer(Len(a))
          [] name = "REV"    -> Hex(Reverse(a))
          [] name = "REPLACE" -> Hex(IF args[2][2] = <<>> THEN a ELSE ReplaceFrom(a, args[2][2], args[3][2], 1))
          [] name = "REPLACEFIRST" -> Script(Chars(ReplaceFirst(RawBytes(args[1]), RawBytes(args[2]), RawBytes(args[3]))))
          [] name = "CLEAN"  -> Hex(Clean(a))
          [] name \in {"UTF8", "STRING"} -> Script(Chars(a))
          [] name = "ASCII"  -> Hex(Bytes(a))
          [] name = "OVERWRITE" -> Guarded(~OutOfRange(a, N(2), Len(args[3][2])), Hex(Overwrite(a, N(2), args[3][2])))
          [] name = "SETLEN" -> Guarded(N(2) >= 0, Hex(SetLen(a, N(2))))
          [] name = "BITSET" -> CASE HasBit(a, N(2))         -> Hex(BitSet(a, N(2), IsTrue(args[3])))
                                  [] AboveFirstByte(a, N(2)) -> Hex(a)
                                  [] OTHER                   -> Exception
          [] name = "BITGET" -> Boolean(HasBit(a, N(2)) /\ BitOf(a, N(2)) = 1)
          [] name = "BITCOUNT" -> Integer(BitCount(a))

NumberFunction(name, args, longs) ==
    LET x == args[1][2]
    IN  CASE name = "ABS"   -> Number(IF LessThan(x, Zero) THEN Sub(Zero, x) ELSE x)
          [] name = "MAX"   -> Number(MaxOf(x, args[2][2]))
          [] name = "MIN"   -> Number(MinOf(x, args[2][2]))
          [] name = "DEC"   -> Number(Sub(x, Of(1, 0)))
          [] name = "INC"   -> Number(Add(x, Of(1, 0)))
          [] name = "FLOOR" -> Number(Floor(x))
          [] name = "CEIL"  -> Number(Ceil(x))
          [] name = "POW"   -> Number(Pow(x, longs[2]))
          [] name = "SIGDIG" -> Number(SigDig(x, longs[2]))
          [] name = "NUMTOHEX" -> Hex(ToBytes(x))

ConversionFunction(name, v) ==
    CASE name \in {"NUMBER", "HEXTONUM"} -> NumberOf(v)
      [] name = "HEX"    -> HexOf(v)
      [] name = "SCRIPT" -> Script(Text(v))
      [] name = "BOOL"   -> Boolean(IsTrue(v))

CoinFunction(name, args, longs, contract) ==
    LET i     == longs[1]
        coins == IF name \in InputFunctions THEN contract.inputs ELSE contract.outputs
    IN  IF name \in {"VERIFYIN", "VERIFYOUT"} THEN MatchesAt(coins, i, args)
        ELSE IF HasCoin(coins, i) THEN CoinField(name, CoinAt(coins, i)) ELSE Exception

ContextFunction(name, args, longs, contract, env) ==
    LET a == args[1][2]
        N(i) == longs[i]
        keys == [i \in 1..Len(args) - 1 |-> args[i + 1]]
    IN  CASE name = "SIGNEDBY"  -> Boolean(SignedWith(a, contract))
          [] name = "CHECKSIG"  -> Boolean(CheckSig(a, args[3][2], contract))
          [] name = "MULTISIG"  -> Boolean(MultiSig(N(1), keys, contract))
          [] name = "STATE"     -> StateValue(env, "@STATE", a)
          [] name = "PREVSTATE" -> StateValue(env, "@PREVSTATE", a)
          [] name = "SAMESTATE" -> Boolean(SameState(env, N(1), N(2)))
          [] name = "SUMINPUTS" -> SumOf(contract.inputs, a)
          [] name = "SUMOUTPUTS" -> SumOf(contract.outputs, a)
          [] name = "EXISTS"    -> Boolean(Type(args[1]) = "SCRIPT"
                                            /\ \E n \in DOMAIN env : a \in {<<<<"id", n>>>>, <<<<"env", n>>>>})

ContextFunctions == {"SIGNEDBY", "CHECKSIG", "MULTISIG", "STATE", "PREVSTATE", "SAMESTATE", "SUMINPUTS",
                     "SUMOUTPUTS", "EXISTS"}
CoinFunctions == {"GETINADDR", "GETINAMT", "GETINID", "GETINTOK", "GETOUTADDR", "GETOUTAMT", "GETOUTTOKEN",
                  "GETOUTKEEPSTATE", "VERIFYIN", "VERIFYOUT"}
NumberFunctions == {"ABS", "MAX", "MIN", "DEC", "INC", "FLOOR", "CEIL", "POW", "SIGDIG", "NUMTOHEX"}
ConversionFunctions == {"NUMBER", "HEXTONUM", "HEX", "SCRIPT", "BOOL"}

\* numArg(...).getAsLong(), the number an index, a position or a count is read from.
Longs(args) == [i \in DOMAIN args |-> IF Type(args[i]) = "NUMBER" THEN AsLong(args[i][2]) ELSE 0]

\* FunctionRegistry::call.
ValueOf(name, args, longs, contract, env) ==
    CASE name \in ContextFunctions    -> ContextFunction(name, args, longs, contract, env)
      [] name \in CoinFunctions       -> CoinFunction(name, args, longs, contract)
      [] name \in NumberFunctions     -> NumberFunction(name, args, longs)
      [] name \in ConversionFunctions -> ConversionFunction(name, args[1])
      [] name = "PROOF"               -> Boolean(ProofHolds(args[1][2], args[2][2], args[3][2]))
      [] OTHER                        -> BytesFunction(name, args, longs)
Call(name, args, contract, env) ==
    IF WellCalled(name, args) THEN ValueOf(name, args, Longs(args), contract, env) ELSE Exception
=============================================================================
