------------------------------ MODULE MiniNumber ----------------------------
(***************************************************************************)
(* src/types/MiniNumber.cpp: its BigInt, big-endian two's complement byte  *)
(* strings as java.math.BigInteger writes them, with the schoolbook        *)
(* arithmetic on their magnitudes; and on it the decimal numbers: an       *)
(* unscaled BigInt and a scale, value = unscaled / 10^scale, kept to       *)
(* MaxDigits significant digits (64 in the code) and MaxPlaces decimal     *)
(* places (44).  A byte has Radix values (256 in the code); its upper half *)
(* carries the sign.                                                       *)
(*                                                                         *)
(* Every division reads its quotient, a magnitude, back as two's           *)
(* complement bytes (fromJavaBytes): a quotient whose first byte is in the *)
(* upper half becomes a negative number.  The model keeps that.            *)
(***************************************************************************)
EXTENDS Integers, Sequences, SequencesExt, FiniteSets

CONSTANTS Radix, MaxDigits, MaxPlaces

ASSUME RadixAssumption == Radix \in {2 * k : k \in 1..128}
ASSUME DigitsAssumption == MaxDigits \in 1..4 /\ MaxPlaces \in 0..4

Half == Radix \div 2
Absolute(i) == IF i < 0 THEN -i ELSE i

-----------------------------------------------------------------------------
(* Magnitudes: unsigned strings of bytes.                                  *)

From(v, first) == IF v = <<>> THEN v ELSE SubSeq(v, IF first = 0 THEN Len(v) ELSE first, Len(v))
StripLeadingZeros(v) == From(v, SelectInSeq(v, LAMBDA b : b # 0))

\* The carry, or borrow, of each place moves to the place above it.
Propagate(places, carry) ==
    FoldRight(LAMBDA p, acc : [digits |-> <<(p + acc.carry) % Radix>> \o acc.digits,
                               carry  |-> (p + acc.carry) \div Radix],
              places, [digits |-> <<>>, carry |-> carry])

PadLeft(v, n) == [i \in 1..n |-> IF i > n - Len(v) THEN v[i - n + Len(v)] ELSE 0]
Longer(a, b)  == IF Len(a) >= Len(b) THEN Len(a) ELSE Len(b)

Carried(sum) == IF sum.carry > 0 THEN <<sum.carry>> \o sum.digits ELSE sum.digits
AddMag(a, b) ==
    LET n == Longer(a, b) IN
    Carried(Propagate([i \in 1..n |-> PadLeft(a, n)[i] + PadLeft(b, n)[i]], 0))

SubMag(a, b) ==
    StripLeadingZeros(Propagate([i \in DOMAIN a |-> a[i] - PadLeft(b, Len(a))[i]], 0).digits)

\* The row of each digit of a is added in its place; no row overflows an int.
MulMag(a, b) ==
    LET Column(k) == {p \in (DOMAIN a) \X (DOMAIN b) : p[1] + p[2] = k}
        places == [k \in 1..Len(a) + Len(b) |-> MapThenSumSet(LAMBDA p : a[p[1]] * b[p[2]], Column(k))]
    IN  StripLeadingZeros(Propagate(places, 0).digits)

\* memcmp compares only strings of one length; it is the order of the first difference.
LessMag(a, b) ==
    \/ Len(a) < Len(b)
    \/ Len(a) = Len(b) /\ \E i \in DOMAIN a : a[i] < b[i] /\ \A j \in 1..i - 1 : a[j] = b[j]

\* Long division: the largest digit whose product still fits, found by bisection
\* in the code.  A zero divisor fits every digit and leaves the dividend.
LargestFit(rem, b) ==
    CHOOSE d \in 0..Radix - 1 : /\ ~LessMag(rem, MulMag(b, <<d>>))
                                /\ d = Radix - 1 \/ LessMag(rem, MulMag(b, <<d + 1>>))
Take(acc, rem, b, d) == [q |-> Append(acc.q, d), rem |-> SubMag(rem, MulMag(b, <<d>>))]
Bring(acc, rem, b)   == Take(acc, rem, b, LargestFit(rem, b))
LongDivision(a, b) ==
    FoldLeft(LAMBDA acc, digit : Bring(acc, StripLeadingZeros(Append(acc.rem, digit)), b),
             [q |-> <<>>, rem |-> <<>>], a)
Stripped(full) == [q |-> StripLeadingZeros(full.q), rem |-> StripLeadingZeros(full.rem)]
DivModMag(a, b) == IF LessMag(a, b) THEN [q |-> <<0>>, rem |-> a] ELSE Stripped(LongDivision(a, b))

-----------------------------------------------------------------------------
(* Signed integers.                                                        *)

IsNegative(b) == b # <<>> /\ b[1] >= Half
IsZero(b)     == \A i \in DOMAIN b : b[i] = 0

Redundant(b, i) == \/ b[i] = 0 /\ b[i + 1] < Half
                   \/ b[i] = Radix - 1 /\ b[i + 1] >= Half
Normalise(b) == SubSeq(b, CHOOSE i \in DOMAIN b : /\ i = Len(b) \/ ~Redundant(b, i)
                                                 /\ \A j \in 1..i - 1 : Redundant(b, j), Len(b))

Complement(b) == Propagate([i \in DOMAIN b |-> Radix - 1 - b[i]], 1).digits
Magnitude(b)  == StripLeadingZeros(IF IsNegative(b) THEN Complement(b) ELSE b)

Signed(negative, bytes) ==
    IF negative = (bytes[1] >= Half) THEN bytes ELSE <<IF negative THEN Radix - 1 ELSE 0>> \o bytes
FromSignMag(negative, mag) ==
    IF mag \in {<<>>, <<0>>} THEN <<0>>
    ELSE Normalise(Signed(negative, IF negative THEN Complement(mag) ELSE mag))

Negate(b) == IF IsZero(b) THEN b ELSE FromSignMag(~IsNegative(b), Magnitude(b))

OfOneSign(negative, ma, mb) == FromSignMag(negative, AddMag(ma, mb))
OfTwoSigns(negative, ma, mb) ==
    IF ma = mb THEN <<0>>
    ELSE IF LessMag(mb, ma) THEN FromSignMag(negative, SubMag(ma, mb))
    ELSE FromSignMag(~negative, SubMag(mb, ma))
Plus(a, b) == IF IsNegative(a) = IsNegative(b) THEN OfOneSign(IsNegative(a), Magnitude(a), Magnitude(b))
              ELSE OfTwoSigns(IsNegative(a), Magnitude(a), Magnitude(b))
Minus(a, b) == Plus(a, Negate(b))
Times(a, b) == FromSignMag(IsNegative(a) # IsNegative(b), MulMag(Magnitude(a), Magnitude(b)))
Modulo(a, b) == FromSignMag(IsNegative(a), DivModMag(Magnitude(a), Magnitude(b)).rem)

LessOf(negative, ma, mb) == IF negative THEN LessMag(mb, ma) ELSE LessMag(ma, mb)
Less(a, b) == IF IsNegative(a) # IsNegative(b) THEN IsNegative(a)
              ELSE LessOf(IsNegative(a), Magnitude(a), Magnitude(b))

-----------------------------------------------------------------------------
(* From and to the integers: the constructors and toDecimalString.         *)

DigitCount(n, base) == CHOOSE k \in 1..31 : /\ n < base^k
                                            /\ k = 1 \/ n >= base^(k - 1)
Digits(n, k) == [d \in 1..k |-> (n \div Radix^(k - d)) % Radix]
OfInt(i) == FromSignMag(i < 0, Digits(Absolute(i), DigitCount(Absolute(i), Radix)))

WithSign(negative, n) == IF negative THEN -n ELSE n
ToInt(b) == WithSign(IsNegative(b), FoldLeft(LAMBDA acc, d : acc * Radix + d, 0, Magnitude(b)))

-----------------------------------------------------------------------------
(* The decimal numbers.                                                    *)

Pow10(n)   == OfInt(10^n)
Zero       == [unscaled |-> OfInt(0), scale |-> 0]
Sign(b, q) == IF IsNegative(b) THEN Negate(q) ELSE q
AbsOf(b)   == IF IsNegative(b) THEN Negate(b) ELSE b

\* fromJavaBytes of a quotient: the magnitude taken for signed bytes.
RawQuotient(a, b)     == DivModMag(Magnitude(AbsOf(a)), Magnitude(b)).q
HasRemainder(a, b)    == DivModMag(Magnitude(AbsOf(a)), Magnitude(b)).rem # <<0>>

\* applyMathContext, run by the constructor on every result.
Beyond(n) == IF n > 0 THEN n ELSE 0
Excess(u) == Beyond(DigitCount(Absolute(ToInt(u)), 10) - MaxDigits)
Cut(u, excess) == IF excess = 0 THEN u
                  ELSE OfInt(WithSign(IsNegative(u), Absolute(ToInt(u)) \div 10^excess))
Placed(u, places) ==
    IF places > MaxPlaces
    THEN [unscaled |-> Sign(u, RawQuotient(u, Pow10(places - MaxPlaces))), scale |-> MaxPlaces]
    ELSE [unscaled |-> u, scale |-> places]
CutBy(u, scale, excess) == Placed(Cut(u, excess), scale - excess)
Rounded(u, scale) == IF IsZero(u) THEN Zero ELSE CutBy(u, scale, Excess(u))

Of(i, scale) == Rounded(OfInt(i), scale)

\* fromBytes: any byte string as a positive integer, not normalised.
FromBytes(bytes) ==
    Rounded(IF IsNegative(bytes) THEN <<0>> \o bytes ELSE bytes, 0)
\* toBytes: without the sign byte, whatever the sign was.
ToBytes(x) == StripLeadingZeros(x.unscaled)

-----------------------------------------------------------------------------
AtScale(x, scale) == IF scale = x.scale THEN x.unscaled
                     ELSE Times(x.unscaled, Pow10(scale - x.scale))
CommonScale(x, y) == IF x.scale > y.scale THEN x.scale ELSE y.scale

Left(x, y)  == AtScale(x, CommonScale(x, y))
Right(x, y) == AtScale(y, CommonScale(x, y))

Add(x, y)  == Rounded(Plus(Left(x, y), Right(x, y)), CommonScale(x, y))
Sub(x, y)  == Rounded(Minus(Left(x, y), Right(x, y)), CommonScale(x, y))
Mult(x, y) == Rounded(Times(x.unscaled, y.unscaled), x.scale + y.scale)
\* A zero divisor is not refused: the dividend is returned.
Mod(x, y)  == Rounded(Modulo(Left(x, y), Right(x, y)), CommonScale(x, y))

DivisionByZero(y) == IsZero(y.unscaled)
SignedQuotient(negative, q) == IF negative /\ ~IsZero(q) THEN Negate(q) ELSE q
DivAt(a, b, scale) ==
    Rounded(SignedQuotient(IsNegative(a) # IsNegative(b), RawQuotient(a, AbsOf(b))), scale)
Div(x, y) == DivAt(Times(x.unscaled, Pow10(MaxDigits)), y.unscaled, x.scale - y.scale + MaxDigits)

\* Square and multiply, each product rounded; an exponent below one leaves the
\* initial 1.  The square taken after the last bit is dropped by the code.
RECURSIVE PowLoop(_, _, _)
PowLoop(r, base, n) ==
    IF n <= 0 THEN r
    ELSE PowLoop(IF n % 2 = 1 THEN Mult(r, base) ELSE r,
                 IF n > 1 THEN Mult(base, base) ELSE base, n \div 2)
Pow(x, n) == PowLoop(Of(1, 0), x, n)

Stepped(q, away) == IF away THEN Plus(q, OfInt(1)) ELSE q
Towards(x, unit, away) ==
    IF x.scale <= 0 THEN x
    ELSE Rounded(Sign(x.unscaled, Stepped(RawQuotient(x.unscaled, unit), away /\ HasRemainder(x.unscaled, unit))), 0)
Floor(x) == Towards(x, Pow10(x.scale), IsNegative(x.unscaled))
Ceil(x)  == Towards(x, Pow10(x.scale), ~IsNegative(x.unscaled))

\* getAsLong: truncated; the sign of the quotient is lost here too.
AsLong(x) ==
    IF x.scale <= 0 THEN ToInt(x.unscaled) * 10^(-x.scale)
    ELSE ToInt(Sign(x.unscaled, RawQuotient(x.unscaled, Pow10(x.scale))))

LessThan(x, y) == Less(Left(x, y), Right(x, y))
SameNumber(x, y) == ~LessThan(x, y) /\ ~LessThan(y, x)

\* toString: trailing zeros of the fraction are dropped, a negative scale is
\* written out.  The text is the pair <<integer, places>>.
FractionZeros(v, scale) ==
    CHOOSE k \in 0..scale : v % 10^k = 0 /\ (k = scale \/ v % 10^(k + 1) # 0)
WithoutZeros(v, scale, drop) == <<v \div 10^drop, scale - drop>>
ShownAs(v, scale) == CASE scale <= 0 -> <<v * 10^(-scale), 0>>
                       [] v = 0      -> <<0, scale>>
                       [] OTHER      -> WithoutZeros(v, scale, FractionZeros(v, scale))
Shown(x) == ShownAs(ToInt(x.unscaled), x.scale)
=============================================================================
