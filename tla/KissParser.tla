----------------------------- MODULE KissParser -----------------------------
(***************************************************************************)
(* The reader of KISS scripts: src/kissvm/Tokenizer.cpp and Parser.cpp.    *)
(* A script is a sequence of lexemes <<kind, ...>>, the longest runs of    *)
(* characters that belong together: "kw" (keywords and operator words),    *)
(* "sym", "id", "env" (a name that starts with @), "num" (digits, decimal  *)
(* places), "hex", "bool", "str", "blank" (space or comment) and "char"    *)
(* (a character that starts no token).                                     *)
(***************************************************************************)
EXTENDS Integers, Sequences

Kw(word)   == <<"kw", word>>
Sym(s)     == <<"sym", s>>
Minus_     == Sym("-")
EndOfInput == <<"end">>

Keywords == {"LET", "IF", "THEN", "ELSEIF", "ELSE", "ENDIF", "WHILE", "DO", "ENDWHILE",
             "RETURN", "ASSERT", "EXEC", "MAST"}

-----------------------------------------------------------------------------
(* Tokenizer: a minus that touches a digit belongs to the number, whatever *)
(* stands before it.                                                       *)

Unreadable == <<"unreadable">>

RECURSIVE Tokenize(_)
Tokenize(source) ==
    LET t == Head(source)
        touches == t = Minus_ /\ Len(source) > 1 /\ source[2][1] = "num"
    IN  CASE source = <<>>     -> <<>>
          [] t[1] = "blank"    -> Tokenize(Tail(source))
          [] t[1] = "char"     -> <<Unreadable>>
          [] touches           -> <<<<"num", -source[2][2], source[2][3]>>>> \o Tokenize(Tail(Tail(source)))
          [] OTHER             -> <<t>> \o Tokenize(Tail(source))

Tokenizes(tokens) == \A i \in DOMAIN tokens : tokens[i] # Unreadable

-----------------------------------------------------------------------------
(* Parser: each function takes the tokens left and returns the node and    *)
(* the tokens after it.                                                    *)

Parsed(node, rest) == [ok |-> TRUE, node |-> node, rest |-> rest]
ParseError         == [ok |-> FALSE, node |-> <<>>, rest |-> <<>>]
Then(p, Next(_, _)) == IF p.ok THEN Next(p.node, p.rest) ELSE ParseError

Peek(ts)      == IF ts = <<>> THEN EndOfInput ELSE Head(ts)
IsKeyword(t)  == t[1] = "kw" /\ t[2] \in Keywords
BlockEnd(t)   == t = EndOfInput \/ (t[1] = "kw" /\ t[2] \in {"ENDIF", "ELSE", "ELSEIF", "ENDWHILE"})
Literal(t)    == t[1] \in {"num", "hex", "bool", "str"}
Identifier(t) == t[1] \in {"id", "env"}

\* Only the type of the token is compared: any keyword passes for another.
ExpectKeyword(ts, result) == IF IsKeyword(Peek(ts)) THEN result ELSE ParseError
Expect(token, ts, result) == IF Peek(ts) = token THEN result ELSE ParseError

\* parseOr, parseAnd, parseNot, parseCmp, parseAdd, parseMul and parseUnary, by level.
NotLevel   == 3
UnaryLevel == 7
Operators  == <<{Kw("OR"), Kw("NOR"), Kw("XOR")},
                {Kw("AND"), Kw("NAND")},
                {},
                {Kw(o) : o \in {"EQ", "NEQ", "LT", "GT", "LTE", "GTE"}},
                {Sym("+"), Minus_},
                {Sym("*"), Sym("/"), Sym("%")}>>

RECURSIVE ParseLevel(_, _), MoreOperands(_, _, _), ParsePrimary(_), MoreArguments(_, _, _)

MoreOperandsRight(level, left, ts) ==
    IF Peek(ts) \in Operators[level]
    THEN Then(ParseLevel(level, Tail(ts)), LAMBDA right, rest :
              Parsed(<<"BINARY", Peek(ts)[2], left, right>>, rest))
    ELSE Parsed(left, ts)
MoreOperands(level, left, ts) ==
    IF Peek(ts) \in Operators[level]
    THEN Then(ParseLevel(level + 1, Tail(ts)), LAMBDA right, rest :
              MoreOperands(level, <<"BINARY", Peek(ts)[2], left, right>>, rest))
    ELSE Parsed(left, ts)

Prefixed(op, p) == Then(p, LAMBDA node, rest : Parsed(<<"UNARY", op, node>>, rest))

ParseLevel(level, ts) ==
    CASE level = NotLevel   -> IF Peek(ts) = Kw("NOT") THEN Prefixed("NOT", ParseLevel(level, Tail(ts)))
                               ELSE ParseLevel(level + 1, ts)
      [] level = UnaryLevel -> IF Peek(ts) = Minus_ THEN Prefixed("-", ParsePrimary(Tail(ts)))
                               ELSE ParsePrimary(ts)
      [] OTHER              -> Then(ParseLevel(level + 1, ts), LAMBDA left, rest :
                                    MoreOperands(level, left, rest))

ParseExpr(ts) == ParseLevel(1, ts)

ParsePrimary(ts) ==
    LET t == Peek(ts) IN
    CASE Literal(t) -> Parsed(t, Tail(ts))
      [] Identifier(t) -> IF t[1] = "id" /\ Peek(Tail(ts)) = Sym("(")
                          THEN MoreArguments(t[2], <<>>, Tail(Tail(ts)))
                          ELSE Parsed(<<"VAR", t[2]>>, Tail(ts))
      [] t = Sym("(") -> Then(ParseExpr(Tail(ts)), LAMBDA node, rest :
                              Expect(Sym(")"), rest, Parsed(node, Tail(rest))))
      [] OTHER -> ParseError

\* A comma between two arguments, and after the last, may be there or not.
MoreArguments(name, args, ts) ==
    LET rest == IF args # <<>> /\ Peek(ts) = Sym(",") THEN Tail(ts) ELSE ts IN
    IF Peek(rest) = Sym(")") THEN Parsed(<<"CALL", name, args>>, Tail(rest))
    ELSE Then(ParseExpr(rest), LAMBDA node, after : MoreArguments(name, Append(args, node), after))

-----------------------------------------------------------------------------
RECURSIVE ParseStatement(_), ParseBlock(_, _), ParseArms(_, _), ParseBody(_, _, _)

ParseBlock(stmts, ts) ==
    IF BlockEnd(Peek(ts)) THEN Parsed(<<"PROGRAM", stmts>>, ts)
    ELSE Then(ParseStatement(ts), LAMBDA s, rest : ParseBlock(Append(stmts, s), rest))

ParseLet(ts) ==
    IF Identifier(Peek(ts))
    THEN Expect(Sym("="), Tail(ts),
                Then(ParseExpr(Tail(Tail(ts))), LAMBDA e, rest : Parsed(<<"LET", Peek(ts)[2], e>>, rest)))
    ELSE ParseError

\* A condition, THEN and a block are appended to the children of the IF.
ParseArm(children, ts) ==
    Then(ParseExpr(ts), LAMBDA cond, afterCond :
         ExpectKeyword(afterCond,
                       Then(ParseBlock(<<>>, Tail(afterCond)), LAMBDA block, rest :
                            ParseArms(children \o <<cond, block>>, rest))))

ParseArms(children, ts) ==
    LET End(kids, rest) == ExpectKeyword(rest, Parsed(<<"IF", kids>>, Tail(rest))) IN
    CASE Peek(ts) = Kw("ELSEIF") -> ParseArm(children, Tail(ts))
      [] Peek(ts) = Kw("ELSE")   -> Then(ParseBlock(<<>>, Tail(ts)), LAMBDA block, rest :
                                         End(Append(children, block), rest))
      [] OTHER                   -> End(children, ts)

ParseBody(cond, stmts, ts) ==
    IF Peek(ts) \in {EndOfInput, Kw("ENDWHILE")}
    THEN ExpectKeyword(ts, Parsed(<<"WHILE", cond, stmts>>, Tail(ts)))
    ELSE Then(ParseStatement(ts), LAMBDA s, rest : ParseBody(cond, Append(stmts, s), rest))

ParseStatement(ts) ==
    LET Unary(kind, from) == Then(ParseExpr(from), LAMBDA e, rest : Parsed(<<kind, e>>, rest))
        first == Peek(ts)
    IN  CASE first = Kw("LET")   -> ParseLet(Tail(ts))
          [] first = Kw("IF")    -> ParseArm(<<>>, Tail(ts))
          [] first = Kw("WHILE") -> Then(ParseExpr(Tail(ts)), LAMBDA cond, rest :
                                         ExpectKeyword(rest, ParseBody(cond, <<>>, Tail(rest))))
          [] first \in {Kw(k) : k \in {"RETURN", "ASSERT", "EXEC", "MAST"}} -> Unary(first[2], Tail(ts))
          [] OTHER               -> Unary("EXPR", ts)

\* A script that cannot be read has no program.  What follows a stray end of a
\* block is ignored.
Parse(source) ==
    LET tokens == Tokenize(source) IN
    IF Tokenizes(tokens) THEN ParseBlock(<<>>, tokens) ELSE ParseError
=============================================================================
