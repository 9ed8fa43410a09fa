------------------------------- MODULE KissVM -------------------------------
(***************************************************************************)
(* A contract as it runs: src/kissvm/Contract.cpp and Interpreter.cpp.     *)
(* The recursion of the interpreter is a stack of frames.  A "run" frame   *)
(* is one call of execute, for the script or for a script under EXEC, a    *)
(* "block" the PROGRAM of an IF, a "loop" a WHILE.  Every action is one    *)
(* statement, with all the ticks of the expressions it evaluates.          *)
(***************************************************************************)
EXTENDS KissParser, KissFunctions

CONSTANTS
    Scripts,          \* the contracts, each [source |-> lexemes, ...]
    MaxInstructions,  \* MAX_INSTRUCTIONS, 1024 in the code
    MaxLoop           \* MAX_LOOP, 512 in the code

ASSUME LimitsAssumption == MaxInstructions \in Nat /\ MaxLoop \in Nat

VARIABLES script, frames, env, count, verdict
vars == <<script, frames, env, count, verdict>>

Running == <<"RUNNING">>

-----------------------------------------------------------------------------
(* Expressions: the value and the number of nodes visited.                 *)

Evaluated(v, ticks) == [v |-> v, ticks |-> ticks]

Equal(l, r) == IF Type(l) = "NUMBER" /\ Type(r) = "NUMBER" THEN SameNumber(l[2], r[2])
               ELSE IF Type(l) = Type(r) THEN l[2] = r[2]
               ELSE Text(l) = Text(r)

Arithmetic(op, x, y) ==
    CASE op = "+"   -> Number(Add(x, y))
      [] op = "-"   -> Number(Sub(x, y))
      [] op = "*"   -> Number(Mult(x, y))
      [] op = "/"   -> IF DivisionByZero(y) THEN Exception ELSE Number(Div(x, y))
      [] op = "%"   -> Number(Mod(x, y))
      [] op = "LT"  -> Boolean(LessThan(x, y))
      [] op = "GT"  -> Boolean(LessThan(y, x))
      [] op = "LTE" -> Boolean(~LessThan(y, x))
      [] op = "GTE" -> Boolean(~LessThan(x, y))

\* NEQ evaluates an empty node first, which has no child to read: undefined
\* behaviour, a crash of the process in practice.
Strict(op, l, r) ==
    CASE op = "EQ"  -> Boolean(Equal(l, r))
      [] op = "NEQ" -> Crash
      [] op = "XOR" -> Boolean(IsTrue(l) # IsTrue(r))
      [] OTHER      -> IF Type(l) = "NUMBER" /\ Type(r) = "NUMBER" THEN Arithmetic(op, l[2], r[2])
                       ELSE Exception

\* AND and NAND stop at a false left side, OR and NOR at a true one.
Logical       == {"AND", "NAND", "OR", "NOR"}
Decided(op, l) == IF op \in {"AND", "NAND"} THEN ~IsTrue(l) ELSE IsTrue(l)
Logic(op, p)   == Boolean(IF op \in {"NAND", "NOR"} THEN ~p ELSE p)

RECURSIVE Eval(_, _), EvalAll(_, _)

Ticked(x)       == [x EXCEPT !.ticks = @ + 1]
Combined(op, l, r) ==
    Evaluated(CASE Stops(r.v) -> r.v
                [] op \in Logical -> Logic(op, IsTrue(r.v))
                [] OTHER -> Strict(op, l.v, r.v), l.ticks + r.ticks)
EvalRight(op, l, right, e) ==
    CASE Stops(l.v) -> l
      [] op \in Logical /\ Decided(op, l.v) -> Evaluated(Logic(op, op \in {"OR", "NOR"}), l.ticks)
      [] OTHER -> Combined(op, l, Eval(right, e))

Negated(v) == IF Type(v) = "NUMBER" THEN Number(Sub(Zero, v[2])) ELSE Exception
EvalUnary(op, x) ==
    CASE Stops(x.v) -> x
      [] op = "NOT" -> Evaluated(Boolean(~IsTrue(x.v)), x.ticks)
      [] OTHER      -> Evaluated(Negated(x.v), x.ticks)

\* The arguments, up to the first that stops.
AndLater(first, nodes, e) ==
    LET later == EvalAll(nodes, e) IN
    IF Stops(first.v) THEN [vs |-> <<>>, ticks |-> first.ticks, stop |-> first.v]
    ELSE [vs |-> <<first.v>> \o later.vs, ticks |-> first.ticks + later.ticks, stop |-> later.stop]
EvalAll(nodes, e) == IF nodes = <<>> THEN [vs |-> <<>>, ticks |-> 0, stop |-> Running]
                     ELSE AndLater(Eval(Head(nodes), e), Tail(nodes), e)
Called(name, args, e) ==
    Evaluated(IF Stops(args.stop) THEN args.stop ELSE Call(name, args.vs, script, e), args.ticks)

\* One tick for the node, and those of its children.  An unknown name is 0.
Eval(node, e) ==
    Ticked(CASE node[1] = "bool"   -> Evaluated(Boolean(node[2]), 0)
             [] node[1] = "num"    -> Evaluated(Number(Of(node[2], node[3])), 0)
             [] node[1] = "hex"    -> Evaluated(Hex(node[2]), 0)
             [] node[1] = "str"    -> Evaluated(Script(node[2]), 0)
             [] node[1] = "VAR"    -> Evaluated(IF node[2] \in DOMAIN e THEN e[node[2]] ELSE Integer(0), 0)
             [] node[1] = "BINARY" -> EvalRight(node[2], Eval(node[3], e), node[4], e)
             [] node[1] = "UNARY"  -> EvalUnary(node[2], Eval(node[3], e))
             [] node[1] = "CALL"   -> Called(node[2], EvalAll(node[3], e), e))

-----------------------------------------------------------------------------
(* Contract::Contract: the variables a contract starts with.               *)

SumOfAll(coins) == FoldLeft(LAMBDA sum, c : Add(sum, c.amount), Zero, coins)

SetupEnvironment(c) ==
    ("@TOTIN" :> Number(SumOfAll(c.inputs))) @@ ("@TOTOUT" :> Number(SumOfAll(c.outputs))) @@
    ("@INPUT" :> Integer(Len(c.inputs))) @@ ("@OUTPUT" :> Integer(Len(c.outputs))) @@
    ("@SCRIPT" :> Script(c.source)) @@
    (IF HasCoin(c.inputs, c.input)
     THEN ("@AMOUNT" :> Number(CoinAt(c.inputs, c.input).amount)) @@
          ("@ADDRESS" :> Hex(CoinAt(c.inputs, c.input).address))
     ELSE <<>>)

Run(program)  == [kind |-> "run", todo |-> program[2], last |-> False]
Block(stmts)  == [kind |-> "block", todo |-> stmts]
Loop(c, body) == [kind |-> "loop", todo |-> <<>>, cond |-> c, body |-> body, rounds |-> 0]

Started(p) == /\ frames  = IF p.ok THEN <<Run(p.node)>> ELSE <<>>
              /\ verdict = IF p.ok THEN Running ELSE False
Init ==
    /\ script \in Scripts
    /\ env = SetupEnvironment(script)
    /\ count = 0
    /\ Started(Parse(script.source))

-----------------------------------------------------------------------------
Top       == Head(frames)
Statement == Head(Top.todo)
HasNext(kind) == verdict = Running /\ Top.todo # <<>> /\ Statement[1] = kind

\* execute ticks for each statement of a run, execStatement for every statement
\* it is given; execute evaluates an expression without it, and a further arm of
\* an IF, or a round of a loop, is not a statement.
Overhead == CASE Top.todo = <<>>          -> 1
              [] Statement[1] = "ELSEIF"  -> 0
              [] Statement[1] = "EXPR"    -> 1
              [] OTHER                    -> IF Top.kind = "run" THEN 2 ELSE 1
\* The expression the statement at hand, or the head of the loop, evaluates first.
Operand == CASE Top.todo = <<>>                   -> Top.cond
             [] Statement[1] = "LET"              -> Statement[3]
             [] Statement[1] \in {"IF", "ELSEIF"} -> Statement[2][1]
             [] OTHER                             -> Statement[2]
\* The stack once the statement at hand has been taken.
Taken == [frames EXCEPT ![1].todo = Tail(@)]

Finish(v) == verdict' = v /\ frames' = <<>> /\ UNCHANGED env
\* Every exception ends the contract with FALSE.
Abort(v)  == Finish(IF v = Crash THEN Crash ELSE False)

\* Pay for the ticks, then stop or go on.
Pay(ticks, Continue) ==
    /\ UNCHANGED script
    /\ count' = count + ticks
    /\ IF count' > MaxInstructions THEN Abort(Exception) ELSE Continue
Spend(e, Continue) == Pay(Overhead + e.ticks, IF Stops(e.v) THEN Abort(e.v) ELSE Continue)

Proceed(stack) == frames' = stack /\ UNCHANGED <<env, verdict>>

ExecLet(e) ==
    /\ HasNext("LET")
    /\ Spend(e, /\ env' = (Statement[2] :> e.v) @@ env
                /\ frames' = Taken /\ UNCHANGED verdict)

\* One condition of an IF.  A true one opens its block, which is one more tick; a
\* false one leaves the arms after it, of which the last may be the ELSE block.
Arms == Statement[2]
ExecIf(e) ==
    /\ HasNext("IF") \/ HasNext("ELSEIF")
    /\ Len(Arms) >= 2
    /\ LET later == SubSeq(Arms, 3, Len(Arms)) IN
       Spend([e EXCEPT !.ticks = @ + IF ~Stops(e.v) /\ IsTrue(e.v) THEN 1 ELSE 0],
             Proceed(CASE IsTrue(e.v)   -> <<Block(Arms[2][2])>> \o Taken
                       [] later = <<>>  -> Taken
                       [] OTHER         -> [frames EXCEPT ![1].todo[1] = <<"ELSEIF", later>>]))
ExecElse == HasNext("ELSEIF") /\ Len(Arms) = 1 /\ Pay(1, Proceed(<<Block(Arms[1][2])>> \o Taken))

ExecWhile == HasNext("WHILE") /\ Pay(Overhead, Proceed(<<Loop(Statement[2], Statement[3])>> \o Taken))

AtLoopHead == verdict = Running /\ Top.kind = "loop" /\ Top.todo = <<>>

\* Mutant: every round is given the whole allowance again.
NextRoundFree(e) ==
    /\ AtLoopHead
    /\ count' = 0 /\ UNCHANGED <<script, env, verdict>>
    /\ frames' = IF ~Stops(e.v) /\ IsTrue(e.v) THEN [frames EXCEPT ![1].todo = Top.body] ELSE Tail(frames)
\* The head of the loop: the round is counted and paid for before the condition.
NextRound(e) ==
    /\ AtLoopHead
    /\ IF Top.rounds = MaxLoop THEN Pay(0, Abort(Exception))
       ELSE Spend(e, Proceed(IF IsTrue(e.v)
                             THEN [frames EXCEPT ![1].todo = Top.body, ![1].rounds = @ + 1]
                             ELSE Tail(frames)))

\* Mutant: RETURN leaves only the innermost frame.
BelowTop == Tail(frames)
\* The frames below the run the statement belongs to.
BelowRun == LET depth == CHOOSE d \in DOMAIN frames : /\ frames[d].kind = "run"
                                                      /\ \A c \in 1..d - 1 : frames[c].kind # "run"
            IN  SubSeq(frames, depth + 1, Len(frames))

\* RETURN ends the run it stands in, and the contract when that is the script.
ExecReturn(e) ==
    /\ HasNext("RETURN")
    /\ Spend(e, IF BelowRun = <<>> THEN Finish(e.v) ELSE Proceed(BelowRun))

ExecAssert(e) ==
    /\ HasNext("ASSERT")
    /\ Spend(e, IF IsTrue(e.v) THEN Proceed(Taken) ELSE Abort(Exception))

\* EXEC, and MAST, which is EXEC: the script runs on the same variables.
Execute(p) == IF p.ok THEN Proceed(<<Run(p.node)>> \o Taken) ELSE Abort(Exception)
ExecExec(e) ==
    /\ HasNext("EXEC") \/ HasNext("MAST")
    /\ Spend(e, IF Type(e.v) = "SCRIPT" THEN Execute(Parse(e.v[2])) ELSE Abort(Exception))

\* Only in a run is the value of an expression kept.
ExprStmt(e) ==
    /\ HasNext("EXPR")
    /\ Spend(e, Proceed(IF Top.kind = "run" THEN [Taken EXCEPT ![1].last = e.v] ELSE Taken))

\* The end of a block, of a script under EXEC, whose value is dropped, and of the
\* contract.
EndOfFrame ==
    /\ verdict = Running /\ Top.kind # "loop" /\ Top.todo = <<>>
    /\ UNCHANGED <<script, count>>
    /\ IF Len(frames) = 1 THEN Finish(Top.last) ELSE Proceed(Tail(frames))

\* A contract with a verdict is over: anything else that cannot go on is stuck.
Terminated == verdict # Running /\ UNCHANGED vars

\* The steps that begin with a value.
Evaluates(e) == \/ ExecLet(e) \/ ExecIf(e) \/ NextRound(e) \/ ExecReturn(e)
                \/ ExecAssert(e) \/ ExecExec(e) \/ ExprStmt(e)

Next == Evaluates(Eval(Operand, env)) \/ ExecElse \/ ExecWhile \/ EndOfFrame \/ Terminated

Spec == Init /\ [][Next]_vars

\* isTrue, what the validator asks of a contract.
Accepted == verdict \notin {Running, Crash} /\ IsTrue(verdict)
-----------------------------------------------------------------------------
(* What the VM promises, against definitions of its own: scripts are       *)
(* written from syntax trees by the precedence of the grammar in Parser.hpp*)
(* and given a meaning without frames, ticks or limits; laws are scripts   *)
(* that must be accepted, or must not.                                     *)

Num(i, places)   == <<"num", i, places>>
Bool(b)          == <<"bool", b>>
HexLit(bytes)    == <<"hex", bytes>>
Str(source)      == <<"str", source>>
Var(name)        == <<"VAR", name>>
Bin(op, l, r)    == <<"BINARY", op, l, r>>
Un(op, x)        == <<"UNARY", op, x>>
Fun(name, args)  == <<"CALL", name, args>>
Program(stmts)   == <<"PROGRAM", stmts>>

-----------------------------------------------------------------------------
(* Writing a tree, with the parentheses it needs and no others.            *)

OpLexeme(op) == IF op \in {"+", "-", "*", "/", "%"} THEN Sym(op) ELSE Kw(op)
LevelOf(node) ==
    CASE node[1] = "BINARY" -> CHOOSE l \in DOMAIN Operators : OpLexeme(node[2]) \in Operators[l]
      [] node[1] = "UNARY"  -> IF node[2] = "NOT" THEN NotLevel ELSE UnaryLevel
      [] OTHER              -> UnaryLevel + 1

RECURSIVE Write(_, _), WriteArgs(_)
Write(node, level) ==
    LET l == LevelOf(node)
        name == IF node[2] \in {"@STATE1", "@PREVSTATE1", "@TOTIN", "@TOTOUT", "@AMOUNT", "@ADDRESS", "@SCRIPT"}
                THEN <<"env", node[2]>> ELSE <<"id", node[2]>>
        text == CASE node[1] = "BINARY" -> Write(node[3], l) \o <<OpLexeme(node[2])>> \o Write(node[4], l + 1)
                  [] node[1] = "UNARY"  -> <<OpLexeme(node[2])>> \o
                                           Write(node[3], IF l = NotLevel THEN l ELSE l + 1)
                  [] node[1] = "VAR"    -> <<name>>
                  [] node[1] = "CALL"   -> <<<<"id", node[2]>>, Sym("(")>> \o WriteArgs(node[3]) \o <<Sym(")")>>
                  [] OTHER              -> <<node>>
    IN  IF l < level THEN <<Sym("(")>> \o text \o <<Sym(")")>> ELSE text
WriteArgs(args) ==
    IF args = <<>> THEN <<>>
    ELSE Write(Head(args), 1) \o (IF Len(args) > 1 THEN <<Sym(",")>> ELSE <<>>) \o WriteArgs(Tail(args))

RECURSIVE WriteBlock(_), WriteArms(_, _)
WriteStatement(s) ==
    CASE s[1] = "LET"   -> <<Kw("LET"), Write(Var(s[2]), 1)[1], Sym("=")>> \o Write(s[3], 1)
      [] s[1] = "IF"    -> <<Kw("IF")>> \o WriteArms(s[2], 1)
      [] s[1] = "WHILE" -> <<Kw("WHILE")>> \o Write(s[2], 1) \o <<Kw("DO")>>
                           \o WriteBlock(s[3]) \o <<Kw("ENDWHILE")>>
      [] s[1] = "EXPR"  -> Write(s[2], 1)
      [] OTHER          -> <<Kw(s[1])>> \o Write(s[2], 1)
WriteArms(children, i) ==
    CASE Len(children) < i -> <<Kw("ENDIF")>>
      [] Len(children) = i -> <<Kw("ELSE")>> \o WriteBlock(children[i][2]) \o <<Kw("ENDIF")>>
      [] OTHER -> (IF i > 1 THEN <<Kw("ELSEIF")>> ELSE <<>>) \o Write(children[i], 1) \o <<Kw("THEN")>>
                  \o WriteBlock(children[i + 1][2]) \o WriteArms(children, i + 2)
WriteBlock(stmts) ==
    IF stmts = <<>> THEN <<>> ELSE WriteStatement(Head(stmts)) \o WriteBlock(Tail(stmts))

\* A space after every token; a negative number is a minus that touches its digits.
Spell(token) == IF token[1] = "num" /\ token[2] < 0 THEN <<Minus_, <<"num", -token[2], token[3]>>>>
                ELSE <<token>>
Source(program) ==
    FlattenSeq(LET tokens == WriteBlock(program[2])
               IN  [i \in DOMAIN tokens |-> Append(Spell(tokens[i]), <<"blank">>)])

-----------------------------------------------------------------------------
(* The meaning of a block: how it ends, with which variables, and the value*)
(* of its last expression.                                                 *)

Ends(how, v, e, last) == [how |-> how, v |-> v, env |-> e, last |-> last]
Goes(e, last)         == Ends("next", Running, e, last)

RECURSIVE Meaning(_, _, _)

Subject(s) == CASE s[1] = "LET" -> s[3]
                [] s[1] = "IF"  -> s[2][1]
                [] OTHER        -> s[2]

AndThen(m, stmts) == IF m.how = "next" THEN Meaning(stmts, m.env, m.last) ELSE m
\* A block keeps the value of the last expression before it.
In(block, e, last) == [Meaning(block, e, last) EXCEPT !.last = last]
\* A script under EXEC may return, and the statement after it is next.
Under(m, last) == IF m.how = "stop" THEN m ELSE Goes(m.env, last)

\* What s, whose condition or operand is v, means when rest comes after it.
MeaningOf(s, v, rest, e, last) ==
    CASE s[1] = "IF" /\ Len(s[2]) = 1 -> AndThen(In(s[2][1][2], e, last), rest)
      [] Stops(v) -> Ends("stop", v, e, last)
      [] s[1] = "IF" -> IF IsTrue(v) THEN AndThen(In(s[2][2][2], e, last), rest)
                        ELSE Meaning((IF Len(s[2]) = 2 THEN <<>>
                                      ELSE <<<<"IF", SubSeq(s[2], 3, Len(s[2]))>>>>) \o rest, e, last)
      [] s[1] = "WHILE"  -> IF IsTrue(v) THEN AndThen(In(s[3], e, last), <<s>> \o rest) ELSE Meaning(rest, e, last)
      [] s[1] = "EXPR"   -> Meaning(rest, e, v)
      [] s[1] = "LET"    -> Meaning(rest, (s[2] :> v) @@ e, last)
      [] s[1] = "RETURN" -> Ends("return", v, e, last)
      [] s[1] = "ASSERT" -> IF IsTrue(v) THEN Meaning(rest, e, last) ELSE Ends("stop", Exception, e, last)
      [] Type(v) = "SCRIPT" /\ Parse(v[2]).ok ->
             AndThen(Under(Meaning(Parse(v[2]).node[2], e, False), last), rest)
      [] OTHER -> Ends("stop", Exception, e, last)

Meaning(stmts, e, last) ==
    IF stmts = <<>> THEN Goes(e, last)
    ELSE MeaningOf(Head(stmts), Eval(Subject(Head(stmts)), e).v, Tail(stmts), e, last)

\* The verdict a script deserves.
Outcome(m) == CASE m.how = "next"   -> m.last
                [] m.how = "return" -> m.v
                [] OTHER            -> IF m.v = Crash THEN Crash ELSE False
Deserved == Outcome(Meaning(script.program[2], SetupEnvironment(script), False))

-----------------------------------------------------------------------------
(* Reading inverts writing: precedence, associativity, unary minus and     *)
(* negative numbers, the arms of an IF and nested blocks come back as the  *)
(* tree they were written from (Parser::parseOr to parsePrimary, parseIf,  *)
(* parseWhile).                                                            *)
ParseInvertsWriting ==
    count = 0 => Parse(script.source) = Parsed(script.program, <<>>)

(* The verdict is what the script means: through nested blocks, loops and  *)
(* scripts under EXEC that share the variables, RETURN ends exactly the    *)
(* script it stands in and a failed ASSERT or function the whole contract; *)
(* a contract that overruns the instruction limit is FALSE and nothing     *)
(* else (Interpreter::execute, Contract::execute).                         *)
VerdictIsMeaning ==
    verdict # Running =>
        IF count > MaxInstructions THEN verdict = False ELSE verdict = Deserved

(* Every contract ends, also one that loops on TRUE or executes itself: no  *)
(* step gives ticks back, a step is paid for or leaves a frame, and nothing*)
(* runs on past the limit, so that at most 2 * (MaxInstructions + 1) steps *)
(* are taken (Interpreter::tick in every statement, round and expression). *)
EveryStepIsPaid ==
    [][/\ count' > count \/ (count' = count /\ Len(frames') < Len(frames))
       /\ count' > MaxInstructions => verdict' # Running]_vars

(* A law is a script that must be accepted, or one that must not.  Numbers:*)
(* arithmetic and comparison at different scales agree with the exact      *)
(* result, rounded once (MiniNumber).  Bytes: slices, insertions, bits and *)
(* conversions undo and compose as operations on sequences do, at every    *)
(* position up to the ends (SUBSET, OVERWRITE, BITSET, REPLACE, SETLEN,    *)
(* CLEAN and the others).  Coins: what a script reads of its transaction   *)
(* is what the transaction holds: amounts by token, coins by index,        *)
(* signatures by key, proofs of MMR leaves for their own leaf and root.    *)
BuiltinsKeepTheirLaws ==
    script.law # "none" /\ verdict # Running => (Accepted <=> script.accept)
=============================================================================
