----------------------------- MODULE ParseExpr -----------------------------
(***************************************************************************)
(* parse_expr.c: a recursive-descent parser that prints a program for a     *)
(* stack machine, the assembler that reads it, and its execution.          *)
(*                                                                         *)
(* The parser's functions are one recursive function on a nonterminal and   *)
(* an index.  Of the layout of the output it matters whether a piece of     *)
(* text begins and ends a line, because some do not.  A label is named by   *)
(* the index of its `?' instead of a number of its own.                    *)
(***************************************************************************)
EXTENDS Integers, Sequences, FiniteSetsExt

CONSTANTS Digits,    \* the digits that are typed, characters to their values
          MaxLength, \* characters of an expression
          Word,      \* 2^64 in the program
          Half       \* 2^32 in the program: printf shows an int

Operators == {"+", "-", "*", "/", "?", ":"}

Chars == DOMAIN Digits \cup Operators \cup {"(", ")"}

ASSUME ExprAssumption ==
  /\ MaxLength \in Nat /\ Half \in Nat \ {0} /\ Word \in Nat \ {0} /\ Word % Half = 0
  /\ \A d \in DOMAIN Digits : Digits[d] \in 0 .. Half - 1
  /\ DOMAIN Digits \cap (Operators \cup {"(", ")", "null"}) = {}

---------------------------------------------------------------------------
(* The parser.                                                             *)

Instr(op, arg) == [op |-> op, arg |-> arg]

BeginsLine(instr) == instr.op \notin {"end", "footer"}
EndsLine(instr)   == instr.op \notin {"push", "neg"}

\* get_char; the string is followed by its null character.
CharAt(str, i) == IF i <= Len(str) THEN str[i] ELSE "null"

\* What a parse function comes back with: where it stopped, what it printed, and
\* whether it has quit there.
Stop(i)       == [ok |-> FALSE, at |-> i, code |-> <<>>]
Parsed(i, code) == [ok |-> TRUE, at |-> i, code |-> code]

\* One thing after the other; the second may depend on where the first stopped.
After(r, s) == IF ~r.ok THEN r ELSE [s EXCEPT !.code = r.code \o @]

Match(str, i, c) == IF CharAt(str, i) = c THEN Parsed(i + 1, <<>>) ELSE Stop(i)

OpOf(c) == CASE c = "+" -> "add" [] c = "-" -> "sub" [] c = "*" -> "mul" [] c = "/" -> "div"

\* The loop of parse_add_exp or parse_mul_exp, from the operator on.
OpLoop(str, p, i, ops, operand, loop) ==
  IF CharAt(str, i) \notin ops THEN Parsed(i, <<>>)
  ELSE LET r == p[<<operand, i + 1>>]
           op == Parsed(r.at, <<Instr(OpOf(CharAt(str, i)), 0)>>)
       IN After(r, After(op, p[<<loop, r.at>>]))

CondExp(str, p, i) ==
  LET test == p[<<"add", i>>] IN
  IF ~test.ok \/ CharAt(str, test.at) # "?" THEN test
  ELSE LET q    == test.at
           then == p[<<"add", q + 1>>]
           colon == Match(str, then.at, ":")
           else == p[<<"add", colon.at>>]
       IN After(test,
          After(Parsed(q + 1, <<Instr("jz", q)>>),
          After(then,
          After(Parsed(then.at, <<Instr("jmp", q)>>),
          After(colon,
          After(Parsed(colon.at, <<Instr("else", q)>>),
          After(else, Parsed(else.at, <<Instr("end", q)>>))))))))

\* An even number of minus signs is left out.
UMinusExp(str, p, i) ==
  LET n == CHOOSE k \in i .. Len(str) + 1 :
             CharAt(str, k) # "-" /\ \A j \in i .. k - 1 : CharAt(str, j) = "-"
      r == p[<<"factor", n>>]
  IN IF (n - i) % 2 = 1 THEN After(r, Parsed(r.at, <<Instr("neg", 0)>>)) ELSE r

Factor(str, p, i) ==
  LET c == CharAt(str, i)
      r == p[<<"cond", i + 1>>]
  IN IF c \in DOMAIN Digits THEN Parsed(i + 1, <<Instr("push", Digits[c])>>)
     ELSE IF c = "(" THEN After(r, Match(str, r.at, ")")) ELSE Stop(i)

Nonterminals == {"cond", "add", "addLoop", "mul", "mulLoop", "uminus", "factor"}

\* What a nonterminal makes of str from i on, p being what each makes of it from
\* anywhere.
Parse(str, p, what, i) ==
  CASE what = "cond"    -> CondExp(str, p, i)
    [] what = "add"     -> LET r == p[<<"mul", i>>] IN IF r.ok THEN After(r, p[<<"addLoop", r.at>>]) ELSE r
    [] what = "addLoop" -> OpLoop(str, p, i, {"+", "-"}, "mul", "addLoop")
    [] what = "mul"     -> LET r == p[<<"uminus", i>>] IN IF r.ok THEN After(r, p[<<"mulLoop", r.at>>]) ELSE r
    [] what = "mulLoop" -> OpLoop(str, p, i, {"*", "/"}, "uminus", "mulLoop")
    [] what = "uminus"  -> UMinusExp(str, p, i)
    [] what = "factor"  -> Factor(str, p, i)

\* parse_exp.
ParseExp(str) ==
  LET p[x \in Nonterminals \X (1 .. Len(str) + 1)] == Parse(str, p, x[1], x[2])
      r == p[<<"cond", 1>>]
  IN After(After(r, Match(str, r.at, "null")), Parsed(Len(str) + 1, <<Instr("footer", 0)>>))

\* The assembler takes the output if no piece goes on in the line of another.
Assembles(code) ==
  \A k \in 1 .. Len(code) - 1 : EndsLine(code[k]) \/ BeginsLine(code[k + 1])

---------------------------------------------------------------------------
(* The run: the user types, the program compiles, the code is executed.    *)

VARIABLES str,    \* the characters typed
          phase,  \* "typing", "quit", "rejected", "run", "trapped", "done"
          code, ip,
          stack,  \* the words pushed, the last on top
          shown   \* what printf shows

exprVars == <<str, phase, code, ip, stack, shown>>

\* A character after which the expression can still become a right one.
TypeChar ==
  /\ phase = "typing" /\ Len(str) < MaxLength
  /\ \E c \in Chars :
       /\ LET r == ParseExp(Append(str, c)) IN r.ok \/ r.at = Len(str) + 2
       /\ str' = Append(str, c)
  /\ UNCHANGED <<phase, code, ip, stack, shown>>

Compile ==
  /\ phase = "typing"
  /\ LET r == ParseExp(str) IN
       IF r.ok /\ Assembles(r.code) THEN phase' = "run" /\ code' = r.code
       ELSE phase' = (IF r.ok THEN "rejected" ELSE "quit") /\ UNCHANGED code
  /\ UNCHANGED <<str, ip, stack, shown>>

\* Mutation: the operands of subq are taken off in the other order.
ResultSwapped(op, a, b) ==
  CASE op = "add" -> (a + b) % Word
    [] op = "sub" -> (b - a) % Word
    [] op = "mul" -> (a * b) % Word
    [] op = "div" -> a \div b

\* addq, subq, mulq (its low word) and divq, which takes its operands as unsigned.
Result(op, a, b) ==
  CASE op = "add" -> (a + b) % Word
    [] op = "sub" -> (a - b) % Word
    [] op = "mul" -> (a * b) % Word
    [] op = "div" -> a \div b

\* Where a jump to a label goes.
Target(label, q) == CHOOSE k \in DOMAIN code : code[k] = Instr(label, q)

\* An int from the low half of a word.
Low(word) == LET h == word % Half IN IF h < Half \div 2 THEN h ELSE h - Half

Top == stack[Len(stack)]
Pop(n) == SubSeq(stack, 1, Len(stack) - n)

Push ==
  /\ phase = "run" /\ code[ip].op = "push"
  /\ stack' = Append(stack, code[ip].arg) /\ ip' = ip + 1
  /\ UNCHANGED <<str, phase, code, shown>>

Negate ==
  /\ phase = "run" /\ code[ip].op = "neg"
  /\ stack' = Append(Pop(1), (-Top) % Word) /\ ip' = ip + 1
  /\ UNCHANGED <<str, phase, code, shown>>

Binary ==
  /\ phase = "run" /\ code[ip].op \in {"add", "sub", "mul", "div"}
  /\ ~(code[ip].op = "div" /\ Top = 0)
  /\ stack' = Append(Pop(2), Result(code[ip].op, stack[Len(stack) - 1], Top))
  /\ ip' = ip + 1
  /\ UNCHANGED <<str, phase, code, shown>>

DivideByZero ==
  /\ phase = "run" /\ code[ip].op = "div" /\ Top = 0
  /\ phase' = "trapped"
  /\ UNCHANGED <<str, code, ip, stack, shown>>

Jump ==
  /\ phase = "run"
  /\ \/ /\ code[ip].op = "jz"
        /\ ip' = IF Top = 0 THEN Target("else", code[ip].arg) ELSE ip + 1
        /\ stack' = Pop(1)
     \/ code[ip].op = "jmp" /\ ip' = Target("end", code[ip].arg) /\ UNCHANGED stack
     \/ code[ip].op \in {"else", "end"} /\ ip' = ip + 1 /\ UNCHANGED stack
  /\ UNCHANGED <<str, phase, code, shown>>

Footer ==
  /\ phase = "run" /\ code[ip].op = "footer"
  /\ shown' = Low(Top) /\ stack' = Pop(1) /\ phase' = "done"
  /\ UNCHANGED <<str, code, ip>>

ExprInit == str = <<>> /\ phase = "typing" /\ code = <<>> /\ ip = 1 /\ stack = <<>> /\ shown = 0

ExprNext ==
  TypeChar \/ Compile \/ Push \/ Negate \/ Binary \/ DivideByZero \/ Jump \/ Footer

ExprSpec == ExprInit /\ [][ExprNext]_exprVars

---------------------------------------------------------------------------
(* The value of an expression, by splitting it where it binds least: a      *)
(* definition of what the program should compute that knows no parser.     *)

Depth(s, k) == Cardinality({j \in 1 .. k - 1 : s[j] = "("})
               - Cardinality({j \in 1 .. k : s[j] = ")"})

\* The operators among ops in s[i .. j] outside the parentheses there; a minus
\* at the start or behind another operator is a sign.
Splits(s, i, j, ops) ==
  {k \in i + 1 .. j - 1 : /\ s[k] \in ops /\ Depth(s, k) = Depth(s, i)
                         /\ s[k - 1] \in DOMAIN Digits \cup {")"}}

Sign(n) == IF n < 0 THEN -1 ELSE 1
Abs(n)  == n * Sign(n)

\* C's division of signed numbers.
Divide(a, b) == Sign(a) * Sign(b) * (Abs(a) \div Abs(b))

\* A value; `plain' says that a word holds what was divided, as it is, and tells
\* what was tested from 0.
Computed(val, plain) == [val |-> val, plain |-> plain]

Combine(op, a, b) ==
  LET plain == a.plain /\ b.plain IN
  CASE op = "+" -> Computed(a.val + b.val, plain)
    [] op = "-" -> Computed(a.val - b.val, plain)
    [] op = "*" -> Computed(a.val * b.val, plain)
    [] op = "/" -> IF b.val = 0 THEN Computed(0, FALSE)
                   ELSE Computed(Divide(a.val, b.val),
                                 plain /\ a.val \in 0 .. Word - 1 /\ b.val \in 1 .. Word - 1)

Choose(test, then, else) ==
  LET taken == IF test.val # 0 THEN then ELSE else
  IN Computed(taken.val, taken.plain /\ test.plain /\ Abs(test.val) < Word)

\* The value of s[i .. j], v being those of its parts.
ValueAt(s, v, i, j) ==
  LET test     == Splits(s, i, j, {"?"})
      sums     == Splits(s, i, j, {"+", "-"})
      products == Splits(s, i, j, {"*", "/"})
      SplitAt(k) == Combine(s[k], v[<<i, k - 1>>], v[<<k + 1, j>>])
  IN IF test # {}
     THEN LET q == Max(test)
              colons == Splits(s, q + 1, j, {":"})
          IN IF colons = {} THEN Computed(0, FALSE)
             ELSE Choose(v[<<i, q - 1>>], v[<<q + 1, Max(colons) - 1>>], v[<<Max(colons) + 1, j>>])
     ELSE IF sums # {} THEN SplitAt(Max(sums))
     ELSE IF products # {} THEN SplitAt(Max(products))
     ELSE IF s[i] = "-" /\ i < j THEN LET a == v[<<i + 1, j>>] IN Computed(-a.val, a.plain)
     ELSE IF s[i] = "(" /\ i + 1 < j THEN v[<<i + 1, j - 1>>]
     ELSE IF s[i] \in DOMAIN Digits THEN Computed(Digits[s[i]], TRUE)
     ELSE Computed(0, FALSE)

Value(s) ==
  LET v[x \in (1 .. Len(s)) \X (1 .. Len(s))] == ValueAt(s, v, x[1], x[2]) IN v[<<1, Len(s)>>]

\* A program that runs to its end leaves nothing on the stack and shows the value
\* of the expression, whichever branches it took, and one that stops has divided by
\* zero: except where a number was divided or tested that is negative or too large
\* for a word, and the code saw another.
ExprComputed ==
  /\ phase = "done" => stack = <<>> /\ (Value(str).plain => shown = Low(Value(str).val % Word))
  /\ phase = "trapped" => ~Value(str).plain

=============================================================================
