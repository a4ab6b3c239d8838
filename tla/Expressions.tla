---------------------------- MODULE Expressions ----------------------------
(***************************************************************************)
(* What expressions are worth (src/execution/expression-evaluator.ts), and *)
(* the text that names them in a result (expression-formatter.ts).         *)
(***************************************************************************)
EXTENDS Parser, Scalars

(* Evaluation.  The row is the context: it resolves a column.                *)

RECURSIVE EvaluateScalar(_, _), EvaluatePredicate(_, _)

(* A column the context does not know is an error.                           *)
EvaluateScalar(e, row) ==
  CASE e.type = "literal" -> e.value
    [] e.type = "column" -> IF e \in DOMAIN row THEN row[e] ELSE Error
    [] e.type = "unary" -> EvaluateUnary(e.operator, EvaluateScalar(e.operand, row))
    [] e.type = "arithmetic" ->
         EvaluateArithmetic(e.operator, EvaluateScalar(e.left, row),
                            EvaluateScalar(e.right, row))
    [] e.type \in {"comparison", "logical", "null_check"} ->
         ScalarFromPredicate(EvaluatePredicate(e, row))
    [] e.type = "aggregate" -> Error

EvaluatePredicate(e, row) ==
  CASE e.type = "comparison" ->
         EvaluateComparison(e.operator, EvaluateScalar(e.left, row),
                            EvaluateScalar(e.right, row))
    [] e.type = "logical" ->
         EvaluateLogical(e.operator, EvaluatePredicate(e.left, row),
                         EvaluatePredicate(e.right, row))
    [] e.type = "null_check" ->
         LET v == EvaluateScalar(e.operand, row)
         IN  IF v = Error THEN "ERROR" ELSE TruthValueFromBoolean((v = Null) # e.negated)
    [] OTHER -> TruthOfValue(EvaluateScalar(e, row))

----------------------------------------------------------------------------
(* Labels.                                                                   *)

(* Variant: a sign binds as a sum does.                                      *)
SignsLikeSums(e) ==
  CASE e.type = "logical" -> IF e.operator = "OR" THEN 1 ELSE 2
    [] e.type \in {"comparison", "null_check"} -> 3
    [] e.type = "unary" -> 4
    [] e.type = "arithmetic" -> IF e.operator \in {"+", "-"} THEN 4 ELSE 5
    [] OTHER -> 7

Precedence(e) ==
  CASE e.type = "logical" -> IF e.operator = "OR" THEN 1 ELSE 2
    [] e.type \in {"comparison", "null_check"} -> 3
    [] e.type = "arithmetic" -> IF e.operator \in {"+", "-"} THEN 4 ELSE 5
    [] e.type = "unary" -> 6
    [] OTHER -> 7

(* String(value) of a number: from 1e21 on it has an exponent, and numerals  *)
(* too large for a double have become Infinity.  The two bounds are scaled   *)
(* down.  A negative number, which only a computed value is, is not written. *)
ExponentFrom == 100
InfiniteFrom == 1000

RECURSIVE DecimalText(_)
DecimalText(n) ==
  (IF n < 10 THEN <<>> ELSE DecimalText(n \div 10))
    \o <<CHOOSE c \in Digits : DigitValue[c] = n % 10>>

ExponentText(n) ==
  LET digits == DecimalText(n)
      fraction == SubSeq(digits, 2, Max({i \in DOMAIN digits : digits[i] # "0"}))
  IN  <<digits[1]>> \o (IF fraction = <<>> THEN <<>> ELSE <<".">> \o fraction)
        \o <<"e", "+">> \o DecimalText(Len(digits) - 1)

NumberText(n) ==
  IF n >= InfiniteFrom THEN <<"Infinity">>
  ELSE IF n >= ExponentFrom THEN ExponentText(n)
  ELSE DecimalText(n)

FormatLiteral(v) ==
  CASE v = Null -> <<"NULL">>
    [] IsBoolean(v) -> IF v[2] THEN <<"TRUE">> ELSE <<"FALSE">>
    [] IsNumber(v) -> NumberText(v[2])
    [] OTHER -> <<"'">>
         \o FoldLeft(LAMBDA s, c : s \o IF c = "'" THEN <<c, c>> ELSE <<c>>, <<>>, v[2])
         \o <<"'">>

FormatColumn(e) ==
  IF e.qualifier = Unqualified THEN e.name ELSE e.qualifier \o <<".">> \o e.name

OperatorText(op) ==
  CASE op = "!=" -> <<"!", "=">>
    [] op = ">=" -> <<">", "=">>
    [] op = "<=" -> <<"<", "=">>
    [] OTHER -> <<op>>

RECURSIVE Format(_, _)

(* The right operand has parentheses when it is grouped like the left one.   *)
Format(e, parent) ==
  LET own == Precedence(e)
      rendered ==
        CASE e.type = "literal" -> FormatLiteral(e.value)
          [] e.type = "column" -> FormatColumn(e)
          [] e.type = "aggregate" ->
               <<e.function, "(">> \o (IF e.argument = Wildcard THEN <<"*">>
                                       ELSE FormatColumn(e.argument)) \o <<")">>
          [] e.type = "unary" -> <<e.operator>> \o Format(e.operand, own)
          [] e.type = "null_check" ->
               Format(e.operand, own) \o <<" ", "IS", " ">>
                 \o (IF e.negated THEN <<"NOT", " ">> ELSE <<>>) \o <<"NULL">>
          [] OTHER -> Format(e.left, own) \o <<" ">> \o OperatorText(e.operator) \o <<" ">>
                        \o Format(e.right, own + 1)
  IN  IF own < parent THEN <<"(">> \o rendered \o <<")">> ELSE rendered

FormatExpression(e) == Format(e, 0)

RECURSIVE Subexpressions(_)
Subexpressions(e) ==
  {e} \cup CASE e.type \in {"unary", "null_check"} -> Subexpressions(e.operand)
             [] e.type \in {"arithmetic", "comparison", "logical"} ->
                  Subexpressions(e.left) \cup Subexpressions(e.right)
             [] OTHER -> {}
============================================================================
