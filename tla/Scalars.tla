------------------------------- MODULE Scalars -----------------------------
(***************************************************************************)
(* Values, truth values and the operators on them                          *)
(* (src/execution/expression-evaluator.ts and truth-value.ts).             *)
(*                                                                         *)
(* A value carries its JavaScript type, as literals do; Error stands for   *)
(* every ExecutionError, and "ERROR" for one of a predicate.  Numbers are  *)
(* integers, so a quotient is modelled where it is one, and nothing        *)
(* overflows.                                                              *)
(***************************************************************************)
EXTENDS Ast

Error == <<"error">>

IsNumber(v) == v[1] = "number"
IsBoolean(v) == v[1] = "boolean"

----------------------------------------------------------------------------
(* Truth values.                                                             *)

TruthValueFromBoolean(b) == IF b THEN "TRUE" ELSE "FALSE"

SqlAnd(left, right) ==
  IF "FALSE" \in {left, right} THEN "FALSE"
  ELSE IF "UNKNOWN" \in {left, right} THEN "UNKNOWN"
  ELSE "TRUE"

(* Variant: a truth value with an unknown operand is unknown.                *)
UnknownWins(left, right) ==
  IF "UNKNOWN" \in {left, right} THEN "UNKNOWN"
  ELSE IF "TRUE" \in {left, right} THEN "TRUE"
  ELSE "FALSE"

SqlOr(left, right) ==
  IF "TRUE" \in {left, right} THEN "TRUE"
  ELSE IF "UNKNOWN" \in {left, right} THEN "UNKNOWN"
  ELSE "FALSE"

(* The right operand is not evaluated when the left one decides, nor after   *)
(* an error.                                                                 *)
EvaluateLogical(op, left, right) ==
  IF left = "ERROR" THEN "ERROR"
  ELSE IF op = "AND" /\ left = "FALSE" THEN "FALSE"
  ELSE IF op = "OR" /\ left = "TRUE" THEN "TRUE"
  ELSE IF right = "ERROR" THEN "ERROR"
  ELSE IF op = "AND" THEN SqlAnd(left, right) ELSE SqlOr(left, right)

TruthValues == {"TRUE", "FALSE", "UNKNOWN"}

(* What three-valued logic says of two truth values: the lesser of the two   *)
(* for AND, the greater for OR, from FALSE over UNKNOWN to TRUE.             *)
Kleene(op, v, w) ==
  LET Rank == [FALSE |-> 0, UNKNOWN |-> 1, TRUE |-> 2]
      Least == IF Rank[v] <= Rank[w] THEN v ELSE w
      Greatest == IF Rank[v] <= Rank[w] THEN w ELSE v
  IN  IF op = "AND" THEN Least ELSE Greatest

(* An operand decides when the other one makes no difference.                *)
Decides(op, v) ==
  \A w1, w2 \in TruthValues : Kleene(op, v, w1) = Kleene(op, v, w2)

(* Three-valued logic from left to right: an error of the left operand is    *)
(* one of the whole, and so is one of the right operand unless the left one  *)
(* decides.                                                                  *)
ThreeValued(op, v, w) ==
  CASE v = "ERROR" -> "ERROR"
    [] v # "ERROR" /\ Decides(op, v) -> Kleene(op, v, "TRUE")
    [] v # "ERROR" /\ ~Decides(op, v) /\ w = "ERROR" -> "ERROR"
    [] OTHER -> Kleene(op, v, w)

PassesPredicate(truth) == truth = "TRUE"

ScalarFromPredicate(truth) ==
  CASE truth = "ERROR" -> Error
    [] truth = "UNKNOWN" -> Null
    [] OTHER -> Boolean(truth = "TRUE")

TruthOfValue(v) ==
  CASE v = Null -> "UNKNOWN"
    [] IsBoolean(v) -> TruthValueFromBoolean(v[2])
    [] OTHER -> "ERROR"

----------------------------------------------------------------------------
(* Operators on values.                                                      *)

Abs(n) == IF n < 0 THEN -n ELSE n
Sign(n) == IF n < 0 THEN -1 ELSE 1

Quotient(m, n) == Sign(m) * Sign(n) * (Abs(m) \div Abs(n))

(* The remainder has the sign of the dividend.                               *)
Remainder(m, n) == Sign(m) * (Abs(m) % Abs(n))

EvaluateUnary(op, v) ==
  IF v \in {Null, Error} THEN v
  ELSE IF ~IsNumber(v) THEN Error
  ELSE IF op = "-" THEN Number(-v[2]) ELSE v

EvaluateArithmetic(op, left, right) ==
  IF Error \in {left, right} THEN Error
  ELSE IF Null \in {left, right} THEN Null
  ELSE IF ~IsNumber(left) \/ ~IsNumber(right) THEN Error
  ELSE IF op \in {"/", "%"} /\ right = Number(0) THEN Error
  ELSE CASE op = "+" -> Number(left[2] + right[2])
         [] op = "-" -> Number(left[2] - right[2])
         [] op = "*" -> Number(left[2] * right[2])
         [] op = "/" -> Number(Quotient(left[2], right[2]))
         [] op = "%" -> Number(Remainder(left[2], right[2]))

(* The order that comparisons take texts in: by their characters.            *)
CharacterOrder == <<"A", "B", "T", "a", "b", "t">>
CharacterAt(text, i) ==
  IF i > Len(text) THEN 0
  ELSE CHOOSE k \in DOMAIN CharacterOrder : CharacterOrder[k] = text[i]

TextBefore(s, t) ==
  \E i \in 1..(Len(s) + 1) :
    /\ \A j \in 1..(i - 1) : CharacterAt(s, j) = CharacterAt(t, j)
    /\ CharacterAt(s, i) < CharacterAt(t, i)

Before(left, right) ==
  IF IsNumber(left) THEN left[2] < right[2] ELSE TextBefore(left[2], right[2])

(* "=" and "!=" take any two types, the orders two numbers or two texts.     *)
EvaluateComparison(op, left, right) ==
  IF Error \in {left, right} THEN "ERROR"
  ELSE IF Null \in {left, right} THEN "UNKNOWN"
  ELSE IF op = "=" THEN TruthValueFromBoolean(left = right)
  ELSE IF op = "!=" THEN TruthValueFromBoolean(left # right)
  ELSE IF IsBoolean(left) \/ IsBoolean(right) \/ left[1] # right[1] THEN "ERROR"
  ELSE CASE op = "<" -> TruthValueFromBoolean(Before(left, right))
         [] op = "<=" -> TruthValueFromBoolean(~Before(right, left))
         [] op = ">" -> TruthValueFromBoolean(Before(right, left))
         [] op = ">=" -> TruthValueFromBoolean(~Before(left, right))
============================================================================
