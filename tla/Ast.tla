-------------------------------- MODULE Ast --------------------------------
(***************************************************************************)
(* The nodes of expressions (src/parser/ast.ts).  An arithmetic, a         *)
(* comparison and a logical node have the same fields.                     *)
(***************************************************************************)
EXTENDS Lexer

(* What a statement may leave out: nothing, or one node.                     *)
Absent == <<>>
Present(node) == <<node>>

Literal(value) == [type |-> "literal", value |-> value]
Wildcard == [type |-> "wildcard"]

(* A column without a qualifier has the empty one.                           *)
Unqualified == <<>>
Column(qualifier, name) == [type |-> "column", qualifier |-> qualifier, name |-> name]

NullCheck(operand, negated) ==
  [type |-> "null_check", operand |-> operand, negated |-> negated]
Binary(type, op, left, right) ==
  [type |-> type, operator |-> op, left |-> left, right |-> right]

(* What reading comes to: a node, or the token that the error names.         *)
Parsed(node, at) == [ok |-> TRUE, node |-> node, at |-> at]
Wrong(at) == [ok |-> FALSE, node |-> Absent, at |-> at]
============================================================================
