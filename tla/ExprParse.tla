----------------------------- MODULE ExprParse -----------------------------
(***************************************************************************)
(* The parser of ${{ }} expressions (internal/expression/expr_parser.go):  *)
(* its recursive descent over every short sequence of tokens, against the  *)
(* grammar it is meant to implement, stated by splitting a sequence at its *)
(* operators.                                                              *)
(*                                                                         *)
(* Numbers and strings are primaries like a name that is not called; "=="  *)
(* stands for the six comparisons and a name after "." also for "*".       *)
(***************************************************************************)
EXTENDS Naturals, Sequences, FiniteSets

CONSTANTS MaxTokens, MaxLevels   \* 50 levels in the code

VARIABLE tokens

Kinds == {"id", "(", ")", ",", "!", "==", "&&", "||", ".", "[", "]"}

ExprInit == tokens = <<>>
ExprNext == /\ Len(tokens) < MaxTokens
            /\ \E k \in Kinds : tokens' = Append(tokens, k)

-----------------------------------------------------------------------------
\* The current token of the parser at position i.
Peek(i) == IF i <= Len(tokens) THEN tokens[i] ELSE "end"

\* A parse function returns the tree and the position behind it, or Failed.
Result(tree, at) == [tree |-> tree, at |-> at]
Failed == Result(<<>>, 0)
IsFailed(r) == r.at = 0

RECURSIVE parseLogicalOr(_), parseLogicalAnd(_), parseCompareBinOp(_),
          parsePrefixOp(_), parsePostfixOp(_), parseArgs(_)

\* The arguments from i on, up to ")".
parseArgs(i) ==
  LET arg == parseLogicalOr(i) IN
  IF IsFailed(arg) THEN Failed
  ELSE CASE Peek(arg.at) = ")" -> Result(<<arg.tree>>, arg.at + 1)
         [] Peek(arg.at) = "," ->
              LET rest == parseArgs(arg.at + 1) IN
              IF IsFailed(rest) THEN Failed
              ELSE Result(<<arg.tree>> \o rest.tree, rest.at)
         [] OTHER -> Failed

parseIdent(i) ==
  IF Peek(i + 1) # "(" THEN Result(<<"id">>, i + 1)
  ELSE IF Peek(i + 2) = ")" THEN Result(<<"call">>, i + 3)
  ELSE LET args == parseArgs(i + 2) IN
       IF IsFailed(args) THEN Failed
       ELSE Result(<<"call">> \o args.tree, args.at)

parseNestedExpr(i) ==
  LET nested == parseLogicalOr(i + 1) IN
  IF ~IsFailed(nested) /\ Peek(nested.at) = ")"
  THEN Result(nested.tree, nested.at + 1) ELSE Failed

parsePrimaryExpr(i) == CASE Peek(i) = "id" -> parseIdent(i)
                         [] Peek(i) = "(" -> parseNestedExpr(i)
                         [] OTHER -> Failed

\* The loop of parsePostfixOp, from a receiver on.
RECURSIVE Postfix(_)
Postfix(r) ==
  CASE IsFailed(r) -> Failed
    [] Peek(r.at) = "." ->
         IF Peek(r.at + 1) = "id"
         THEN Postfix(Result(<<".", r.tree>>, r.at + 2)) ELSE Failed
    [] Peek(r.at) = "[" ->
         LET index == parseLogicalOr(r.at + 1) IN
         IF ~IsFailed(index) /\ Peek(index.at) = "]"
         THEN Postfix(Result(<<"[", r.tree, index.tree>>, index.at + 1))
         ELSE Failed
    [] OTHER -> r

parsePostfixOp(i) == Postfix(parsePrimaryExpr(i))

parsePrefixOp(i) ==
  IF Peek(i) # "!" THEN parsePostfixOp(i)
  ELSE LET operand == parsePrefixOp(i + 1) IN
       IF IsFailed(operand) THEN Failed
       ELSE Result(<<"!", operand.tree>>, operand.at)

\* What the three binary levels share: left, operator, right.
Binary(op, left, right) == IF IsFailed(right) THEN Failed
                           ELSE Result(<<op, left.tree, right.tree>>, right.at)

parseCompareBinOp(i) ==
  LET left == parsePrefixOp(i) IN
  IF IsFailed(left) \/ Peek(left.at) # "==" THEN left
  ELSE Binary("==", left, parseCompareBinOp(left.at + 1))

\* Mutant of RightOfAnd: the level of "||".
RightOfAndLoose(i) == parseLogicalOr(i)

RightOfAnd(i) == parseLogicalAnd(i)

parseLogicalAnd(i) ==
  LET left == parseCompareBinOp(i) IN
  IF IsFailed(left) \/ Peek(left.at) # "&&" THEN left
  ELSE Binary("&&", left, RightOfAnd(left.at + 1))

parseLogicalOr(i) ==
  LET left == parseLogicalAnd(i) IN
  IF IsFailed(left) \/ Peek(left.at) # "||" THEN left
  ELSE Binary("||", left, parseLogicalOr(left.at + 1))

Children(tree) == {tree[k] : k \in 2..Len(tree)}

\* Mutant of SharesLevel: every operator of a chain counts.
SharesLevelNever(node, child) == FALSE

\* Adjacent logical operators of one kind share a level.
SharesLevel(node, child) == node[1] \in {"&&", "||"} /\ child[1] = node[1]

\* expressionExceedingDepth.  The entries stand for the nodes on its stack.
RECURSIVE Exceeds(_)
Exceeds(entries) ==
  /\ entries # {}
  /\ \/ \E e \in entries : e.depth > MaxLevels
     \/ Exceeds(UNION {
          {[node |-> child,
            depth |-> IF SharesLevel(e.node, child) THEN e.depth ELSE e.depth + 1] :
             child \in Children(e.node)} : e \in entries})

\* Parse: the tree, or <<>> for an error.
Parse ==
  LET root == parseLogicalOr(1) IN
  IF \/ IsFailed(root)
     \/ root.at <= Len(tokens)
     \/ Exceeds({[node |-> root.tree, depth |-> 1]})
  THEN <<>> ELSE root.tree

-----------------------------------------------------------------------------
\* The grammar.  Brackets that are open before position k of s.
Open(s, k) == Cardinality({j \in 1..(k - 1) : s[j] \in {"(", "["}})
                - Cardinality({j \in 1..(k - 1) : s[j] \in {")", "]"}})

\* The outermost occurrences of op.
Outer(s, op) == {k \in 1..Len(s) : s[k] = op /\ Open(s, k) = 0}
First(ks) == CHOOSE k \in ks : \A j \in ks : k <= j
Last(ks) == CHOOSE k \in ks : \A j \in ks : k >= j
Part(s, i, j) == SubSeq(s, i, j)

\* An expression is split at its loosest outer operator, a chain of one
\* operator at the first; what is left is a negation, an access or a primary.
RECURSIVE Tree(_), Access(_), Arguments(_)

\* <<>> if a part is not an expression.
Join(op, parts) == IF <<>> \in {parts[k] : k \in DOMAIN parts} THEN <<>>
                   ELSE <<op>> \o parts

Loosest(s) == CASE Outer(s, "||") # {} -> "||"
                [] Outer(s, "&&") # {} -> "&&"
                [] Outer(s, "==") # {} -> "=="
                [] OTHER -> "none"

Tree(s) ==
  IF Loosest(s) # "none"
  THEN LET k == First(Outer(s, Loosest(s))) IN
       Join(Loosest(s), <<Tree(Part(s, 1, k - 1)), Tree(Part(s, k + 1, Len(s)))>>)
  ELSE CASE s = <<>> -> <<>>
         [] s[1] = "!" -> Join("!", <<Tree(Tail(s))>>)
         [] OTHER -> Access(s)

\* The arguments of a call, split at the outer commas; "bad" if one is none.
Arguments(s) ==
  IF Outer(s, ",") = {}
  THEN IF Tree(s) = <<>> THEN <<"bad">> ELSE <<Tree(s)>>
  ELSE LET k == First(Outer(s, ",")) IN
       IF Tree(Part(s, 1, k - 1)) = <<>> THEN <<"bad">>
       ELSE <<Tree(Part(s, 1, k - 1))>> \o Arguments(Part(s, k + 1, Len(s)))

Access(s) ==
  LET n == Len(s)
      opens == {k \in 1..n : s[k] \in {"(", "["} /\ Open(s, k) = 0}
      k == Last(opens)
  IN CASE s = <<"id">> -> <<"id">>
       [] n >= 3 /\ s[n] = "id" /\ s[n - 1] = "." ->
            Join(".", <<Access(Part(s, 1, n - 2))>>)
       [] n >= 3 /\ s[n] = "]" /\ opens # {} /\ s[k] = "[" ->
            Join("[", <<Access(Part(s, 1, k - 1)), Tree(Part(s, k + 1, n - 1))>>)
       [] n >= 3 /\ s[n] = ")" /\ opens = {1} /\ s[1] = "(" ->
            Tree(Part(s, 2, n - 1))
       [] n = 3 /\ s = <<"id", "(", ")">> -> <<"call">>
       [] n >= 4 /\ s[n] = ")" /\ opens = {2} /\ s[2] = "(" /\ s[1] = "id" ->
            LET args == Arguments(Part(s, 3, n - 1)) IN
            IF \E j \in DOMAIN args : args[j] = "bad" THEN <<>>
            ELSE <<"call">> \o args
       [] OTHER -> <<>>

\* The levels of a tree.
RECURSIVE Levels(_, _)
Levels(tree, parent) ==
  LET below == {Levels(child, tree[1]) : child \in Children(tree)}
      most == IF below = {} THEN 0 ELSE Last(below)
  IN IF tree[1] = parent /\ parent \in {"&&", "||"} THEN most ELSE most + 1

\* Every sequence of tokens is accepted exactly if it is an expression of at
\* most MaxLevels levels, with the tree that the precedence of the operators
\* gives it.
ParserIsExact ==
  Parse = LET tree == Tree(tokens) IN
          IF tree = <<>> \/ Levels(tree, "none") > MaxLevels
          THEN <<>> ELSE tree
=============================================================================
