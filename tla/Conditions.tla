----------------------------- MODULE Conditions -----------------------------
(***************************************************************************)
(* What is known of an "if" condition without running the workflow         *)
(* (internal/workflow/execution/condition.go and ConditionConstantValue in *)
(* internal/expression/condition_constant.go), against what the runner     *)
(* computes.  An expression is built in postfix order on a stack, and      *)
(* stands for what each recursive function of the code returns for it.     *)
(*                                                                         *)
(* The conversions of functions like format or join are left out: as far   *)
(* as the results tell, such a call is a literal when its arguments are    *)
(* known and a context otherwise.                                          *)
(***************************************************************************)
EXTENDS Naturals, Sequences

CONSTANTS
    MaxNodes,     \* nodes of an expression
    MaxOperands,  \* operands that wait for their operator
    Contents      \* the scalars that a context can hold

VARIABLES operands, nodes

condVars == <<operands, nodes>>

Statuses == {"success", "failure", "other"}

\* Where a condition is evaluated: the status of the job or the action, the
\* cancellation of the job, which composite actions see apart from their
\* status, and what a context holds.
Env == [status : Statuses, cancelled : BOOLEAN, context : Contents]

\* Values, as far as truth and comparison tell them apart.
Literals == {"null", "false", "true", "0", "1", "", "x", "{}"}

ASSUME ContentsAssumption == Contents \subseteq Literals \ {"{}"}

Falsy == {"null", "false", "0", ""}
Truthy(v) == v \notin Falsy                            \* ExpressionTruthy
Bool(b) == IF b THEN "true" ELSE "false"
KnownTruth(b) == IF b THEN "yes" ELSE "no"              \* knownConditionTruth
Calls == {"always", "success", "failure", "cancelled"}

\* ToNumber, with "nan" equal to nothing.
Number(v) == CASE v \in {"null", "false", "0", ""} -> "0"
               [] v \in {"true", "1"} -> "1"
               [] OTHER -> "nan"

\* The "==" of CompareConditionValues; two composites have no known result.
Equal(l, r) == IF {l, r} \subseteq {"", "x"} THEN l = r
               ELSE Number(l) = Number(r) /\ Number(l) # "nan"

\* For an expression: what the runner computes; ConditionConstantValue;
\* conditionStatusTruth; whether it calls a status function;
\* expressionRequiresSuccess; whether it is just "success()".
Node(value, const, truth, calls, requires, success) ==
  [value |-> value, const |-> const, truth |-> truth, calls |-> calls,
   requires |-> requires, success |-> success]

-----------------------------------------------------------------------------
Literal(v) == Node([e \in Env |-> v], v,
                   [e \in Env |-> IF v = "{}" THEN "unknown"
                                  ELSE KnownTruth(Truthy(v))],
                   FALSE, FALSE, FALSE)

Context == Node([e \in Env |-> e.context], "unknown",
                [e \in Env |-> "unknown"], FALSE, FALSE, FALSE)

Holds(f, e) == CASE f = "always" -> TRUE
                 [] f = "cancelled" -> e.cancelled
                 [] OTHER -> f = e.status

StatusCall(f) == Node([e \in Env |-> Bool(Holds(f, e))], "unknown",
                      [e \in Env |-> KnownTruth(Holds(f, e))],
                      TRUE, f = "success", f = "success")

Negated(t) == CASE t = "yes" -> "no" [] t = "no" -> "yes" [] OTHER -> t

Not(x) == Node([e \in Env |-> Bool(~Truthy(x.value[e]))],
               IF x.const = "unknown" THEN "unknown" ELSE Bool(~Truthy(x.const)),
               [e \in Env |-> Negated(x.truth[e])],
               x.calls, FALSE, FALSE)

\* A logical operator returns the left operand if that decides ("no" for &&,
\* "yes" for ||), else the right one.
Logical(x, y, decides, requires) ==
  LET short(v) == Truthy(v) <=> decides = "yes" IN
  Node([e \in Env |-> IF short(x.value[e]) THEN x.value[e] ELSE y.value[e]],
       IF x.const = "unknown" \/ short(x.const) THEN x.const ELSE y.const,
       [e \in Env |->
          CASE decides \in {x.truth[e], y.truth[e]} -> decides
            [] {x.truth[e], y.truth[e]} = {Negated(decides)} -> Negated(decides)
            [] OTHER -> "unknown"],
       x.calls \/ y.calls, requires, FALSE)

And(x, y) == Logical(x, y, "no", x.requires \/ y.requires)

\* Mutant of OrRequires: like "&&".
OrRequiresOne(x, y) == x.requires \/ y.requires

OrRequires(x, y) == x.requires /\ y.requires

Or(x, y) == Logical(x, y, "yes", OrRequires(x, y))

Compare(x, y) ==
  Node([e \in Env |-> Bool(Equal(x.value[e], y.value[e]))],
       IF "unknown" \in {x.const, y.const} \/ {x.const, y.const} = {"{}"}
       THEN "unknown" ELSE Bool(Equal(x.const, y.const)),
       [e \in Env |-> "unknown"], x.calls \/ y.calls, FALSE, FALSE)

\* case(p, x, y); the runner rejects a predicate that is no boolean, which
\* fails the step.
Choice(p, x, y) ==
  Node([e \in Env |-> CASE p.value[e] = "true" -> x.value[e]
                        [] p.value[e] = "false" -> y.value[e]
                        [] OTHER -> "null"],
       CASE p.const = "true" -> x.const
         [] p.const = "false" -> y.const
         [] OTHER -> "unknown",
       [e \in Env |-> "unknown"],
       p.calls \/ x.calls \/ y.calls, FALSE, FALSE)

-----------------------------------------------------------------------------
CondInit == operands = <<>> /\ nodes = 0

Grow == nodes < MaxNodes /\ nodes' = nodes + 1

\* The operand k from the top.
Operand(k) == operands[Len(operands) - k]
Under(k) == SubSeq(operands, 1, Len(operands) - k)

PushLeaf ==
  /\ Grow /\ Len(operands) < MaxOperands
  /\ \E x \in {Literal(v) : v \in Literals} \cup {Context}
                \cup {StatusCall(f) : f \in Calls} : operands' = Append(operands, x)

PushNot == /\ Grow /\ Len(operands) >= 1
           /\ operands' = Append(Under(1), Not(Operand(0)))

PushBinary ==
  /\ Grow /\ Len(operands) >= 2
  /\ \E x \in {And(Operand(1), Operand(0)), Or(Operand(1), Operand(0)),
               Compare(Operand(1), Operand(0))} : operands' = Append(Under(2), x)

PushChoice ==
  /\ Grow /\ Len(operands) >= 3
  /\ operands' = Append(Under(3), Choice(Operand(2), Operand(1), Operand(0)))

CondNext == PushLeaf \/ PushNot \/ PushBinary \/ PushChoice

CondSpec == CondInit /\ [][CondNext]_condVars

-----------------------------------------------------------------------------
Condition == operands[1]

\* conditionNeverRunsInStatuses
NeverRunsIn(x, statuses) ==
  \A e \in Env : e.status \in statuses => x.truth[e] = "no"

\* StepCondition: "run", "skip" or "unknown".
StepCondition(x) ==
  CASE x.const = "unknown" -> IF x.success THEN "run" ELSE "unknown"
    [] OTHER -> IF Truthy(x.const) THEN "run" ELSE "skip"

\* Condition and, for a job without needs, JobCondition.
ConditionIn(x, statuses) ==
  IF NeverRunsIn(x, statuses) THEN "skip" ELSE StepCondition(x)

CanRunAfterFailure(x) == x.calls /\ ~x.requires

\* The runner: a status function removes the implicit success().
Runs(x, e) ==
  Truthy(x.value[e]) /\ (x.calls \/ e.status = "success")

\* For every expression: a step or job that is said to be skipped never runs,
\* one that is said to run does so whenever everything before it succeeded,
\* and one that is said not to run after a failure does not.
ConditionIsSound ==
  Len(operands) = 1 =>
    /\ \A s \in {Statuses, Statuses \ {"failure"}}, e \in Env :
         e.status \in s =>
           /\ ConditionIn(Condition, s) = "skip" => ~Runs(Condition, e)
           /\ ConditionIn(Condition, s) = "run" /\ e.status = "success"
                => Runs(Condition, e)
    /\ ~CanRunAfterFailure(Condition) =>
         \A e \in Env : e.status # "success" => ~Runs(Condition, e)
=============================================================================
