---------------------------- MODULE MCAlgorithms ----------------------------
(***************************************************************************)
(* The sequential algorithms for TLC: the job dependency check, the fix    *)
(* plan, the workflow parser, the executable bit rule, the analysis of     *)
(* conditions, the policy on findings, the expression parser, the types of *)
(* event payloads and the loading of configurations.  They do not          *)
(* interact, so a behaviour is about one of them, the subject chosen in    *)
(* the initial state, and the variables of the others stay idle: the state *)
(* space is their sum.                                                     *)
(***************************************************************************)
EXTENDS JobNeeds, WorkflowParse, ExecutableBit, Conditions, FixPlan, FindingPolicy,
        ConfigExtends

CONSTANT Idle

VARIABLES subject,
          exprTokens,
          typeOn, typeStack, typeNodes

\* Five tokens, three levels of nesting: both logical operators fit.
Expression == INSTANCE ExprParse
  WITH MaxTokens <- 5, MaxLevels <- 3, tokens <- exprTokens

\* The same five tokens with two levels: a chain of one operator is accepted
\* only because its operators share a level.
ShallowExpression == INSTANCE ExprParse
  WITH MaxTokens <- 5, MaxLevels <- 2, tokens <- exprTokens

\* Expressions of five nodes, without a reusable workflow's inherited events.
Types == INSTANCE ExprTypes
  WITH MaxNodes <- 5, Reusable <- FALSE,
       on <- typeOn, stack <- typeStack, nodes <- typeNodes

needsVars == vars
typesVars == <<typeOn, typeStack, typeNodes>>

allVars == <<subject, needsVars, planVars, parseVars, execVars, condVars,
             policyVars, exprTokens, typesVars, extendVars>>

-----------------------------------------------------------------------------
Subjects == {"needs", "plan", "parse", "bit", "condition", "policy",
             "expression", "types", "config"}

PlanIdle == /\ progress = Idle /\ edits = Idle /\ skipped = Idle
            /\ path = 0 /\ changes = Idle

ParseIdle == /\ section = Idle /\ node = Idle /\ keys = Idle /\ entries = Idle
             /\ empty = Idle /\ kind = Idle /\ errors = Idle /\ over = FALSE

ExecIdle == /\ st = Idle /\ place = Idle /\ frame = Idle /\ script = Idle
            /\ steps = Idle /\ live = Idle /\ failed = Idle /\ mode = Idle
            /\ tampered = Idle /\ shared = Idle /\ found = {}

PolicyIdle == /\ due = Idle /\ isAction = Idle /\ sourceRule = Idle
              /\ directive = Idle /\ ignored = Idle /\ policyMode = Idle
              /\ level = Idle /\ pattern = Idle /\ finding = Idle
              /\ findings = Idle

ExtendIdle == /\ link = Idle /\ content = Idle /\ frames = Idle
              /\ cache = Idle /\ listed = Idle /\ result = Idle

MCInit ==
  /\ subject \in Subjects
  /\ Init /\ CondInit
  /\ IF subject = "plan" THEN PlanInit ELSE PlanIdle
  /\ IF subject = "parse" THEN ParseInit ELSE ParseIdle
  /\ IF subject = "bit" THEN ExecInit ELSE ExecIdle
  /\ IF subject = "policy" THEN PolicyInit ELSE PolicyIdle
  /\ IF subject = "expression" THEN Expression!ExprInit ELSE exprTokens = Idle
  /\ IF subject = "types" THEN Types!TypeInit
     ELSE typeOn = Idle /\ typeStack = Idle /\ typeNodes = Idle
  /\ IF subject = "config" THEN ExtendInit ELSE ExtendIdle

Only(s) == /\ subject = s /\ UNCHANGED subject
           /\ s # "needs" => UNCHANGED needsVars
           /\ s # "plan" => UNCHANGED planVars
           /\ s # "parse" => UNCHANGED parseVars
           /\ s # "bit" => UNCHANGED execVars
           /\ s # "condition" => UNCHANGED condVars
           /\ s # "policy" => UNCHANGED policyVars
           /\ s # "expression" => UNCHANGED exprTokens
           /\ s # "types" => UNCHANGED typesVars
           /\ s # "config" => UNCHANGED extendVars

NeedsNext == Only("needs") /\ Next
FixNext == Only("plan") /\ PlanNext
WorkflowNext == Only("parse") /\ ParseNext
BitNext == Only("bit") /\ ExecNext
ConditionNext == Only("condition") /\ CondNext
FindingNext == Only("policy") /\ PolicyNext
ExpressionNext == Only("expression") /\ Expression!ExprNext
TypesNext == Only("types") /\ Types!TypeNext
ConfigNext == Only("config") /\ ExtendNext

MCNext == \/ NeedsNext \/ FixNext \/ WorkflowNext \/ BitNext \/ ConditionNext
          \/ FindingNext \/ ExpressionNext \/ TypesNext \/ ConfigNext

MCSpec == MCInit /\ [][MCNext]_allVars

-----------------------------------------------------------------------------
\* The parser accepts the grammar and nothing else, within either limit on the
\* nesting: see ExprParse.
ParserIsExact ==
  subject = "expression" => Expression!ParserIsExact /\ ShallowExpression!ParserIsExact

\* The payload type under the guards of a condition is that of the events that
\* can reach it: see ExprTypes.
NarrowingIsExact == subject = "types" => Types!NarrowingIsExact
=============================================================================
