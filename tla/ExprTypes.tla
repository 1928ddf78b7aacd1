----------------------------- MODULE ExprTypes -----------------------------
(***************************************************************************)
(* The type checker of expressions (internal/expression/expr_sema.go), its *)
(* types (expr_type.go) and the payload of github.event, which depends on  *)
(* the events of the workflow (internal/workflow/eventpayload) and inside  *)
(* an expression on its guards (event_variants.go), against what the       *)
(* runner computes when each of these events occurs.                       *)
(*                                                                         *)
(* An expression is built in postfix order.  A property access is known by *)
(* its id, the number of nodes before it.  Functions other than case(),    *)
(* the names shown in messages and what is only reported about operators   *)
(* and arguments are left out.                                             *)
(***************************************************************************)
EXTENDS Naturals, Sequences, FiniteSets
LOCAL INSTANCE SequencesExt

CONSTANTS MaxNodes,    \* nodes of an expression
          Reusable     \* the workflow is also called from others

VARIABLES on, stack, nodes

typeVars == <<on, stack, nodes>>

Names == {"x", "y", "z"}      \* properties; no known event has z on top

-----------------------------------------------------------------------------
(* Types.  mapped is None for a strict object and AnyType for a loose one. *)

Scalar(kind) == [kind |-> kind]
None == Scalar("none")
AnyType == Scalar("any")
NumberType == Scalar("number")
BoolType == Scalar("bool")
StringType == Scalar("string")
ObjectType(props, mapped) == [kind |-> "object", props |-> props, mapped |-> mapped]
Strict(props) == ObjectType(props, None)
Loose == ObjectType([p \in {} |-> AnyType], AnyType)
ArrayType(elem, deref) == [kind |-> "array", elem |-> elem, deref |-> deref]

IsLoose(t) == t.mapped = AnyType

RECURSIVE Merge(_, _), MergeAll(_, _)

\* mapped merged with the types ts, which Go visits in any order: with the
\* types below the result is the same for all.
MergeAll(mapped, ts) == IF ts = <<>> THEN mapped
                        ELSE MergeAll(Merge(mapped, Head(ts)), Tail(ts))

\* ObjectType.Merge
MergeObjects(l, r) ==
  LET shared == DOMAIN l.props \cap DOMAIN r.props
      added == DOMAIN r.props \ DOMAIN l.props
      both == CASE l.mapped = None -> r.mapped
                [] r.mapped = None -> l.mapped
                [] OTHER -> Merge(l.mapped, r.mapped)
      names == SetToSeq(added)
      types == [i \in DOMAIN names |-> r.props[names[i]]]
  IN CASE DOMAIN l.props = {} /\ IsLoose(r) -> r
       [] DOMAIN r.props = {} /\ IsLoose(l) -> l
       [] OTHER ->
            ObjectType([p \in DOMAIN l.props \cup DOMAIN r.props |->
                      CASE p \in shared -> Merge(l.props[p], r.props[p])
                        [] p \in added -> r.props[p]
                        [] OTHER -> l.props[p]],
                   IF both = None THEN None ELSE MergeAll(both, types))

\* ArrayType.Merge
MergeArrays(l, r) == CASE l.elem = AnyType -> l
                       [] r.elem = AnyType -> r
                       [] OTHER -> ArrayType(Merge(l.elem, r.elem), FALSE)

\* Type.Merge
Merge(l, r) ==
  CASE l.kind = "object" /\ r.kind = "object" -> MergeObjects(l, r)
    [] l.kind = "array" /\ r.kind = "array" -> MergeArrays(l, r)
    [] l.kind = r.kind -> l
    [] l.kind = "string" /\ r.kind \in {"number", "bool"} -> l
    [] r.kind = "string" /\ l.kind \in {"number", "bool"} -> r
    [] OTHER -> AnyType

\* combineEventTypes: what some event has stays readable.
RECURSIVE combineEventTypes(_, _)
combineEventTypes(a, b) ==
  CASE a = None -> b
    [] b = None \/ a = b -> a
    [] a.kind = "object" /\ b.kind = "object" ->
         LET at(t, p) == IF p \in DOMAIN t.props THEN t.props[p] ELSE None IN
         ObjectType([p \in DOMAIN a.props \cup DOMAIN b.props |->
                   combineEventTypes(at(a, p), at(b, p))],
                combineEventTypes(a.mapped, b.mapped))
    [] a.kind = "array" /\ b.kind = "array" ->
         ArrayType(combineEventTypes(a.elem, b.elem), FALSE)
    [] OTHER -> Merge(a, b)

-----------------------------------------------------------------------------
(* The events of a workflow: two activities of one event, an event without *)
(* activities and the event of an unknown caller.                          *)

Item == Strict([p \in {"x"} |-> Strict([q \in {"z"} |-> StringType])])

Variants == <<
  [event |-> "issues", action |-> "opened",
   payload |-> Strict([action |-> StringType,
                       x |-> Strict([x |-> StringType, y |-> ArrayType(Item, FALSE)])])],
  [event |-> "issues", action |-> "closed",
   payload |-> Strict([action |-> StringType, x |-> Strict([z |-> StringType]),
                       y |-> StringType])],
  [event |-> "push", action |-> "",
   payload |-> Strict([y |-> Strict([x |-> NumberType])])],
  [event |-> "", action |-> "", payload |-> Loose]
>>

Caller == 4

\* NewEventType for the variants in s, in their order.
RECURSIVE NewEventType(_)
NewEventType(s) ==
  IF s = {} THEN None
  ELSE LET last == CHOOSE v \in s : \A w \in s : w <= v IN
       combineEventTypes(NewEventType(s \ {last}), Variants[last].payload)

-----------------------------------------------------------------------------
(* Expressions. *)

Event == [op |-> "event"]                        \* github.event
Context == [op |-> "context"]                    \* a value of any type
Literal == [op |-> "literal"]                    \* a string
Access(id, name, of) == [op |-> ".", id |-> id, name |-> name, of |-> of]
Unary(op, of) == [op |-> op, of |-> of]
Binary(op, l, r) == [op |-> op, l |-> l, r |-> r]
Case(p, t, f) == [op |-> "case", p |-> p, t |-> t, f |-> f]

\* ref == 'text' or ref != 'text', with ref the name of the event or the
\* access to its action.
Comparison(ref, text, eq) ==
  [op |-> "==", ref |-> ref, text |-> text, eq |-> eq]
EventName == [op |-> "event_name"]

Leaves(id) ==
  {Event, Context, Literal}
    \cup {Comparison(EventName, "push", eq) : eq \in BOOLEAN}
    \cup {Comparison(Access(id, "action", Event), text, eq) :
            text \in {"opened", ""}, eq \in BOOLEAN}

\* Only what may be an object or an array is accessed further.
Accessible(n) == n.op \in {"event", ".", ".*", "[0]", "&&", "||", "case"}

TypeInit == /\ \E known \in SUBSET {1, 2, 3} :
                 /\ known # {} \/ Reusable
                 /\ on = known \cup (IF Reusable THEN {Caller} ELSE {})
            /\ stack = <<>> /\ nodes = 0

Top(k) == stack[Len(stack) - k]
\* One more node, as long as the rest of the stack can still be used.
Replace(k, n) == /\ nodes < MaxNodes /\ nodes' = nodes + 1
                 /\ stack' = Append(SubSeq(stack, 1, Len(stack) - k), n)
                 /\ Len(stack') - 1 <= 2 * (MaxNodes - nodes')
                 /\ UNCHANGED on

PushLeaf == /\ Len(stack) < 3
            /\ \E n \in Leaves(nodes) : Replace(0, n)
PushAccess == /\ Len(stack) >= 1 /\ Accessible(Top(0))
              /\ \/ \E p \in Names : Replace(1, Access(nodes, p, Top(0)))
                 \/ \E op \in {".*", "[0]"} : Replace(1, Unary(op, Top(0)))
PushNot == Len(stack) >= 1 /\ Replace(1, Unary("!", Top(0)))
PushLogical == /\ Len(stack) >= 2
               /\ \E op \in {"&&", "||"} :
                    Replace(2, Binary(op, Top(1), Top(0)))
PushCase == Len(stack) >= 3 /\ Replace(3, Case(Top(2), Top(1), Top(0)))

TypeNext == PushLeaf \/ PushAccess \/ PushNot \/ PushLogical \/ PushCase

-----------------------------------------------------------------------------
(* The checker. *)

\* A comparison of null or a string with a string (CompareConditionValues):
\* null is 0, as is the empty string.
Known(b) == IF b THEN "yes" ELSE "no"
Opposite(k) == CASE k = "yes" -> "no" [] k = "no" -> "yes" [] OTHER -> k

\* The comparison of eventGuardValue for variant v.
ComparisonGuard(n, v) ==
  LET variant == Variants[v]
      result(value) == Known((value = n.text) = n.eq)
  IN CASE n.ref.op = "event_name" ->
            IF variant.event = "" THEN "unknown" ELSE result(variant.event)
       [] variant.action # "" -> result(variant.action)
       [] \/ variant.event = "" \/ variant.payload.mapped # None
          \/ "action" \in DOMAIN variant.payload.props -> "unknown"
       [] OTHER -> result("")

RECURSIVE eventGuardValue(_, _)
eventGuardValue(n, v) ==
  CASE n.op = "!" -> Opposite(eventGuardValue(n.of, v))
    [] n.op \in {"&&", "||"} ->
         LET both == {eventGuardValue(n.l, v), eventGuardValue(n.r, v)}
             decides == IF n.op = "&&" THEN "no" ELSE "yes"
         IN CASE decides \in both -> decides
              [] both = {Opposite(decides)} -> Opposite(decides)
              [] OTHER -> "unknown"
    [] n.op = "==" -> ComparisonGuard(n, v)
    [] OTHER -> "unknown"

\* Mutant of Selected: an unknown guard drops the event.
SelectedKnown(guard, truth, s) == {v \in s : eventGuardValue(guard, v) = Known(truth)}

\* The events under which a branch is evaluated.
Selected(guard, truth, s) ==
  {v \in s : eventGuardValue(guard, v) # Known(~truth)}

\* The type and the accesses that are reported.
Result(type, errs) == [type |-> type, errs |-> errs]
Typed(t) == Result(t, {})
With(r, errs) == Result(r.type, r.errs \cup errs)

Lookup(t, p) == IF p \in DOMAIN t.props THEN t.props[p] ELSE t.mapped

\* checkObjectDeref, given the type of the receiver.
DerefType(n, t) ==
  LET found == Lookup(t, n.name)
      inner == Lookup(t.elem, n.name)
      missing == Result(AnyType, {n.id})
  IN CASE t.kind = "any" -> Typed(AnyType)
       [] t.kind = "object" -> IF found = None THEN missing ELSE Typed(found)
       [] t.kind = "array" ->
            CASE ~t.deref -> missing
              [] t.elem.kind = "any" -> Typed(t)
              [] t.elem.kind = "object" ->
                   IF inner = None THEN Result(ArrayType(AnyType, TRUE), {n.id})
                   ELSE Typed(ArrayType(inner, TRUE))
              [] OTHER -> missing
       [] OTHER -> missing

\* eventReference finds a path below github.event.
RECURSIVE IsEventPath(_)
IsEventPath(n) == \/ n.op = "event"
                  \/ n.op \in {".", ".*", "[0]"} /\ IsEventPath(n.of)

\* checkArrayDeref, given the type of the receiver.
FilterType(n, t) ==
  CASE t.kind = "any" -> ArrayType(AnyType, TRUE)
    [] t.kind = "array" -> ArrayType(t.elem, TRUE)
    [] t.kind = "object" ->
         CASE t.mapped.kind \in {"any", "object"} -> ArrayType(t.mapped, TRUE)
           [] t.mapped # None -> AnyType
           [] \/ IsEventPath(n.of)
              \/ \E p \in DOMAIN t.props : t.props[p].kind = "object" ->
                ArrayType(AnyType, TRUE)
           [] OTHER -> AnyType
    [] OTHER -> AnyType

\* checkIndexAccess by a number.
IndexType(t) == IF t.kind = "array" THEN t.elem ELSE AnyType

RECURSIVE Check(_, _), checkWithNarrowing(_, _, _)

\* withEventGuard: a branch that no event evaluates is not checked.
withEventGuard(guard, truth, n, s) ==
  LET selected == Selected(guard, truth, s) IN
  IF selected = {} THEN Typed(AnyType) ELSE Check(n, selected)

\* The branch of a logical operator behind its left operand.
Behind(n, s) == withEventGuard(n.l, n.op = "&&", n.r, s)

checkLogicalOp(n, s) ==
  LET left == checkWithNarrowing(n.l, n.op = "||", s)
      right == Behind(n, s)
  IN Result(Merge(left.type, right.type), left.errs \cup right.errs)

checkWithNarrowing(n, isTruthy, s) ==
  CASE n.op \in {"&&", "||"} ->
         IF isTruthy = (n.op = "&&")
         THEN With(Behind(n, s), Check(n.l, s).errs)
         ELSE checkLogicalOp(n, s)
    [] n.op = "!" -> checkWithNarrowing(n.of, ~isTruthy, s)
    [] OTHER -> Check(n, s)

\* checkCaseBranches for one predicate and the default.
checkCaseCall(n, s) ==
  Result(AnyType, Check(n.p, s).errs
                \cup withEventGuard(n.p, TRUE, n.t, s).errs
                \cup withEventGuard(n.p, FALSE, n.f, s).errs)

Check(n, s) ==
  CASE n.op = "event" -> Typed(NewEventType(s))
    [] n.op = "context" -> Typed(AnyType)
    [] n.op \in {"literal", "event_name"} -> Typed(StringType)
    [] n.op = "." -> LET of == Check(n.of, s) IN
                     With(DerefType(n, of.type), of.errs)
    [] n.op = ".*" -> LET of == Check(n.of, s) IN
                      Result(FilterType(n, of.type), of.errs)
    [] n.op = "[0]" -> LET of == Check(n.of, s) IN
                       Result(IndexType(of.type), of.errs)
    [] n.op = "!" -> Result(BoolType, Check(n.of, s).errs)
    [] n.op = "==" -> Result(BoolType, Check(n.ref, s).errs)
    [] n.op = "case" -> checkCaseCall(n, s)
    [] OTHER -> checkLogicalOp(n, s)

-----------------------------------------------------------------------------
(* The runner: what an expression is when the event v occurs.  c chooses   *)
(* the strings and numbers that the payload holds.                         *)

Env == [v : on, c : BOOLEAN]

Nil == [is |-> "null"]
Text(s) == [is |-> "text", of |-> s]
Truth(b) == [is |-> "bool", of |-> b]
Count(k) == [is |-> "count", of |-> k]
Fields(f) == [is |-> "object", of |-> f]
List(s, filtered) == [is |-> "list", of |-> s, filtered |-> filtered]

Truthy(value) == CASE value.is = "null" -> FALSE
                   [] value.is = "text" -> value.of # ""
                   [] value.is = "bool" -> value.of
                   [] value.is = "count" -> value.of # 0
                   [] OTHER -> TRUE

SomeText(e) == Text(IF e.c THEN "s" ELSE "")

Payload(e) ==
  CASE e.v = 1 ->
         [action |-> Text("opened"),
          x |-> Fields([x |-> SomeText(e),
                        y |-> List(<<Fields([x |-> Fields([z |-> SomeText(e)])])>>,
                                   FALSE)])]
    [] e.v = 2 -> [action |-> Text("closed"), x |-> Fields([z |-> SomeText(e)]),
                   y |-> SomeText(e)]
    [] e.v = 3 -> [y |-> Fields([x |-> Count(IF e.c THEN 1 ELSE 0)])]
    [] e.v = Caller -> [x |-> Fields([z |-> SomeText(e)])]

NameOf(e) == IF e.v = Caller THEN "push" ELSE Variants[e.v].event

\* The property p of a value, of each element for a filtered list.
RECURSIVE PropertyOf(_, _)
PropertyOf(value, p) ==
  CASE value.is = "object" -> IF p \in DOMAIN value.of THEN value.of[p] ELSE Nil
    [] value.is = "list" /\ value.filtered ->
         LET having == SelectSeq(value.of, LAMBDA w : w.is = "object"
                                                      /\ p \in DOMAIN w.of)
         IN List([i \in DOMAIN having |-> having[i].of[p]], TRUE)
    [] OTHER -> Nil

\* The members of a value.
Members(value) ==
  CASE value.is = "object" ->
         LET names == SetToSeq(DOMAIN value.of) IN
         [i \in DOMAIN names |-> value.of[names[i]]]
    [] value.is = "list" -> value.of
    [] OTHER -> <<>>

Filter(value) ==
  CASE value.is = "list" /\ value.filtered ->
         List(FlattenSeq([i \in DOMAIN value.of |-> Members(value.of[i])]), TRUE)
    [] value.is \in {"object", "list"} -> List(Members(value), TRUE)
    [] OTHER -> Nil

RECURSIVE Eval(_, _)
Eval(n, e) ==
  CASE n.op = "event" -> Fields(Payload(e))
    [] n.op = "context" -> Truth(e.c)
    [] n.op = "literal" -> Text("s")
    [] n.op = "event_name" -> Text(NameOf(e))
    [] n.op = "." -> PropertyOf(Eval(n.of, e), n.name)
    [] n.op = ".*" -> Filter(Eval(n.of, e))
    [] n.op = "[0]" -> LET value == Eval(n.of, e) IN
                       IF value.is = "list" /\ value.of # <<>>
                       THEN Head(value.of) ELSE Nil
    [] n.op = "!" -> Truth(~Truthy(Eval(n.of, e)))
    [] n.op = "==" -> LET value == Eval(n.ref, e) IN
                      Truth(((IF value.is = "null" THEN "" ELSE value.of)
                               = n.text) = n.eq)
    [] n.op = "case" -> IF Truthy(Eval(n.p, e)) THEN Eval(n.t, e) ELSE Eval(n.f, e)
    [] OTHER -> IF Truthy(Eval(n.l, e)) = (n.op = "&&") THEN Eval(n.r, e)
                ELSE Eval(n.l, e)

\* A filter of a filtered list: the checker keeps the type of the elements,
\* the runner goes one level down.
RECURSIVE Filtered(_), Refiltered(_)
Filtered(n) == n.op = ".*" \/ (n.op = "." /\ Filtered(n.of))
Refiltered(n) == /\ n.op \in {".", ".*", "[0]"}
                 /\ (n.op = ".*" /\ Filtered(n.of)) \/ Refiltered(n.of)

\* The accesses that the runner evaluates: which give a value, and which ask
\* for the property that no event has.
Present(value) ==
  value.is # "null" /\ ~(value.is = "list" /\ value.filtered /\ value.of = <<>>)

RECURSIVE Evaluated(_, _)
Evaluated(n, e) ==
  CASE n.op = "." -> Evaluated(n.of, e) \cup
                     {[id |-> n.id, present |-> Present(Eval(n, e)),
                       vague |-> Refiltered(n),
                       never |-> n.of.op = "event" /\ n.name = "z"]}
    [] n.op \in {".*", "[0]", "!"} -> Evaluated(n.of, e)
    [] n.op = "==" -> Evaluated(n.ref, e)
    [] n.op = "case" -> Evaluated(n.p, e) \cup
                        Evaluated(IF Truthy(Eval(n.p, e)) THEN n.t ELSE n.f, e)
    [] n.op \in {"&&", "||"} ->
         Evaluated(n.l, e) \cup
         (IF Truthy(Eval(n.l, e)) = (n.op = "&&") THEN Evaluated(n.r, e) ELSE {})
    [] OTHER -> {}

\* For every expression and every set of events: a property that is reported
\* as missing is missing in every run that evaluates the access.
ReportsAreReal(errs) ==
  \A e \in Env : \A a \in Evaluated(stack[1], e) :
    a.id \in errs => ~a.present \/ a.vague

\* And a property that no event has is reported if some event evaluates the
\* access, whatever guards are around it.
NothingIsMissed(errs) ==
  \A e \in Env : \A a \in Evaluated(stack[1], e) : a.never => a.id \in errs

\* Guards narrow the payload to the events that can evaluate a branch, no
\* further and no less than they tell.
NarrowingIsExact ==
  Len(stack) = 1 => LET errs == Check(stack[1], on).errs IN
                    ReportsAreReal(errs) /\ NothingIsMissed(errs)

\* What eventpayload says of a workflow that others call: the event of the
\* caller stays open.
UnknownEventsStayOpen ==
  Len(stack) = 1 => ReportsAreReal(Check(stack[1], on).errs)

TypeSpec == TypeInit /\ [][TypeNext]_typeVars
=============================================================================
