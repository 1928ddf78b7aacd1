--------------------------- MODULE FindingPolicy ---------------------------
(***************************************************************************)
(* Which findings of a document are shown (Policy.Apply in                 *)
(* internal/diagnosticpolicy/policy.go with the filters of inline.go and   *)
(* configured.go, and Evaluate in internal/suppression/inline.go).  The    *)
(* document calls a composite action, or is the metadata of one; each of   *)
(* the two sources has inline directives, configured ignores and a policy  *)
(* that may disallow both.  A finding may be displayed in a script that    *)
(* either source runs.                                                     *)
(*                                                                         *)
(* Findings are filtered one by one, so that one finding per document is   *)
(* enough, and the sort and the removal of duplicates at the end are left  *)
(* out; a directive or an ignore covers its place or does not.             *)
(***************************************************************************)
EXTENDS Naturals, FiniteSets

Sources == {"main", "meta"}
Modes == {"allowed", "suppression", "violation", "all"}  \* SuppressionReport
PolicyRule == "disallow-suppressions"

VARIABLES due,         \* the filter that comes next
          isAction,    \* the document is the metadata
          sourceRule,  \* the rule's level is that of the source
          directive,   \* of each source: [rules, covers]
          ignored,     \* of each source: an ignore of the rule matches
          policyMode,  \* of each source: policy.disallow-suppressions
          level,       \* of each source: the level of the rule
          pattern,     \* an "ignore" pattern matches its message
          finding,     \* the finding of an analyzer, as it was reported
          findings     \* what is left, with the reports of the policy

inputs == <<isAction, sourceRule, directive, ignored, policyMode, level, pattern,
            finding>>
policyVars == <<due, inputs, findings>>

Directives == [rules : {{}}, covers : {FALSE}]
                \cup [rules : {{"rule"}}, covers : BOOLEAN]
                \cup [rules : {{"rule", PolicyRule}}, covers : {TRUE}]

\* "shown" is where it is displayed: in the document (no Path, no Source), in
\* the metadata, or in a script.  "origin" is SuppressionOrigin.
Findings == {f \in [rule : {"rule"}, by : {"analyzer"},
                    shown : {"main", "meta", "script"},
                    origin : {"none", "main", "meta"}] :
               <<f.shown, f.origin>> \notin {<<"main", "meta">>,
                                             <<"meta", "main">>}}

\* The metadata is the document: nothing belongs to another one.
OneSource == /\ finding.shown # "main" /\ finding.origin # "main"
             /\ directive["main"].rules = {} /\ ~ignored["main"]
             /\ policyMode["main"] = "allowed"

PolicyInit == /\ due = "inline"
              /\ isAction \in BOOLEAN /\ sourceRule \in BOOLEAN
              /\ directive \in [Sources -> Directives]
              /\ ignored \in [Sources -> BOOLEAN]
              /\ policyMode \in [Sources -> Modes]
              /\ level \in [Sources -> {"off", "error"}]
              /\ pattern \in BOOLEAN
              /\ finding \in Findings
              /\ isAction => OneSource
              /\ findings = {finding}

-----------------------------------------------------------------------------
\* Evaluate: what the policy of a source decides about a suppression.
Hides(s) == policyMode[s] \in {"allowed", "suppression"}
Reports(s) == policyMode[s] \in {"suppression", "all"}

PolicyReport(by, f) == [f EXCEPT !.rule = PolicyRule, !.by = by]

\* A report about a directive is placed at the comment.
DirectiveReport(s) ==
  IF directive[s].rules # {} /\ Reports(s)
  THEN {[rule |-> PolicyRule, by |-> s, shown |-> s, origin |-> "none"]}
  ELSE {}

Suppresses(s, f) == /\ f.rule \in directive[s].rules
                    /\ directive[s].covers /\ Hides(s)

\* Mutant of FilterInline: reports are filtered like findings.
FilterInlineOfAll(s, fs, applies) ==
  {f \in fs \cup DirectiveReport(s) :
     ~((f \in applies \/ f.by = s) /\ Suppresses(s, f))}

\* filterInlineSuppressionsAt: reports are added after the filter.
FilterInline(s, fs, applies) ==
  {f \in fs : ~(f \in applies /\ Suppresses(s, f))} \cup DirectiveReport(s)

\* FilterConfigured: a finding that is off is left to the levels.
FilterConfigured(s, fs, applies, off) ==
  LET matched == {f \in fs \cap applies :
                    f.rule # PolicyRule /\ ignored[s] /\ ~off}
  IN {f \in fs : f \notin matched \/ ~Hides(s)}
       \cup (IF Reports(s) THEN {PolicyReport("ignore", f) : f \in matched} ELSE {})

\* Where the directives of the document apply: to its own findings and to the
\* ones that a script of it caused.
OwnedByMain(f) == f.origin = "main" \/ (f.origin = "none" /\ f.shown = "main")

\* Where those of the metadata apply, among the findings of its scope.
OwnedByMeta(f) == f.origin \in {"meta", "none"}

\* The scope of a finding: that of its origin, or where it is shown.
ScopeOf(f) == IF f.origin = "meta" \/ f.shown = "meta" THEN "meta" ELSE "main"

\* Inline suppressions of a workflow; a metadata document has only its scope.
ApplyInline ==
  /\ due = "inline"
  /\ due' = "configured"
  /\ findings' = IF isAction THEN findings
                 ELSE FilterInline("main", findings,
                                   {f \in findings : OwnedByMain(f)})
  /\ UNCHANGED inputs

ApplyConfigured ==
  /\ due = "configured"
  /\ due' = "scopes"
  /\ findings' = IF isAction THEN findings
                 ELSE FilterConfigured("main", findings,
                                       {f \in findings : OwnedByMain(f)},
                                       level["main"] = "off")
  /\ UNCHANGED inputs

\* diagnosticLevel
LevelIn(scope, f) ==
  IF f.rule = PolicyRule THEN "error"
  ELSE level[IF sourceRule THEN scope ELSE "main"]

\* The findings of the metadata's scope.
ApplyScope ==
  /\ due = "scopes"
  /\ due' = "levels"
  /\ LET scoped == {f \in findings : ScopeOf(f) = "meta"}
         owned(fs) == {f \in fs : OwnedByMeta(f)}
         inline == FilterInline("meta", scoped, owned(scoped))
     IN findings' = (findings \ scoped)
          \cup FilterConfigured("meta", inline, owned(inline),
                                LevelIn("meta", finding) = "off")
  /\ UNCHANGED inputs

\* The levels, then filterErrors.
ApplyLevels ==
  /\ due = "levels"
  /\ due' = "done"
  /\ findings' = {f \in findings : /\ LevelIn(ScopeOf(f), f) # "off"
                                   /\ ~(pattern /\ f = finding)}
  /\ UNCHANGED inputs

PolicyNext == ApplyInline \/ ApplyConfigured \/ ApplyScope \/ ApplyLevels

PolicySpec == PolicyInit /\ [][PolicyNext]_policyVars

-----------------------------------------------------------------------------
\* The source whose directives and ignores are about the finding, if any.
Owner == IF finding.origin # "none" THEN finding.origin
         ELSE IF finding.shown # "script" THEN finding.shown ELSE "none"

Off == LevelIn(ScopeOf(finding), finding) = "off"
InlineHides == Owner # "none" /\ Suppresses(Owner, finding)
IgnoreMatches == Owner # "none" /\ ignored[Owner] /\ ~Off

\* Apart from its level and the patterns, a finding is hidden exactly when the
\* source it belongs to, and no other, suppresses it and the policy of that
\* source lets it; and a suppression the policy reports is reported, which no
\* directive and no ignore can suppress.
PolicyIsExact ==
  due = "done" =>
    /\ finding \in findings
         <=> /\ ~Off /\ ~pattern
             /\ ~InlineHides /\ ~(IgnoreMatches /\ Hides(Owner))
    /\ \A s \in Sources :
         (\E f \in findings : f.by = s)
           <=> directive[s].rules # {} /\ Reports(s)
    /\ (\E f \in findings : f.by = "ignore")
         <=> IgnoreMatches /\ ~InlineHides /\ Reports(Owner)
=============================================================================
