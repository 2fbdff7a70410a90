------------------------------ MODULE OfinGate ------------------------------
(***************************************************************************)
(* The oefin rule set and its gate: internal/ofin/rule.go, load.go and     *)
(* gate.go.  A call is a tool name and the subject a rule matches against  *)
(* (a path, a command or a pattern); globs and regular expressions are     *)
(* abstracted to the set of subjects they match.                           *)
(***************************************************************************)
EXTENDS Integers, Sequences, FiniteSetsExt

CONSTANTS Tools,      \* tool names a model can put in a call, known or not
          KnownTools, \* the names tool.NewSet registers
          Subjects    \* what subjectOf can extract from a call's arguments

ASSUME ToolsAssumption == KnownTools \subseteq Tools /\ "*" \notin Tools

Call == [tool : Tools, subject : Subjects]

Verdicts == {"allow", "deny", "require_human"}

(***************************************************************************)
(* A rule as it stands in the YAML file, before validation; id 0 is the    *)
(* empty id.  "complete" stands for the checks on the tool, the summary    *)
(* and the regular expression; "match" is the set of matched subjects, {}  *)
(* when the rule has no Match.                                             *)
(***************************************************************************)
RawRule == [id : Nat, tool : Tools \cup {"*"}, match : SUBSET Subjects,
            verdict : Verdicts \cup {"unknown"}, rationale : BOOLEAN,
            complete : BOOLEAN]

\* Rule.Validate: a rule that can block must be able to explain itself.
MutValidateNoRationale(r) == r.id # 0 /\ r.complete /\ r.verdict \in Verdicts

Validate(r) == /\ r.id # 0 /\ r.complete
               /\ r.verdict \in Verdicts
               /\ r.verdict # "allow" => r.rationale

\* Parse accepts a file when every rule validates and no id occurs twice.
Parses(file) == /\ \A i \in DOMAIN file : Validate(file[i])
                /\ \A i, j \in DOMAIN file : file[i].id = file[j].id => i = j

Matches(r, call) == /\ r.tool \in {"*", call.tool}
                    /\ r.match = {} \/ call.subject \in r.match

(***************************************************************************)
(* Gate.Evaluate: the first matching rule decides, and a call no rule      *)
(* matches is allowed.  rule = 0 stands for the empty RuleID.  explain is  *)
(* FALSE under WithoutRationale (experiment arm B).                        *)
(***************************************************************************)
Decision == [verdict : Verdicts, rule : Nat, rationale : BOOLEAN]

MatchingAt(rules, call) == {i \in DOMAIN rules : Matches(rules[i], call)}

Evaluate(rules, explain, call) ==
  LET hits == MatchingAt(rules, call)
      r    == rules[Min(hits)]
  IN  IF hits = {}
      THEN [verdict |-> "allow", rule |-> 0, rationale |-> FALSE]
      ELSE [verdict   |-> r.verdict,
            rule      |-> r.id,
            rationale |-> r.verdict # "allow" /\ explain /\ r.rationale]

Allowed(d) == d.verdict = "allow"
=============================================================================
