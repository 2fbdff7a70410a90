---------------------------- MODULE MCAgentLoop -----------------------------
(***************************************************************************)
(* Small instances of AgentLoop and of the summary of its log: a tool that *)
(* is registered and one that is not, two subjects, and rule files in      *)
(* which the four calls meet all three verdicts, the first-match order     *)
(* matters, and files that boot must refuse.                               *)
(***************************************************************************)
EXTENDS RunSummary

rule(id, tool, match, verdict) ==
  [id |-> id, tool |-> tool, match |-> match, verdict |-> verdict,
   rationale |-> verdict # "allow", complete |-> TRUE]

\* bash a is allowed, bash b denied, nosuch a allowed, nosuch b held.
Mixed == <<rule(1, "bash", {"b"}, "deny"),
           rule(2, "*", {"b"}, "require_human")>>

\* An exception before a rule with no Match.
Exception == <<rule(1, "bash", {"a"}, "allow"), rule(2, "bash", {}, "deny")>>

NoRationale == <<[rule(1, "bash", {"b"}, "deny") EXCEPT !.rationale = FALSE]>>

SameID == <<rule(1, "bash", {"a"}, "allow"), rule(1, "bash", {"b"}, "deny")>>

OneFile  == {Mixed}
AllFiles == {Mixed, Exception, NoRationale, SameID}
=============================================================================
