---------------------------- MODULE MCExperiment ----------------------------
(***************************************************************************)
(* Two trials of Experiment: of the rule on files with the rules only in   *)
(* the prompt, and of the rule on commits behind the gate.                 *)
(***************************************************************************)
EXTENDS Experiment

MCPlan == <<[task |-> "031", arm |-> "A"], [task |-> "047", arm |-> "C"]>>

Trial(a, violated, completed, turns) ==
  Joined([err |-> FALSE, violated |-> violated, completed |-> completed, turns |-> turns],
         [task |-> "031", arm |-> a])

\* No other trial; and one of each arm, with the verdicts at a tipping point.
MCPasts == {<<>>, <<Trial("A", FALSE, TRUE, 1), Trial("B", FALSE, FALSE, 3),
                    Trial("C", FALSE, TRUE, 1)>>}
=============================================================================
