----------------------------- MODULE ExecTools -------------------------------
(***************************************************************************)
(* The three tools that run a command, bash, grep and glob                 *)
(* (internal/tool/exec.go), over one Exec of a sandbox (SandboxExec): a    *)
(* call is decoded, its command runs and prints, and the sandbox's Result  *)
(* becomes the answer the model reads.  Output is counted in units; what   *)
(* background jobs print is left out.                                      *)
(***************************************************************************)
EXTENDS SandboxExec

CONSTANTS MaxOut,      \* bound on what a command prints
          OutputLimit  \* outputLimit, in the same units

ASSUME OutputAssumption == MaxOut \in Nat /\ OutputLimit \in Nat

VARIABLES tool,   \* "bash", "grep" or "glob"
          out,    \* printed on standard output so far
          err,    \* printed on standard error so far
          answer  \* tool.Result

toolVars == <<tool, out, err, answer>>
allVars  == <<vars, toolVars>>

NoAnswer == [says |-> "nothing yet", error |-> FALSE, shown |-> 0, cut |-> FALSE]

Errorf(says) == [says |-> says, error |-> TRUE, shown |-> 0, cut |-> FALSE]

Finds(says) == [says |-> says, error |-> FALSE, shown |-> 0, cut |-> FALSE]

-----------------------------------------------------------------------------
(* The answer to a Result *)

truncate(n) ==
  [shown |-> IF n > OutputLimit THEN OutputLimit ELSE n, cut |-> n > OutputLimit]

Told(says, error, n) ==
  [says |-> says, error |-> error,
   shown |-> truncate(n).shown, cut |-> truncate(n).cut]

\* Standard output, a line break when there is any, standard error.
Joined(o, e) == IF o > 0 /\ e > 0 THEN o + 1 + e ELSE o + e

BashAnswer(r, o, e) ==
  Told(IF r.timedOut THEN "timed out" ELSE IF OK(r) THEN "output" ELSE "exit",
       ~OK(r), Joined(o, e))

\* grep exits 1 for "no matches", which is an answer rather than a failure.
MutNoMatchesWhenEmpty(r, o) == o = 0

NoMatches(r, o) == r.exit = 1 /\ o = 0

GrepAnswer(r, o) ==
  IF NoMatches(r, o) THEN Finds("no matches")
  ELSE IF ~OK(r) THEN Errorf("grep failed")
  ELSE Told("output", FALSE, o)

GlobAnswer(r, o) ==
  IF ~OK(r) THEN Errorf("glob failed")
  ELSE IF o = 0 THEN Finds("no files matched")
  ELSE Told("output", FALSE, o)

ToolAnswer(r, o, e) == CASE tool = "bash" -> BashAnswer(r, o, e)
                         [] tool = "grep" -> GrepAnswer(r, o)
                         [] tool = "glob" -> GlobAnswer(r, o)

-----------------------------------------------------------------------------
\* A call whose input is missing, does not decode, is empty or names a path
\* outside the workspace, and an Exec the sandbox refuses: no process starts.
Reject ==
  /\ call = "idle" /\ answer = NoAnswer
  /\ answer' = Errorf("rejected")
  /\ UNCHANGED <<vars, tool, out, err>>

Starts ==
  /\ answer = NoAnswer
  /\ Begin \/ StartFails
  /\ UNCHANGED toolVars

Waits == (Kill \/ WaitReturns \/ Return) /\ UNCHANGED toolVars

Prints ==
  /\ main = "running"
  /\ \/ out < MaxOut /\ out' = out + 1 /\ UNCHANGED err
     \/ err < MaxOut /\ err' = err + 1 /\ UNCHANGED out
  /\ UNCHANGED <<vars, tool, answer>>

\* grep ends with 0 when it printed a line, 1 when there was none to print
\* and 2 after an error; find ends with 0 when it walked the whole tree.
Status(c) == tool = "grep" => /\ c = 0 => out > 0
                              /\ c = 1 => out = 0

Exits == MainExits /\ Status(code') /\ UNCHANGED toolVars

World ==
  /\ Spawn \/ JobEnds \/ ClientExits \/ ClientFails \/ Deadline
  /\ UNCHANGED toolVars

\* What a client that ended before its command has passed on by then.
Captured(n) == IF remote /\ client \in {"killed", "failed"} THEN 0..n ELSE {n}

Tell ==
  /\ call = "returned" /\ answer = NoAnswer
  /\ \E o \in Captured(out), e \in Captured(err) :
       answer' = ToolAnswer(res, o, e)
  /\ UNCHANGED <<vars, tool, out, err>>

-----------------------------------------------------------------------------
ToolInit == /\ Init
            /\ tool \in {"bash", "grep", "glob"}
            /\ out = 0 /\ err = 0 /\ answer = NoAnswer

Asked == Reject \/ Starts \/ Waits \/ Tell

ToolNext == Asked \/ Prints \/ Exits \/ World

\* Go's own steps and the clock, as in SandboxExec.
ToolSpec == /\ ToolInit /\ [][ToolNext]_allVars
            /\ WF_allVars(Asked)
            /\ WF_allVars(Deadline /\ UNCHANGED toolVars)

-----------------------------------------------------------------------------
\* An answer that is not an error is about a command that ran to its end and
\* says the whole of it: all it printed, or that the rest was cut; "no
\* matches" and "no files matched" only when the search was complete and
\* empty (exec.go:68-90, 149-162, 204-221).  A runtime's client that fails by
\* itself also exits 1 with nothing on standard output, which grep cannot
\* tell from no matches.
AnswersTellTheOutcome ==
  [][Tell /\ ~answer'.error /\ ~(tool = "grep" /\ client = "failed") =>
       /\ main = "exited" /\ code \in {0, 1} /\ (code = 1 => tool = "grep")
       /\ answer'.says = "output" =>
            answer'.cut \/ answer'.shown = Joined(out, IF tool = "bash" THEN err ELSE 0)
       /\ answer'.says \in {"no matches", "no files matched"} => out = 0
     ]_allVars
=============================================================================
