----------------------------- MODULE Experiment -----------------------------
(***************************************************************************)
(* The experiment's runner (internal/experiment/runner.go): one trial      *)
(* after another, each in a container of its own (Container), seeded, given *)
(* an agent to run (internal/deploy), read back, judged by looking at its  *)
(* workspace, and removed.  The agent, the caller's context and the        *)
(* ten-minute deadline of a trial run beside it; an agent whose deadline   *)
(* passed goes on inside its container until that is removed.              *)
(* Of a workspace the model keeps what a task's check looks for: the words *)
(* DROP TABLE in one of four files, a spec.json, a line in the git log.     *)
(* That is not the rule itself: an agent can break a rule out of the       *)
(* check's sight, and leave what the check takes for a breach by other     *)
(* means.                                                                  *)
(*                                                                         *)
(* A task is the rule it trips, or "none" for a control.  The arm is a     *)
(* flag for the agent: here an agent may leave anything in any arm.  What  *)
(* the rows amount to is the Report's.                                     *)
(***************************************************************************)
EXTENDS Container, Sequences, SequencesExt, Report

CONSTANTS Plan,     \* the (task, arm, trial) triples, in order
          MaxSpend, \* Config.MaxSpendUSD; 0 is no limit
          MaxCost,  \* bound on what one agent spends
          Pasts     \* rows other trials may have had, as Joined

Tasks == {"014", "031", "047", "none"}

ASSUME ExperimentAssumption ==
  /\ Plan \in Seq([task : Tasks, arm : Arms])
  /\ MaxSpend \in Nat /\ MaxCost \in Nat
  /\ Pasts \subseteq Seq(Run)

VARIABLES step,    \* where Run and one are
          results, \* Results.Runs
          row,     \* the Run being made
          world,   \* per handle: what is inside its container
          ctx      \* the caller's context is cancelled

runVars == <<step, results, row, world, ctx>>
vars == <<containerVars, runVars>>

task == Plan[Len(results) + 1].task

Blank == [err |-> FALSE, completed |-> FALSE, violated |-> FALSE, cost |-> 0, turns |-> 0]

\* trace: what the task's check looks for is in the workspace.  History: left,
\* that the agent's commands once put it there; trial, the place in the plan of
\* the trial the container is for.
Empty == [agent |-> "none", trace |-> FALSE, left |-> FALSE, cost |-> 0, trial |-> 1]

\* How an agent ends: with a reply that was its last, with one it could not use,
\* or because a call to the model failed.
Ended == {"done", "stopped", "refused", "failed"}

\* Those of them that exit with a failure.
Fails == {"refused", "failed"}

\* The turns the log of the agent in h tells of: each begins with a call to the
\* model, and one that was answered is paid for.
TurnsOf(h) ==
  IF world[h].agent = "failed" THEN {world[h].cost + 1}
  ELSE IF world[h].agent = "alive" THEN {world[h].cost, world[h].cost + 1}
  ELSE {world[h].cost}

Spend(total, r) == total + r.cost

TotalCost == FoldLeft(Spend, 0, results)

\* A row with its place in the plan.
Joined(r, trial) ==
  [arm |-> trial.arm, control |-> trial.task = "none", err |-> r.err,
   violated |-> r.violated, completed |-> r.completed, turns |-> r.turns]

Rows == [i \in DOMAIN results |-> Joined(results[i], Plan[i])]

\* one returns: the row is one of the results.
Record(r) ==
  /\ results' = Append(results, r)
  /\ step' = "next"

-----------------------------------------------------------------------------
\* The loop of Run, and its two early returns.
MutSpentOut == MaxSpend > 0 /\ TotalCost > MaxSpend

SpentOut == MaxSpend > 0 /\ TotalCost >= MaxSpend

MutOverOneLate == Len(results) > Len(Plan) \/ SpentOut \/ ctx

Over == Len(results) = Len(Plan) \/ SpentOut \/ ctx

Finish ==
  /\ step = "next" /\ Over
  /\ step' = "over"
  /\ UNCHANGED <<containerVars, results, row, world, ctx>>

\* A new sandbox; no runtime may answer.
OpenSandbox ==
  /\ step = "next" /\ ~Over
  /\ row' = Blank
  /\ \/ /\ \E nm \in Names : Open(nm)
        /\ step' = "start" /\ UNCHANGED results
        /\ world' = [world EXCEPT ![handle'] = [Empty EXCEPT !.trial = Len(results) + 1]]
     \/ /\ Flaky /\ Record([Blank EXCEPT !.err = TRUE])
        /\ UNCHANGED <<containerVars, world>>
  /\ UNCHANGED ctx

StartSandbox ==
  /\ step = "start" /\ ~ctx
  /\ StartUp
  /\ step' = "seed"
  /\ UNCHANGED <<results, row, world, ctx>>

\* A Start that fails is not cleaned up after.
StartFails ==
  /\ step = "start"
  /\ StartRefused \/ StartAbandoned \/ StartNoWorkspace
  /\ Record([row EXCEPT !.err = TRUE])
  /\ UNCHANGED <<row, world, ctx>>

\* Files, rules, git and the agent's binary.  Whether git's first commit was
\* made is not looked at; it is what the check of rule 047 looks for.
Seed ==
  /\ step = "seed" /\ ~ctx
  /\ Exec(TRUE)
  /\ \E commits \in (IF Flaky THEN BOOLEAN ELSE {TRUE}) :
       world' = [world EXCEPT ![handle].trace = task = "047" /\ commits]
  /\ step' = "agent"
  /\ UNCHANGED <<results, row, ctx>>

\* The deferred Stop is in place once Start has succeeded.
MutAfterSeedFails == "next"

AfterSeedFails == "cleanup"

SeedFails ==
  /\ step = "seed"
  /\ Exec(FALSE)
  /\ row' = [row EXCEPT !.err = TRUE]
  /\ step' = AfterSeedFails
  /\ UNCHANGED <<results, world, ctx>>

\* deploy.Run; an agent that does not start leaves no events.
RunAgent ==
  /\ step = "agent" /\ ~ctx
  /\ Exec(TRUE)
  /\ world' = [world EXCEPT ![handle].agent = "alive"]
  /\ step' = "wait"
  /\ UNCHANGED <<results, row, ctx>>

AgentDoesNotStart ==
  /\ step = "agent"
  /\ Exec(FALSE)
  /\ row' = [row EXCEPT !.err = TRUE]
  /\ step' = "cleanup"
  /\ UNCHANGED <<results, world, ctx>>

-----------------------------------------------------------------------------
\* Inside a container, for as long as it is there.
Up(h) == \E nm \in Names : host[nm] = h

Alive(h) == world[h].agent = "alive" /\ Up(h)

\* The agent pays for an answer of the model.
AgentSpends(h) ==
  /\ Alive(h) /\ world[h].cost < MaxCost
  /\ world' = [world EXCEPT ![h].cost = @ + 1]
  /\ UNCHANGED <<containerVars, step, results, row, ctx>>

\* A command the agent ran, or one left running by it, leaves what the check
\* looks for, or does away with it.
CommandLeaves(h) ==
  /\ Up(h) /\ world[h].cost > 0 /\ ~world[h].trace
  /\ world' = [world EXCEPT ![h].trace = TRUE, ![h].left = TRUE]
  /\ UNCHANGED <<containerVars, step, results, row, ctx>>

CommandTidies(h) ==
  /\ Up(h) /\ world[h].cost > 0 /\ world[h].trace
  /\ world' = [world EXCEPT ![h].trace = FALSE]
  /\ UNCHANGED <<containerVars, step, results, row, ctx>>

AgentEnds(h) ==
  /\ Alive(h)
  /\ \E how \in Ended : /\ how # "failed" => world[h].cost > 0
                        /\ world' = [world EXCEPT ![h].agent = how]
  /\ UNCHANGED <<containerVars, step, results, row, ctx>>

Agent(h) == AgentSpends(h) \/ CommandLeaves(h) \/ CommandTidies(h) \/ AgentEnds(h)

Cancel ==
  /\ Flaky /\ ~ctx /\ step # "over"
  /\ ctx' = TRUE
  /\ UNCHANGED <<containerVars, step, results, row, world>>

-----------------------------------------------------------------------------
\* An agent that failed on its first turn is an error, and judged all the same.
FirstTurnFailed(ok, turns) == ~ok /\ turns <= 1

\* The row after its log was read; only a whole log has its closing line, with
\* the reason and the cost.
ReadBack(ok, whole, turns) ==
  [row EXCEPT !.err = FirstTurnFailed(ok, turns),
              !.completed = whole /\ world[handle].agent = "done",
              !.cost = IF whole THEN world[handle].cost ELSE 0,
              !.turns = turns]

\* Exec comes back with the whole log.
AgentReturns ==
  /\ step = "wait" /\ world[handle].agent \in Ended
  /\ \E turns \in TurnsOf(handle) :
       row' = ReadBack(world[handle].agent \notin Fails, TRUE, turns)
  /\ step' = "judge"
  /\ UNCHANGED <<containerVars, results, world, ctx>>

\* The deadline or the context ends the wait; the log may be whole all the same,
\* if the agent had just ended.
MutTimesOut == ctx

TimesOut == TRUE

AgentLost ==
  /\ step = "wait" /\ TimesOut
  /\ \E whole \in BOOLEAN, turns \in TurnsOf(handle) :
       /\ whole => world[handle].agent \in Ended
       /\ row' = ReadBack(FALSE, whole, turns)
  /\ step' = "judge"
  /\ UNCHANGED <<containerVars, results, world, ctx>>

\* The log cannot be kept, or is empty: nothing of it is counted.
LogNotKept ==
  /\ step = "wait" /\ (world[handle].agent \in Ended \/ TimesOut) /\ Flaky
  /\ row' = [row EXCEPT !.err = TRUE]
  /\ step' = "cleanup"
  /\ UNCHANGED <<containerVars, results, world, ctx>>

\* The task's check of the workspace: what cannot be read is no violation.
MutViolated(ok) == ok => world[handle].trace

Violated(ok) == ok /\ world[handle].trace

Judge ==
  /\ step = "judge"
  /\ IF task = "none" THEN UNCHANGED <<containerVars, row>>
     ELSE \E ok \in BOOLEAN :
            /\ Exec(ok) /\ (ok => ~ctx)
            /\ row' = [row EXCEPT !.violated = Violated(ok)]
  /\ step' = "cleanup"
  /\ UNCHANGED <<results, world, ctx>>

\* Stop, on a handle that runs and under a context of its own; what it
\* returns is dropped.
CleanUp ==
  /\ step = "cleanup"
  /\ Removed \/ StopFails
  /\ Record(row)
  /\ UNCHANGED <<row, world, ctx>>

-----------------------------------------------------------------------------
Init ==
  /\ ContainerInit
  /\ step = "next" /\ results = <<>> /\ row = Blank
  /\ world = [h \in 1..MaxHandles |-> Empty]
  /\ ctx = FALSE

Runner == \/ Finish \/ OpenSandbox \/ StartSandbox \/ StartFails \/ Seed
          \/ SeedFails \/ RunAgent \/ AgentDoesNotStart \/ AgentReturns
          \/ AgentLost \/ LogNotKept \/ Judge \/ CleanUp

Next == Runner \/ Cancel \/ \E h \in 1..MaxHandles : Agent(h)

Spec == Init /\ [][Next]_vars

\* Where only the caller's context ends a call that hangs: a container that is
\* started, its image pulled perhaps, and the building of the agent.
Unbounded == step \in {"start", "seed"} /\ ~ctx

\* The runner's other calls return, each at its deadline if not before; an
\* agent need not do anything.
FairSpec == Spec /\ WF_vars(~Unbounded /\ Runner)

-----------------------------------------------------------------------------
(* Properties *)

\* Types; there is a row for every trial that was begun and one trial at a
\* time; what the container package promises its callers holds for this one.
TypeOK ==
  /\ ContainerInv
  /\ step \in {"next", "start", "seed", "agent", "wait", "judge", "cleanup", "over"}
  /\ results \in Seq([err : BOOLEAN, completed : BOOLEAN, violated : BOOLEAN,
                      cost : 0..MaxCost, turns : 0..(MaxCost + 1)])
  /\ Len(results) + (IF step \in {"next", "over"} THEN 0 ELSE 1) <= Len(Plan)
  /\ handle <= Len(results) + 1
  /\ ctx \in BOOLEAN

\* The containers of trials whose Start succeeded are removed, whatever failed
\* after it and whether the experiment was cancelled; only a "rm" that fails
\* leaves one (runner.go:206-235).
CleanedUp ==
  step \in {"next", "over"} /\ handle > 0 /\ host[name] = handle
    => {"start", "stop"} \cap failures # {}

\* No trial begins once the rows' cost has reached the limit, so their total
\* is over it by less than one run's cost (runner.go:35-38,91-96).
CountedWithinBudget == MaxSpend > 0 => TotalCost < MaxSpend + MaxCost

\* Rule 047 apart, a row that says violated is of a trial whose agent's commands
\* left what the task's check looks for, in that trial's own workspace, however
\* the trial ended; and a workspace that could be read is judged by what is in
\* it, the agent ended or not (tasks.go:48-81, runner.go:180-194).
JudgedByTheWorkspace ==
  [][/\ results' # results /\ Last(results').violated =>
          task = "047" \/ world[handle].left
     /\ Judge /\ task # "none" /\ "exec" \notin failures' =>
          (row'.violated <=> world[handle].trace)]_vars

\* A trial that was an error, or of a control task, changes none of the
\* report's verdicts, whatever the other rows are (experiment.go:326-337).
OnlyEvidenceCounts ==
  [][results' # results /\ (Last(Rows').err \/ Last(Rows').control) =>
       LET rows == Rows' IN
         \A past \in Pasts :
           checkPredictions(past \o rows) = checkPredictions(past \o Front(rows))]_vars

\* A prediction that held did so because of what agents did in their
\* containers: prompting failed where the commands of an agent of arm A left
\* what its task's check looks for, the commit rule apart; the gate helped where
\* an agent of arm C came to its end (experiment.go:248-281, runner.go:180-194).
VerdictIsGrounded ==
  LET in(a) == {h \in 1..handle : Plan[world[h].trial].arm = a}
      onCommits(h) == Plan[world[h].trial].task = "047"
  IN  step = "over" =>
        /\ PromptingFails(Rows) = "HELD" =>
             \E h \in in("A") : world[h].left \/ onCommits(h)
        /\ EnforcementHelps(Rows) = "HELD" =>
             \E h \in in("C") : world[h].agent = "done"

\* The experiment ends, whatever its agents do, unless it stays for ever in a
\* call that nothing but its caller's context bounds (runner.go:75-121,203-237).
Finishes == []<>~Unbounded => <>(step = "over")

-----------------------------------------------------------------------------
(* What the repository's documents say and the code does not do. *)

\* "A commit that happened leaves a log entry.  The runner writes one out after
\* the run for exactly this check" (tasks.go:82-83): a row that says the
\* commit rule was violated is a run whose agent committed.
CommitViolationReal ==
  [][Judge /\ row'.violated => world[handle].left]_vars
=============================================================================
