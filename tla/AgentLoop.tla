----------------------------- MODULE AgentLoop ------------------------------
(***************************************************************************)
(* One run of agbala-agent: cmd/agbala-agent boots a gate, agent.Run       *)
(* drives the model (internal/agent/loop.go), ofin.Guarded.Execute gates   *)
(* and runs every proposed call (internal/ofin/execute.go), and the        *)
(* observer writes the session's event log (cmd/agbala-agent/eventlog.go). *)
(*                                                                         *)
(* The environment chooses the model's responses, the outcome of every     *)
(* tool, the write at which the log breaks, when a signal or the run's     *)
(* timeout cancels the context, and when the process is killed.            *)
(***************************************************************************)
EXTENDS OfinGate, SequencesExt

CONSTANTS RuleFiles, \* rule files a repository may hold; <<>> is no file
          MaxTurns,  \* Config.MaxTurns
          MaxCalls,  \* bound on the calls of one response
          Faults     \* what may go wrong: "cancel", "kill", "log"

ASSUME LoopAssumption ==
  /\ RuleFiles \subseteq Seq(RawRule)
  /\ MaxTurns \in Nat \ {0}
  /\ MaxCalls \in Nat \ {0}
  /\ Faults \subseteq {"cancel", "kill", "log"}

VARIABLES
  pc,        \* where Run is
  gate,      \* [rules, explain]: the gate NewGate built
  turn,      \* Run's turn counter
  conv,      \* req.Messages
  stop,      \* resp.StopReason as the API gave it
  calls,     \* the calls of the response being worked on
  k,         \* the call the loop over them is at
  results,   \* observations collected for this turn
  outcome,   \* what Execute returned for calls[k]
  out,       \* agent.Outcome
  log,       \* the lines of the event log that reached the host
  seq,       \* Encoder.seq
  logErr,    \* eventLog.err # nil
  cancelled, \* ctx is done
  alive,     \* FALSE once the host killed the process
  exit,      \* exit status
  trail,     \* history: every decision Execute took, with what it did
  effects    \* history: the calls whose tool ran

logVars == <<log, seq, logErr>>
envVars == <<cancelled, alive>>
history == <<trail, effects>>
vars == <<pc, gate, turn, conv, stop, calls, k, results, outcome, out, log, seq,
          logErr, cancelled, alive, exit, trail, effects>>

-----------------------------------------------------------------------------
(* Data *)

CallID == (1..MaxTurns) \X (1..MaxCalls)

\* tool.Result as the conversation carries it; rule and rationale are what
\* Decision.Observation put in a denial's text.
Result == [callID : CallID, isError : BOOLEAN, rule : Nat, rationale : BOOLEAN]

Outcome == [decision : Decision, result : Result, ran : BOOLEAN]

Message == [role : {"user", "assistant"}, calls : Seq(CallID),
            results : Seq(Result)]

Batch == BoundedSeq(Call, MaxCalls)

\* inference.StopReason, and the reasons the API can give for stopping.
APIStop == {"tool_use", "max_tokens", "refusal", "end_turn", "unlisted"}

stopReason(s) == IF s \in {"tool_use", "max_tokens", "refusal"}
                 THEN s ELSE "end_turn"

StopKind == {"done", "turn_limit", "awaiting_approval", "refused",
             "max_tokens", "error"}

Task == [role |-> "user", calls |-> <<>>, results |-> <<>>]

IDs(n) == [i \in 1..n |-> <<turn, i>>]

-----------------------------------------------------------------------------
(* The event log *)

\* what is the state, the status or the verdict; n a rule's id or the number
\* of calls.
EventKind == {"SessionStarted", "OfinScope", "TurnState", "AgentMessage",
              "ToolProposed", "OfinVerdict", "ToolOutput", "ToolCompleted"}

What == {"start", "rules", "text", "calls", "ok", "error", "PLANNING",
         "EXECUTING", "AWAITING_APPROVAL", "DONE", "FAILED"} \cup Verdicts

Event == [kind : EventKind, turn : 0..MaxTurns, what : What, n : Nat]

Ev(kind, t, what, n) == [kind |-> kind, turn |-> t, what |-> what, n |-> n]

TurnState(state) == Ev("TurnState", turn, state, 0)
AgentMessage     == Ev("AgentMessage", turn, "text", 0)
ToolProposed(n)  == Ev("ToolProposed", turn, "calls", n)
OfinVerdict(d)   == Ev("OfinVerdict", turn, d.verdict, d.rule)
ToolOutput(s)    == Ev("ToolOutput", turn, s, 0)
ToolCompleted(s) == Ev("ToolCompleted", turn, s, 0)

(***************************************************************************)
(* eventLog.append for the events of one observer call.  The first n reach *)
(* the host; the next one, if any, fails, and the error sticks: Encoder    *)
(* has numbered the failed event and the log never writes again.           *)
(***************************************************************************)
MutNeverBroken == FALSE

Numbered(evs, n) == [i \in 1..n |-> [seq |-> seq + i, event |-> evs[i]]]

Broken == logErr

append(evs) ==
  IF Broken
  THEN UNCHANGED logVars
  ELSE \E n \in IF "log" \in Faults THEN 0..Len(evs) ELSE {Len(evs)} :
         /\ log' = log \o Numbered(evs, n)
         /\ logErr' = (n < Len(evs))
         /\ seq' = IF n < Len(evs) THEN seq + n + 1 ELSE seq + n

\* eventLog.Finished.
MutStopStateNoLimit(kind) ==
  IF kind \in {"done", "turn_limit"} THEN "DONE"
  ELSE IF kind = "awaiting_approval" THEN "AWAITING_APPROVAL" ELSE "FAILED"

StopState(kind) ==
  IF kind = "done" THEN "DONE"
  ELSE IF kind = "awaiting_approval" THEN "AWAITING_APPROVAL" ELSE "FAILED"

\* out.Stop = kind; obs.Finished(out); return out -- after the events evs.
Finish(kind, evs) ==
  /\ pc' = "finished"
  /\ out' = [out EXCEPT !.stop = kind]
  /\ append(Append(evs, TurnState(StopState(kind))))

-----------------------------------------------------------------------------
Init ==
  /\ pc = "boot"
  /\ gate = [rules |-> <<>>, explain |-> TRUE]
  /\ turn = 1
  /\ conv = <<Task>>
  /\ stop = "end_turn"
  /\ calls = <<>>
  /\ k = 1
  /\ results = <<>>
  /\ outcome = <<>>
  /\ out = [stop |-> "turn_limit", denials |-> 0, rules |-> <<>>]
  /\ log = <<>> /\ seq = 0 /\ logErr = FALSE
  /\ cancelled = FALSE /\ alive = TRUE
  /\ exit = "running"
  /\ trail = <<>> /\ effects = <<>>

(***************************************************************************)
(* main.run up to agent.Run: read and validate the rules, build the gate   *)
(* (empty under --no-gate, silent under --without-rationale), make the     *)
(* client of the model, open the log.  A rule file that does not parse, or *)
(* an environment no client can be made from, ends the process before the  *)
(* log has a line.                                                         *)
(***************************************************************************)
SessionStarted == Ev("SessionStarted", 0, "start", 0)
OfinScope      == Ev("OfinScope", 0, "rules", 0)

Boot ==
  /\ alive /\ pc = "boot"
  /\ \E file \in RuleFiles \cup {<<>>}, noGate, withoutRationale, model \in BOOLEAN :
       IF Parses(file) /\ model
       THEN /\ gate' = [rules   |-> IF noGate THEN <<>> ELSE file,
                        explain |-> ~withoutRationale]
            /\ append(IF file = <<>> THEN <<SessionStarted>>
                      ELSE <<SessionStarted, OfinScope>>)
            /\ pc' = "plan"
            /\ UNCHANGED exit
       ELSE /\ pc' = "exited"
            /\ exit' = "error"
            /\ UNCHANGED <<gate, log, seq, logErr>>
  /\ UNCHANGED <<turn, conv, stop, calls, k, results, outcome, out, envVars, history>>

\* The head of Run's loop.
InLimit == turn <= MaxTurns

Planning ==
  /\ alive /\ pc = "plan" /\ InLimit
  /\ append(<<TurnState("PLANNING")>>)
  /\ pc' = "complete"
  /\ UNCHANGED <<gate, turn, conv, stop, calls, k, results, outcome, out, envVars,
                 exit, history>>

\* The loop's condition fails with out.Stop still StopTurnLimit; out.Turns is
\* then the last turn that ran.
TurnLimit ==
  /\ alive /\ pc = "plan" /\ ~InLimit
  /\ pc' = "finished"
  /\ append(<<[TurnState(StopState("turn_limit")) EXCEPT !.turn = turn - 1]>>)
  /\ UNCHANGED <<gate, turn, conv, stop, calls, k, results, outcome, out, envVars,
                 exit, history>>

\* Complete returns an error, and always does once its context is done.
CompleteFails ==
  /\ alive /\ pc = "complete"
  /\ Finish("error", <<>>)
  /\ UNCHANGED <<gate, turn, conv, stop, calls, k, results, outcome, envVars, exit,
                 history>>

(***************************************************************************)
(* Complete returns a response and Run handles it: a refusal or a          *)
(* truncated response ends the run unread, a response without calls ends   *)
(* it, and otherwise the batch goes to the gate.                           *)
(***************************************************************************)
Truncated(s) == stopReason(s) \in {"refusal", "max_tokens"}

Refused(s) ==
  /\ Truncated(s)
  /\ Finish(IF stopReason(s) = "refusal" THEN "refused" ELSE "max_tokens", <<>>)
  /\ UNCHANGED <<conv, calls, k, results>>

Answered(batch, text) ==
  LET said     == IF text THEN <<AgentMessage>> ELSE <<>>
      proposal == <<ToolProposed(Len(batch)), TurnState("EXECUTING")>>
  IN  /\ conv' = Append(conv, [role |-> "assistant", calls |-> IDs(Len(batch)),
                               results |-> <<>>])
      /\ IF batch = <<>>
         THEN /\ Finish("done", said)
              /\ UNCHANGED <<calls, k, results>>
         ELSE /\ append(said \o proposal)
              /\ calls' = batch
              /\ k' = 1
              /\ results' = <<>>
              /\ pc' = "gate"
              /\ UNCHANGED out

Complete ==
  /\ alive /\ pc = "complete" /\ ~cancelled
  /\ stop' \in APIStop
  /\ \/ Refused(stop')
     \/ /\ ~Truncated(stop')
        /\ \E batch \in Batch, text \in BOOLEAN : Answered(batch, text)
  /\ UNCHANGED <<gate, turn, outcome, envVars, exit, history>>

(***************************************************************************)
(* Guarded.Execute: no path to a tool's Run but through an allow decision. *)
(* The tools report every failure as an error result, so Run's own error   *)
(* never occurs with the six of tool.NewSet.                               *)
(***************************************************************************)
MutRunsUngated(d, call) == call.tool \in KnownTools

Runs(d, call) == Allowed(d) /\ call.tool \in KnownTools

Outcomes(call, id) ==
  LET d == Evaluate(gate.rules, gate.explain, call)
      result(isError) == [callID |-> id, isError |-> isError,
                          rule |-> IF Allowed(d) THEN 0 ELSE d.rule,
                          rationale |-> d.rationale]
      run == Runs(d, call)
  IN  {[decision |-> d, result |-> result(e), ran |-> run] :
         e \in IF run THEN BOOLEAN ELSE {TRUE}}

Execute ==
  /\ alive /\ pc = "gate" /\ k <= Len(calls)
  /\ outcome' \in Outcomes(calls[k], <<turn, k>>)
  /\ trail' = Append(trail, [call |-> calls[k], turn |-> turn,
                             verdict |-> outcome'.decision.verdict,
                             rule |-> outcome'.decision.rule,
                             ran |-> outcome'.ran,
                             isError |-> outcome'.result.isError])
  /\ effects' = IF outcome'.ran THEN Append(effects, calls[k]) ELSE effects
  /\ pc' = "observe"
  /\ UNCHANGED <<gate, turn, conv, stop, calls, k, results, out, logVars, envVars,
                 exit>>

(***************************************************************************)
(* The rest of the loop body over the calls: log the verdict, suspend on   *)
(* require_human, count a denial, log the output of a tool that ran, and   *)
(* collect the result.                                                     *)
(***************************************************************************)
MutVerdictRefusalsOnly(d) ==
  CASE d.verdict = "allow"         -> <<>>
    [] d.verdict = "deny"          -> <<OfinVerdict(d)>>
    [] d.verdict = "require_human" -> <<OfinVerdict(d),
                                        TurnState("AWAITING_APPROVAL")>>

VerdictEvents(d) ==
  IF d.verdict = "require_human"
  THEN <<OfinVerdict(d), TurnState("AWAITING_APPROVAL")>>
  ELSE <<OfinVerdict(d)>>

Status(isError) == IF isError THEN "error" ELSE "ok"

OutputEvents(o) ==
  IF o.ran
  THEN <<ToolOutput(Status(o.result.isError)),
         ToolCompleted(Status(o.result.isError))>>
  ELSE <<>>

MutCountNotRan(o) ==
  IF o.ran THEN out
  ELSE [out EXCEPT !.denials = @ + 1, !.rules = Append(@, o.decision.rule)]

Count(o) ==
  IF Allowed(o.decision) THEN out
  ELSE [out EXCEPT !.denials = @ + 1, !.rules = Append(@, o.decision.rule)]

MutCollectRan(o) == IF o.ran THEN Append(results, o.result) ELSE results

Collect(o) == Append(results, o.result)

MutNeverHolds(d) == FALSE

Holds(d) == d.verdict = "require_human"

MutSuspendWaits ==
  /\ alive /\ pc = "observe" /\ Holds(outcome.decision)
  /\ UNCHANGED vars

Suspend ==
  /\ alive /\ pc = "observe" /\ Holds(outcome.decision)
  /\ Finish("awaiting_approval", VerdictEvents(outcome.decision))
  /\ UNCHANGED <<gate, turn, conv, stop, calls, k, results, outcome, envVars,
                 exit, history>>

Observe ==
  /\ alive /\ pc = "observe" /\ ~Holds(outcome.decision)
  /\ append(VerdictEvents(outcome.decision) \o OutputEvents(outcome))
  /\ out' = Count(outcome)
  /\ results' = Collect(outcome)
  /\ k' = k + 1
  /\ pc' = "gate"
  /\ UNCHANGED <<gate, turn, conv, stop, calls, outcome, envVars, exit, history>>

\* Every call of the batch has its result: they rejoin the conversation, and
\* the response goes out of scope.
EndTurn ==
  /\ alive /\ pc = "gate" /\ k > Len(calls)
  /\ conv' = Append(conv, [role |-> "user", calls |-> <<>>,
                           results |-> results])
  /\ turn' = turn + 1
  /\ stop' = "end_turn"
  /\ pc' = "plan"
  /\ UNCHANGED <<gate, calls, k, results, outcome, out, logVars, envVars, exit,
                 history>>

\* main.run after Run: an Err fails the process, log.Close's error is dropped.
Exit ==
  /\ alive /\ pc = "finished"
  /\ pc' = "exited"
  /\ exit' = IF out.stop \in {"error", "refused", "max_tokens"}
             THEN "error" ELSE "ok"
  /\ UNCHANGED <<gate, turn, conv, stop, calls, k, results, outcome, out, logVars,
                 envVars, history>>

\* SIGINT, SIGTERM or the run's timeout.
Cancel ==
  /\ "cancel" \in Faults
  /\ alive /\ ~cancelled /\ pc \notin {"boot", "exited"}
  /\ cancelled' = TRUE
  /\ UNCHANGED <<pc, gate, turn, conv, stop, calls, k, results, outcome, out,
                 logVars, alive, exit, history>>

\* The host removes the container.
Kill ==
  /\ "kill" \in Faults
  /\ alive /\ pc # "exited"
  /\ alive' = FALSE
  /\ UNCHANGED <<pc, gate, turn, conv, stop, calls, k, results, outcome, out,
                 logVars, cancelled, exit, history>>

Step == \/ Boot \/ Planning \/ TurnLimit \/ CompleteFails \/ Complete
        \/ Execute \/ Suspend \/ Observe \/ EndTurn \/ Exit

Next == Step \/ Cancel \/ Kill

Spec == Init /\ [][Next]_vars

\* A tool is at work on the call the batch is at.
InTool ==
  /\ pc = "gate" /\ k <= Len(calls)
  /\ Runs(Evaluate(gate.rules, gate.explain, calls[k]), calls[k])

(***************************************************************************)
(* A live process takes its steps, but for one: nothing is assumed of a    *)
(* tool.  bash does not return while a job it started holds its output     *)
(* (local.go:81), deadline or not.  The rest is straight-line code, a      *)
(* write to the log that is taken or fails, and a model call bounded by    *)
(* the run's timeout, after which Complete can only fail.                  *)
(***************************************************************************)
FairSpec == Spec /\ WF_vars(~InTool /\ Step)

-----------------------------------------------------------------------------
(* Properties *)

Decided == [call : Call, turn : 1..MaxTurns, verdict : Verdicts, rule : Nat,
            ran : BOOLEAN, isError : BOOLEAN]

\* Every variable of the run keeps its type; the loop's locals are in range
\* where they are read.
TypeOK ==
  /\ pc \in {"boot", "plan", "complete", "gate", "observe", "finished",
             "exited"}
  /\ gate \in [rules : Seq(RawRule), explain : BOOLEAN]
  /\ turn \in 1..(MaxTurns + 1)
  /\ pc \in {"complete", "gate", "observe"} => turn <= MaxTurns
  /\ conv \in Seq(Message)
  /\ stop \in APIStop
  /\ calls \in Batch
  /\ k \in 1..(MaxCalls + 1)
  /\ pc = "observe" => k \in DOMAIN calls
  /\ results \in Seq(Result)
  /\ pc = "observe" => outcome \in Outcome
  /\ out \in [stop : StopKind, denials : Nat, rules : Seq(Nat)]
  /\ log \in Seq([seq : Nat, event : Event])
  /\ seq \in Nat /\ logErr \in BOOLEAN
  /\ cancelled \in BOOLEAN /\ alive \in BOOLEAN
  /\ exit \in {"running", "ok", "error"}
  /\ trail \in Seq(Decided)
  /\ effects \in Seq(Call)

\* Turn t's calls and results are in the conversation, in order.
AnsweredTurn(t) ==
  /\ conv[2*t].role = "assistant"
  /\ conv[2*t].calls # <<>>
  /\ conv[2*t + 1].role = "user"
  /\ [i \in DOMAIN conv[2*t + 1].results |-> conv[2*t + 1].results[i].callID]
       = conv[2*t].calls

\* Whenever the model is asked to continue, every call it ever proposed has
\* been answered: each assistant message carries the calls of its turn, and
\* the user message after it holds exactly their results, in order, denials
\* and unknown tools included (loop.go:207-238).
ConversationWellFormed ==
  pc \in {"boot", "plan", "complete"} =>
    /\ Len(conv) = 2*turn - 1
    /\ conv[1] = Task
    /\ \A t \in 1..(turn - 1) : AnsweredTurn(t)

\* Outside arm B, an agent never reads a bare denial: what it is told names
\* the rule and carries its rationale, which only holds because a file with a
\* blocking rule that has none is refused at boot (rule.go:97-104).
DenialsExplained ==
  gate.explain =>
    \A m \in DOMAIN conv : \A i \in DOMAIN conv[m].results :
      LET r == conv[m].results[i] IN r.rule # 0 => r.rationale

\* A call that needs a person is the last thing the run decides: the calls
\* after it in the batch, and every later turn, never reach the gate
\* (loop.go:216-222).
SuspensionIsFinal ==
  \A i \in DOMAIN trail : trail[i].verdict = "require_human" =>
    /\ i = Len(trail)
    /\ pc \in {"observe", "finished", "exited"}
    /\ pc # "observe" => out.stop = "awaiting_approval"

\* The parts of the inductive invariant.
RulesValid == \A i \in DOMAIN gate.rules : Validate(gate.rules[i])

TurnInProgress ==
  pc \in {"gate", "observe"} =>
    /\ Len(conv) = 2*turn
    /\ conv[1] = Task
    /\ \A t \in 1..(turn - 1) : AnsweredTurn(t)
    /\ calls # <<>>
    /\ conv[2*turn].role = "assistant"
    /\ conv[2*turn].calls = IDs(Len(calls))
    /\ k <= Len(calls) + 1
    /\ Len(results) = k - 1
    /\ \A i \in DOMAIN results : results[i].callID = <<turn, i>>

Observed ==
  pc = "observe" =>
    /\ outcome.result.callID = <<turn, k>>
    /\ trail # <<>>
    /\ trail[Len(trail)].verdict = outcome.decision.verdict

Working == pc \notin {"finished", "exited"} => out.stop = "turn_limit"

\* The inductive invariant behind the two: also inside a turn, the results
\* collected so far answer the first k-1 calls of the last message, the rules
\* in force are validated ones, the decision being observed is the last of the
\* trail, and no run that is still working has a StopKind of its own.
LoopInv == /\ TypeOK /\ RulesValid /\ Working
           /\ ConversationWellFormed /\ TurnInProgress
           /\ SuspensionIsFinal /\ Observed

\* The last turn that ran.
LastTurn == IF turn > MaxTurns THEN MaxTurns ELSE turn

\* The decisions the loop is done with.
Settled == IF pc = "observe" THEN Front(trail) ELSE trail

Denied(rules, t) == IF t.verdict = "deny" THEN Append(rules, t.rule) ELSE rules

\* The calls the gate refused are exactly the ones Outcome counts and whose
\* rules it lists, in order (loop.go:223-226); the decision being observed is
\* not counted yet.
DenialsCounted ==
  LET denied == FoldLeft(Denied, <<>>, Settled)
  IN  out.denials = Len(denied) /\ out.rules = denied

\* The log numbers its events 1, 2, 3, ... with no hole, also after a failed
\* write (eventlog.go:33-40, event.go:23-28).
LogGapless == \A i \in DOMAIN log : log[i].seq = i

\* What the log says of one decision.
AuditEvents(t) ==
  <<Ev("OfinVerdict", t.turn, t.verdict, t.rule)>> \o
  (IF t.ran THEN <<Ev("ToolOutput", t.turn, Status(t.isError), 0),
                   Ev("ToolCompleted", t.turn, Status(t.isError), 0)>>
   ELSE <<>>)

Audited(happened, t) == happened \o AuditEvents(t)

Events == [i \in DOMAIN log |-> log[i].event]

OfTheGate(logged, e) ==
  IF e.kind \in {"OfinVerdict", "ToolOutput", "ToolCompleted"} THEN Append(logged, e)
  ELSE logged

\* The audit trail is the run's own history cut short at most: the gate's
\* events in the log are a prefix of what was decided and run, in order, and
\* all of it when the run ended with the log intact (eventlog.go:95-127).
AuditTrail ==
  LET happened == FoldLeft(Audited, <<>>, trail)
      logged   == FoldLeft(OfTheGate, <<>>, Events)
  IN  /\ IsPrefix(logged, happened)
      /\ pc \in {"finished", "exited"} /\ ~logErr => logged = happened

\* DONE and FAILED close the log: nothing follows them, no run that is still
\* working has logged one, and an intact log of a run that booted ends with
\* the state of its StopKind (eventlog.go:130-143).
ClosedOnce ==
  /\ \A i \in DOMAIN log : log[i].event.what \in {"DONE", "FAILED"} =>
       i = Len(log) /\ pc \in {"finished", "exited"}
  /\ pc = "finished" /\ ~logErr =>
       LET last == Last(log).event.what
       IN  /\ last = "DONE" <=> out.stop = "done"
           /\ last = "AWAITING_APPROVAL" <=> out.stop = "awaiting_approval"

\* A process nobody kills ends, with an exit status, whatever the model and
\* the tools answer, unless a tool never gives back the call it is at work on
\* (loop.go:164-243).
Terminates == []<>~InTool => <>(pc = "exited" \/ ~alive)

-----------------------------------------------------------------------------
(* The loop implements GovernedLoop. *)

Held == \/ pc = "observe" /\ outcome.decision.verdict = "require_human"
        \/ pc \in {"finished", "exited"} /\ out.stop = "awaiting_approval"

phaseBar == IF Held THEN "held"
            ELSE IF pc = "boot" THEN "idle"
            ELSE IF pc \in {"plan", "complete"} THEN "deciding"
            ELSE IF pc \in {"gate", "observe"} THEN "acting"
            ELSE "over"

policyBar == [c \in Call |-> Evaluate(gate.rules, gate.explain, c).verdict]

\* A batch is pending from the call the loop is at; one decided but not yet
\* observed is no longer pending.
pendingBar ==
  IF Held \/ pc \in {"gate", "observe"}
  THEN SubSeq(calls, IF pc = "gate" THEN k ELSE k + 1, Len(calls))
  ELSE <<>>

Governed == INSTANCE GovernedLoop WITH
  phase <- phaseBar, policy <- policyBar, pending <- pendingBar

\* Every run is one GovernedLoop allows: calls are decided in order by the
\* rules read at boot, only an allowed one acts, and one that is held ends
\* the run.
ImplementsGovernedLoop == Governed!Spec

-----------------------------------------------------------------------------
(* What the repository's documents say and the code does not do. *)

\* "treating an unknown stop as 'the turn is over' fails closed rather than
\* looping" (anthropic.go:124-126): an unlisted stop reason ends the run.
UnlistedStopEndsTurn ==
  stop = "unlisted" => pc \notin {"gate", "observe"}
=============================================================================
