------------------------------ MODULE Payload -------------------------------
(***************************************************************************)
(* internal/event/payload.go: what an event of each kind carries, as far   *)
(* as a client folds it.  A payload is a record whose kind field is the    *)
(* event's.  Prose is a sequence of words, of which Newline is one; money  *)
(* is in thousandths of a dollar, a duration in milliseconds, and an empty *)
(* string is a field left out.                                             *)
(***************************************************************************)
EXTENDS Integers, Sequences

Newline == "\n"
Prose   == Seq(STRING)
Ref     == STRING
Verdict == {"allow", "deny", "require_human"}

-----------------------------------------------------------------------------
(* Lifecycle and conversation *)

SessionStarted ==
  [kind : {"SessionStarted"}, sandbox : STRING, cwd : STRING, branch : STRING,
   model : STRING, ctxLimit : Nat]

TurnState ==
  [kind : {"TurnState"}, state : STRING, turn : Nat, detail : STRING,
   mode : STRING, dirty : STRING]

HostLog ==
  [kind : {"HostLog"}, block : Ref, meta : STRING, marks : BOOLEAN,
   steps : Seq([ok : BOOLEAN, label : STRING, value : STRING, note : STRING])]

UserMessage  == [kind : {"UserMessage"}, block : Ref, text : Prose, at : STRING]
AgentMessage == [kind : {"AgentMessage"}, block : Ref, text : Prose, meta : STRING]
AgentDelta   == [kind : {"AgentDelta"}, block : Ref, text : Prose]
AgentPlan    == [kind : {"AgentPlan"}, block : Ref, steps : Seq(STRING)]

-----------------------------------------------------------------------------
(* Tools and the gate *)

ToolProposed ==
  [kind : {"ToolProposed"}, block : Ref,
   calls : Seq([tool : STRING, args : STRING, detail : STRING])]

OfinScope ==
  [kind : {"OfinScope"}, block : Ref, scope : STRING, total : Nat,
   rules : Seq([id : STRING, tool : STRING, match : STRING, verdict : STRING])]

OfinVerdict ==
  [kind : {"OfinVerdict"}, block : Ref, proposal : Ref, verdict : STRING,
   rule : STRING, version : STRING, micros : Nat, headline : STRING,
   rationale : STRING, terms : Seq(STRING), options : Seq(STRING)]

\* Verdict.Valid.
Valid(verdict) == verdict \in Verdict

ToolOutput ==
  [kind : {"ToolOutput"}, block : Ref,
   lines : Seq([text : STRING, status : STRING])]

ToolCompleted ==
  [kind : {"ToolCompleted"}, block : Ref, status : STRING, duration : Nat,
   changes : Seq([op : STRING, path : STRING, added : Nat, removed : Nat,
                  summary : STRING])]

-----------------------------------------------------------------------------
(* The rail *)

GoalsUpdated ==
  [kind : {"GoalsUpdated"}, goals : Seq([state : STRING, text : STRING])]

LSPUpdated ==
  [kind : {"LSPUpdated"}, server : STRING,
   diagnostics : Seq([severity : STRING, file : STRING, line : Nat])]

UsageUpdated ==
  [kind : {"UsageUpdated"}, costTurn : Nat, costSession : Nat, tokensIn : Nat,
   tokensOut : Nat, ctxUsed : Nat, ctxLimit : Nat]

SandboxUpdated ==
  [kind : {"SandboxUpdated"}, vm : STRING, size : STRING, uptime : Nat,
   state : STRING, from : STRING, count : Nat]

ForksUpdated ==
  [kind : {"ForksUpdated"}, block : Ref,
   forks : Seq([name : STRING, approach : STRING, state : STRING, turn : Nat,
                added : Nat, removed : Nat, testsRun : Nat, testsOK : Nat,
                cost : Nat])]

Event ==
  SessionStarted \cup TurnState \cup HostLog \cup UserMessage \cup AgentMessage
  \cup AgentDelta \cup AgentPlan \cup ToolProposed \cup OfinScope \cup OfinVerdict
  \cup ToolOutput \cup ToolCompleted \cup GoalsUpdated \cup LSPUpdated
  \cup UsageUpdated \cup SandboxUpdated \cup ForksUpdated
=============================================================================
