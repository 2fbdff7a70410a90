---------------------------- MODULE SessionFold -----------------------------
(***************************************************************************)
(* internal/session: the state a client folds out of the event log, as a   *)
(* record, and Apply as a function from a state and an event to a state.   *)
(*                                                                         *)
(* A line of a block is the sequence of its cells or words; the columns    *)
(* they are set in, colours and fixed wording are left out.                *)
(***************************************************************************)
EXTENDS Integers, SequencesExt, Payload, Format

CONSTANTS MaxBlocks, \* State.maxBlocks; 0 keeps everything
          TrimSlack  \* trimSlack

ASSUME FoldAssumption == MaxBlocks \in Nat /\ TrimSlack \in Nat

\* A function with one more, or one changed, argument.
With(f, x, v) == [y \in DOMAIN f \cup {x} |-> IF y = x THEN v ELSE f[y]]

Without(f, S) == [y \in DOMAIN f \ S |-> f[y]]

\* A map's value, or what a missing key reads as.
Get(f, x, absent) == IF x \in DOMAIN f THEN f[x] ELSE absent

\* The cells that are there.
Cells(strings) ==
  FlattenSeq([i \in DOMAIN strings |-> IF strings[i] = "" THEN <<>> ELSE <<strings[i]>>])

NoUsage == [costTurn |-> 0, costSession |-> 0, tokensIn |-> 0, tokensOut |-> 0,
            ctxUsed |-> 0, ctxLimit |-> 0]

\* State as New returns it.
New ==
  [blocks   |-> <<>>,  refs     |-> <<>>,  order   |-> <<>>,
   rev      |-> <<>>,  proposed |-> <<>>,  outcome |-> <<>>,
   nextID   |-> 0,     dropped  |-> 0,
   state    |-> "IDLE", tone    |-> "agent", turn  |-> 0, loading |-> "",
   mode     |-> "plan", dirty   |-> "",     approval |-> <<>>,
   command  |-> "",    cwd      |-> "",     branch |-> "", model  |-> "",
   ctxLimit |-> 0,     percent  |-> 0,      label  |-> <<>>, cost |-> <<>>,
   forked   |-> FALSE, forks    |-> <<>>,   usage  |-> NoUsage,
   rules    |-> <<>>,  inScope  |-> <<>>,   goals  |-> <<>>,
   server   |-> "",    diagnostics |-> <<>>, sandbox |-> <<>>]

-----------------------------------------------------------------------------
(* Blocks *)

MutForgetNotOutcome(s, gone) ==
  [s EXCEPT !.order = Without(@, gone), !.rev = Without(@, gone),
            !.proposed = Without(@, gone)]

Forget(s, gone) ==
  [s EXCEPT !.order = Without(@, gone), !.rev = Without(@, gone),
            !.proposed = Without(@, gone), !.outcome = Without(@, gone)]

Reindex(order, refs) == [r \in DOMAIN order |-> CHOOSE i \in DOMAIN refs : refs[i] = r]

trim(s) ==
  IF MaxBlocks = 0 \/ Len(s.blocks) <= MaxBlocks + TrimSlack THEN s
  ELSE LET drop == Len(s.blocks) - MaxBlocks
           refs == SubSeq(s.refs, drop + 1, Len(s.refs))
       IN  [Forget(s, ToSet(SubSeq(s.refs, 1, drop))) EXCEPT
              !.blocks  = SubSeq(@, drop + 1, Len(@)),
              !.refs    = refs,
              !.order   = Reindex(@, refs),
              !.dropped = @ + drop]

NextID(s) == s.nextID + 1

block(s, ref, tag, tone, meta) ==
  IF ref \in DOMAIN s.order THEN s
  ELSE trim([s EXCEPT
         !.nextID = NextID(s),
         !.blocks = Append(@, [id |-> NextID(s), tag |-> tag, tone |-> tone,
                               meta |-> meta, lines |-> <<>>, rev |-> 0]),
         !.refs   = Append(@, ref),
         !.order  = With(@, ref, Len(s.blocks) + 1)])

MutTouchNever(s, ref) == s

touch(s, ref) ==
  IF ref \notin DOMAIN s.order THEN s
  ELSE LET rev == Get(s.rev, ref, 0) + 1
       IN  [s EXCEPT !.rev = With(@, ref, rev),
                     !.blocks[s.order[ref]].rev = rev]

BlockOf(s, ref) == s.blocks[s.order[ref]]

Meta(s, ref, meta) == [s EXCEPT !.blocks[s.order[ref]].meta = meta]

\* The block of ref after an event has rewritten its text, or added to it.
Rewrite(s, ref, lines) ==
  touch([s EXCEPT !.blocks[s.order[ref]].lines = lines], ref)

AddLines(s, ref, lines) == Rewrite(s, ref, BlockOf(s, ref).lines \o lines)

-----------------------------------------------------------------------------
(* Lifecycle and conversation *)

applySessionStarted(s, e) ==
  LET t == [s EXCEPT !.command = e.sandbox, !.cwd = e.cwd, !.branch = e.branch,
                     !.model = e.model, !.ctxLimit = e.ctxLimit]
  IN  IF e.ctxLimit > 0 THEN [t EXCEPT !.label = contextLabel(0, e.ctxLimit)] ELSE t

stateTone(state) == IF state \in {"EXECUTING", "DONE"} THEN "ok"
                    ELSE IF state = "AWAITING_APPROVAL" THEN "human"
                    ELSE IF state = "FAILED" THEN "deny" ELSE "agent"

Modes == {"plan", "auto", "research"}

applyTurnState(s, e) ==
  [s EXCEPT !.state   = e.state,
            !.tone    = IF s.forked /\ e.state = "EXECUTING" THEN "fork"
                        ELSE stateTone(e.state),
            !.turn    = IF e.turn > 0 THEN e.turn ELSE @,
            !.loading = e.detail,
            !.dirty   = IF e.dirty = "" THEN @ ELSE e.dirty,
            !.mode    = IF e.mode \in Modes THEN e.mode ELSE @]

Mark(step) == IF step.ok THEN "done" ELSE "failed"

applyHostLog(s, e) ==
  LET t == block(s, e.block, "HOST", "sys", <<e.meta>>)
      row(step) == Cells(<<IF e.marks THEN Mark(step) ELSE "",
                           step.label, step.value, step.note>>)
  IN  Rewrite(t, e.block, [i \in DOMAIN e.steps |-> row(e.steps[i])])

applyUserMessage(s, e) ==
  Rewrite(block(s, e.block, "YOU", "user", <<e.at>>), e.block, <<e.text>>)

\* The lines of a text, and the text of some lines.
AddWord(lines, word) ==
  IF word = Newline THEN Append(lines, <<>>)
  ELSE [lines EXCEPT ![Len(lines)] = Append(@, word)]

paragraphs(text) == FoldLeft(AddWord, <<<<>>>>, text)

Joined(lines) ==
  FlattenSeq([i \in DOMAIN lines |-> (IF i = 1 THEN <<>> ELSE <<Newline>>) \o lines[i]])

applyAgentMessage(s, e) ==
  LET t == block(s, e.block, "AGENT", "agent", <<e.meta>>)
      u == IF e.meta = "" THEN t ELSE Meta(t, e.block, <<e.meta>>)
  IN  Rewrite(u, e.block, paragraphs(e.text))

\* A chunk continues the last line and may end it.
MutLineForEachChunk(lines, chunk) == lines \o paragraphs(chunk)

Continued(lines, chunk) == paragraphs(Joined(lines) \o chunk)

applyAgentDelta(s, e) ==
  LET t == block(s, e.block, "AGENT", "agent", <<>>)
  IN  Rewrite(t, e.block, Continued(BlockOf(t, e.block).lines, e.text))

applyAgentPlan(s, e) ==
  LET meta == <<"plan", ToString(Len(e.steps))>>
      t    == Meta(block(s, e.block, "AGENT", "agent", meta), e.block, meta)
  IN  Rewrite(t, e.block, [n \in DOMAIN e.steps |-> <<ToString(n), e.steps[n]>>])

-----------------------------------------------------------------------------
(* Tools and the gate *)

\* The distinct tools, in order.
toolNames(calls) ==
  FoldLeft(LAMBDA names, c : IF Contains(names, c.tool) THEN names
                             ELSE Append(names, c.tool), <<>>, calls)

applyToolProposed(s, e) ==
  LET t == block(s, e.block, "PROPOSED", "tool", <<"pending gate">>)
      u == Rewrite(t, e.block,
             FlattenSeq([n \in DOMAIN e.calls |->
               LET c == e.calls[n]
               IN  <<<<c.tool, c.args>>>> \o IF c.detail = "" THEN <<>> ELSE <<<<c.detail>>>>]))
  IN  [u EXCEPT !.proposed = With(@, e.block, toolNames(e.calls))]

\* The rules the log names, and how many more are in scope.
applyOfinScope(s, e) ==
  LET t    == [s EXCEPT !.inScope = <<e.total>>,
                        !.rules = [i \in DOMAIN e.rules |-> [id |-> e.rules[i].id,
                                                             hot |-> FALSE]]]
      row(r) == Cells(<<r.id, r.tool, r.match, r.verdict>>)
      rest == e.total - Len(e.rules)
      lines == <<<<"resolved", ToString(e.total)>>>>
               \o [i \in DOMAIN e.rules |-> row(e.rules[i])]
               \o IF rest > 0 THEN <<<<"more", ToString(rest)>>>> ELSE <<>>
      meta == <<"scope", e.scope>>
  IN  IF e.block = "" THEN t
      ELSE Rewrite(Meta(block(t, e.block, "OFIN", "agent", meta), e.block, meta),
                   e.block, lines)

\* An unknown verdict is an error: the log contradicts itself.
Refuses(e) == e.kind = "OfinVerdict" /\ ~Valid(e.verdict)

hotRule(s, id, hot) ==
  [s EXCEPT !.rules = [i \in DOMAIN @ |-> [@[i] EXCEPT !.hot = hot /\ s.rules[i].id = id]]]

toolMeta(tools, status) == tools \o <<"allow">> \o status

\* The block stops being a proposal and becomes the run.
Allowed(s, ref) ==
  IF ref \notin DOMAIN s.order THEN s
  ELSE LET t == [s EXCEPT !.blocks[s.order[ref]].tag = "TOOL"]
           u == Meta(t, ref, toolMeta(Get(s.proposed, ref, <<>>), <<"running">>))
       IN  Rewrite(u, ref, <<>>)

verdictMeta(e) ==
  Cells(<<e.rule, e.version>>)
  \o IF e.verdict = "require_human" THEN <<"require_human">>
     ELSE IF e.micros > 0 THEN <<"gate", ToString(e.micros \div 1000)>> ELSE <<>>

MutApprovalNever(s, e) == IF e.verdict = "deny" THEN <<>> ELSE s.approval

ApprovalAfter(s, e) ==
  IF e.verdict = "deny" THEN <<>>
  ELSE <<[proposal |-> e.proposal, rule |-> e.rule, options |-> e.options]>>

Refused(s, e) ==
  LET human == e.verdict = "require_human"
      t == block(s, e.block, IF human THEN "APPROVAL" ELSE "DENIED",
                 IF human THEN "human" ELSE "deny", verdictMeta(e))
      given == Cells(<<e.headline, e.rationale>>) \o e.terms
      last == IF ~human THEN <<<<"returned as an observation">>>>
              ELSE IF e.options = <<>> THEN <<>> ELSE <<e.options>>
      lines == [i \in DOMAIN given |-> <<given[i]>>] \o last
      u == [t EXCEPT !.approval = ApprovalAfter(s, e)]
  IN  Rewrite(Meta(u, e.block, verdictMeta(e)), e.block, lines)

applyOfinVerdict(s, e) ==
  IF e.verdict = "allow" THEN hotRule(Allowed(s, e.proposal), e.rule, FALSE)
  ELSE hotRule(Refused(s, e), e.rule, TRUE)

toneFor(s, ref) == Get(s.outcome, ref, "tool")

\* The statuses of the output's lines: "err" settles the block's outcome, "ok"
\* only when nothing has, any other status leaves it.
Outcome(s, ref, lines) ==
  LET statuses == {lines[i].status : i \in DOMAIN lines}
  IN  IF "err" \in statuses THEN With(s.outcome, ref, "deny")
      ELSE IF "ok" \in statuses /\ ref \notin DOMAIN s.outcome
           THEN With(s.outcome, ref, "ok") ELSE s.outcome

applyToolOutput(s, e) ==
  LET t == block(s, e.block, "TOOL", "tool", <<>>)
      u == [t EXCEPT !.outcome = Outcome(t, e.block, e.lines)]
      v == [u EXCEPT !.blocks[u.order[e.block]].tone = toneFor(u, e.block)]
  IN  AddLines(v, e.block, [i \in DOMAIN e.lines |-> <<e.lines[i].text>>])

applyToolCompleted(s, e) ==
  LET t == block(s, e.block, "TOOL", "tool", <<>>)
      tone == IF e.status = "ok" THEN toneFor(t, e.block) ELSE "deny"
      u == [t EXCEPT !.blocks[t.order[e.block]].tone = tone]
      v == IF e.duration > 0
           THEN Meta(u, e.block, toolMeta(Get(u.proposed, e.block, <<>>),
                                          duration(e.duration)))
           ELSE u
      row(c) == <<c.op, c.path>> \o (IF c.summary # "" THEN <<c.summary>>
                                     ELSE signedChanges(c.added, c.removed))
  IN  AddLines(v, e.block, [i \in DOMAIN e.changes |-> row(e.changes[i])])

-----------------------------------------------------------------------------
(* The rail *)

goalState(g) == IF g \in {"done", "active", "denied", "waiting"} THEN g ELSE "pending"

applyGoals(s, e) ==
  [s EXCEPT !.goals = [i \in DOMAIN e.goals |-> [e.goals[i] EXCEPT !.state = goalState(@)]]]

severity(d) == IF d \in {"err", "warn", "hint", "ok"} THEN d ELSE "pending"

applyLSP(s, e) ==
  LET shown(d) == [severity |-> severity(d.severity), file |-> d.file,
                   at |-> IF d.line > 0 THEN ToString(d.line) ELSE ""]
  IN  [s EXCEPT !.server = IF e.server = "" THEN @ ELSE e.server,
                !.diagnostics = [i \in DOMAIN e.diagnostics |-> shown(e.diagnostics[i])]]

\* The first cost row: the forks side by side, once there are any.
turnCost(s, cost) ==
  IF ~s.forked \/ s.forks = <<>> THEN [key |-> <<"this turn">>, value |-> money(cost)]
  ELSE [key   |-> <<"fork">> \o [i \in DOMAIN s.forks |-> s.forks[i].name],
        value |-> FlattenSeq([i \in DOMAIN s.forks |-> moneyCompact(s.forks[i].cost)])]

refreshUsage(s) ==
  LET limit == IF s.usage.ctxLimit = 0 THEN s.ctxLimit ELSE s.usage.ctxLimit
  IN  [s EXCEPT !.percent = contextPercent(s.usage.ctxUsed, limit),
                !.label   = contextLabel(s.usage.ctxUsed, limit),
                !.cost    = <<turnCost(s, s.usage.costTurn),
                              [key |-> <<"session">>, value |-> money(s.usage.costSession)],
                              [key |-> <<"tok">>,
                               value |-> contextLabel(s.usage.tokensIn, s.usage.tokensOut)]>>]

\* applyForks' own call of refreshUsage.
AfterForking(s) == refreshUsage(s)

applyUsage(s, e) ==
  refreshUsage([s EXCEPT !.usage = [f \in DOMAIN NoUsage |-> e[f]]])

applySandbox(s, e) ==
  [s EXCEPT !.sandbox =
     <<<<IF e.count > 1 THEN "vms" ELSE "vm", e.vm>>>>
     \o (IF e.from = "" THEN <<>> ELSE <<<<"from", e.from>>>>)
     \o <<<<"size", e.size>>>>
     \o (IF e.from = "" THEN <<<<"uptime">> \o uptime(e.uptime)>> ELSE <<>>)
     \o <<<<"state", e.state>>>>]

applyForks(s, e) ==
  LET t == block(s, e.block, "FORKS", "fork", <<"independent loops">>)
      u == AfterForking([t EXCEPT !.forked = TRUE, !.forks = e.forks])
      row(f) == <<f.name, f.approach>>
                \o (IF f.state = "done" THEN <<"done">> ELSE <<"turn", ToString(f.turn)>>)
                \o signedChanges(f.added, f.removed)
                \o (IF f.testsRun > 0 THEN <<ToString(f.testsOK), ToString(f.testsRun)>>
                    ELSE <<>>)
                \o moneyCompact(f.cost)
  IN  Rewrite(u, e.block, [i \in DOMAIN e.forks |-> row(e.forks[i])])

-----------------------------------------------------------------------------
Apply(s, e) ==
  CASE e.kind = "SessionStarted" -> applySessionStarted(s, e)
    [] e.kind = "TurnState"      -> applyTurnState(s, e)
    [] e.kind = "HostLog"        -> applyHostLog(s, e)
    [] e.kind = "UserMessage"    -> applyUserMessage(s, e)
    [] e.kind = "AgentMessage"   -> applyAgentMessage(s, e)
    [] e.kind = "AgentDelta"     -> applyAgentDelta(s, e)
    [] e.kind = "AgentPlan"      -> applyAgentPlan(s, e)
    [] e.kind = "ToolProposed"   -> applyToolProposed(s, e)
    [] e.kind = "OfinScope"      -> applyOfinScope(s, e)
    [] e.kind = "OfinVerdict"    -> applyOfinVerdict(s, e)
    [] e.kind = "ToolOutput"     -> applyToolOutput(s, e)
    [] e.kind = "ToolCompleted"  -> applyToolCompleted(s, e)
    [] e.kind = "GoalsUpdated"   -> applyGoals(s, e)
    [] e.kind = "LSPUpdated"     -> applyLSP(s, e)
    [] e.kind = "UsageUpdated"   -> applyUsage(s, e)
    [] e.kind = "SandboxUpdated" -> applySandbox(s, e)
    [] e.kind = "ForksUpdated"   -> applyForks(s, e)

Fold(events) == FoldLeft(Apply, New, events)

\* View: a suspended turn takes the input line.
Asks(s) == s.approval # <<>>

-----------------------------------------------------------------------------
(* What holds of a folded state *)

\* Every block is found under its own reference, also after old blocks were
\* dropped from the front: an event can never land in another event's block
\* (session.go:225-261).
Indexed(s) ==
  /\ Len(s.refs) = Len(s.blocks)
  /\ DOMAIN s.order = ToSet(s.refs)
  /\ \A i \in DOMAIN s.refs : s.order[s.refs[i]] = i

\* Nothing is remembered of a block that was dropped, so that a block that
\* comes back under its reference starts afresh and the maps stay as small as
\* the transcript (session.go:89-97,244-261).
Bounded(s) ==
  /\ UNION {DOMAIN s.rev, DOMAIN s.proposed, DOMAIN s.outcome} \subseteq DOMAIN s.order
  /\ MaxBlocks > 0 => Len(s.blocks) <= MaxBlocks + TrimSlack

\* The part of a state the rail shows.
RailOf(s) ==
  [percent |-> s.percent, label |-> s.label, cost |-> s.cost, goals |-> s.goals,
   rules |-> s.rules, inScope |-> s.inScope, server |-> s.server,
   diagnostics |-> s.diagnostics, sandbox |-> s.sandbox, model |-> s.model]
=============================================================================
