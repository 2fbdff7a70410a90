# agbala in TLA+

Specifications of agbala, a governed coding agent: an agent process that may
only act through a rule gate, the event log it writes, the terminal client that
folds that log, the sandboxes it runs in, and the experiment that measures
whether the gate works. The modules are translated from the Go source; TLC
checks them on small instances, and TLAPS proves for every instance what they
promise of the agent loop and its log, the tools, the stream, the session fold
and the client, the frame on the screen, the containers and the experiment.

Paths below are relative to `src/`; `internal/` is left out where it is clear.

## 1. The system

| Component | State it keeps | Operations | Talks to |
|---|---|---|---|
| rules and gate (`ofin/rule,gate,load`) | a rule list, a flag that blanks rationales | Validate, Parse, Matches, Evaluate | called by the executor |
| gated executor (`ofin/execute`) | none | Execute: decide, then run or answer | tools, gate |
| agent loop (`agent/loop`) | conversation, turn, outcome | Run | model, executor, observer |
| agent process (`cmd/agbala-agent`) | the log's encoder and its first error | boot, the observer's eight calls, exit | stdout: the log |
| file tools (`tool/file,path`) | the contents last recorded for each path | read, write, edit | sandbox |
| exec tools (`tool/exec,tool`) | none | bash, grep, glob: run one command, answer from its Result | sandbox |
| event codec (`event/*`) | last number written, last number read | Append, Next, checkSeq | the log |
| stream reader (`stream`) | a bounded channel, one report | a goroutine: decode, pace, send, stop | codec, client |
| session fold (`session`) | blocks, index by reference, revisions, rail, approval | Apply, Fold, trim | client |
| client (`tui`, `ui/cache`, `ui/viewport`) | folded session, render cache, scroll | resize, event, end of stream, keys | reader, terminal |
| layout and drawing (`ui/layout,rail,block,chrome`) | none | Frame and its regions, Render of a block | client |
| sandboxes (`sandbox/*`) | a handle's name and whether it runs | Start, Exec, ReadFile, WriteFile, Stop | processes, docker or podman |
| experiment (`experiment/*`, `deploy`) | rows, budget | trial after trial, summary, predictions | containers, logs |

They interact by calls inside a process, by the event log between the agent and
everything that looks at it, by a channel between the reader and the client, and
by the daemon and the workspace between the experiment and its agents.

What is hard about it:

- *protocol*: a conversation in which every proposed call is answered once, in
  order, though calls are refused, unknown, or held for a person in the middle
  of a batch;
- *crashes*: the process may be killed, its context cancelled, or its log broken
  between any two steps, and the log must stay true;
- *concurrency*: writer, reader and client; a command, its background jobs, the
  deadline and `Wait`; an agent that outlives its deadline inside a container;
  another process writing a file in the middle of an edit;
- *stale state*: the contents recorded for a file, the render cache, a block
  index over a transcript that is trimmed from the front;
- *boundaries*: budgets, channel capacity, scroll positions, path spellings,
  rows of a screen that is too narrow, words that are too long;
- *partial failure*: a container runtime that fails on either side of each call.

What makes each part correct is listed property by property in section 4; the
hazards, each at its line, are in `PROJECT.json`.

## 2. Modules

```
OfinGate  <-  AgentLoop  <-  RunSummary  <-  MCAgentLoop
                 |  \            \-- AgentLoopProofs  <-  RunRecordProofs
                 |   \-- GovernedLoop (refined)            (with Transcript)
                 \-- Transcript <- MCTranscript
Payload, Format <- SessionFold  (instantiated by Transcript)
                       \--- Client <- MCClient          TranscriptPane (instantiated
                                \--- ClientProofs         by Client and Layout)
TextBlock <- Layout <- MCLayout
               \----- LayoutProofs
EventStream (refines Feed) <- EventStreamProofs
SandboxExec <- ExecTools            FileTools <- MCFileTools
                   \---- ToolProofs -----/
Container, Report <- Experiment <- MCExperiment
                              \--- ExperimentProofs
Folding  (instantiated by the proofs with each operator the code folds)
```

- **OfinGate** - rules, validation, parsing, matching, the first-match decision.
  A call is a tool and a subject; a pattern is the set of subjects it matches.
  Pure operators.
- **AgentLoop** - one run. `pc` is the place in `Runner.Run`; `Planning`,
  `Complete`, `CompleteFails`, `Execute`, `Suspend`, `Observe`, `EndTurn`,
  `TurnLimit` are its steps, `Boot` and `Exit` the process around it. The events
  of one observer call are one `append`: all of them reach the host, or a prefix
  does and the log is broken for good. `trail` and `effects` are history
  variables: what was decided, and what ran.
- **GovernedLoop** - the abstract specification: calls decided one at a time by
  a policy fixed at boot, only an allowed one acts, a held one ends the run.
  `AgentLoop` instantiates it with a refinement mapping.
- **RunSummary** - `readSummary` over the logs that `AgentLoop` can produce,
  whole or cut.
- **FileTools** - read, write and edit, with path resolution. `EditCheck` and
  `EditWrite` are two steps because another process may write between
  `ReadFile` and `WriteFile`; `shown`, `told` and `quiet` are history.
- **ExecTools** - a call of bash, grep or glob over the one command of
  `SandboxExec`: `Reject`, `Starts`, `Waits` and `Tell` are the call's steps,
  `Prints`, `Exits` and `World` everybody else's. Output is a number of units.
- **EventStream** - encoder, log, reader goroutine, channel, pump and client.
- **Feed** - the abstract specification of that: the log's events one after the
  other up to the first damage, one true reason for the end, and the end after
  the last event. `EventStream` instantiates it.
- **Payload** - the kinds of event and the fields each carries.
- **Format** - the figures of the rail's labels, with their rounding.
- **SessionFold** - `Apply` as a function from a state and an event to a state,
  for every payload. A rail is the rows and labels the terminal shows.
- **Client** - the terminal: the fold, the cache, the scroll position, every key.
- **TranscriptPane** - `Window` and `Viewport` of `ui/viewport.go` as operators.
- **TextBlock** - a block of the transcript, wrapped and drawn: `fit`, `wrapText`,
  `Render`. A character is the cells it takes, a word a sequence of those.
- **Layout** - the status bar, the transcript, the composer and the rail as rows
  of cells, and `Frame`, which puts them side by side; a terminal that resizes.
- **Transcript** - `AgentLoop` and a client that folds its log, any distance
  behind.
- **SandboxExec** - one command; the variable `remote` tells a local sandbox
  from a container's, and is chosen in the initial state.
- **Container** - handles and the containers on the host; any caller.
- **Experiment** - the runner, composed with `Container`; agents run beside it.
- **Report** - an arm's sums and the verdicts on the predictions: operators on
  rows, which `Experiment` applies to the rows it has recorded.

`MC*` modules hold the values of constants, and nothing else; `*Proofs` modules
and `Folding` hold theorems (section 6). A definition whose
name begins with `Mut` is a plausible mistake in the definition that follows it;
the runs show that the property named for it in `PROJECT.json` would notice.

### Abstractions

Text, colours, JSON, prices, regular expressions and prompts are abstracted to
what the properties tell apart. A file is a sequence of tokens, a block's text a
sequence of lines, a rate a pair of counts (the code's floating-point comparison
against 0.1 may differ at exact equality). `tool.Run` never returns a Go error
with the six tools of `tool.NewSet`, so that branch of the loop does not occur.
The column stops at which the fold sets the parts of a line, and fixed wording,
are left out; so are glyphs and styles of a row, of which its width remains. A
tab in a line's text is not modelled: its width depends on the terminal.

## 3. Fairness

- `AgentLoop!FairSpec` - weak fairness of the process's own steps but for a
  tool's: the loop is straight-line code, a write to the log is taken or fails,
  and a model call ends at the run's timeout. A tool need not return: `bash` does
  not while a background job holds its output (`local.go:81`, section 5). So
  `Terminates` says that a run ends unless it stays in one tool's call for ever.
  No fairness for cancellation or kill.
- `EventStream!FairSpec` - the goroutine and Bubble Tea run; nothing makes a
  writer write, end its log, or a person quit.
- `Feed!Spec` - a client that stays is shown what there is and told the reason;
  what `EventStream!FairSpec` must and does implement.
- `SandboxExec!FairSpec`, `ExecTools!ToolSpec` - Go's steps, and the clock.
  Nothing makes a command or its jobs end.
- `Experiment!FairSpec` - the runner's steps that have a deadline: probing for a
  runtime, each command in a container, the agent, the clean-up. Starting a
  container (`container.go:140`, `148`) and building the agent (`deploy.go:51-59`)
  have none but the caller's context: nothing makes those steps (`Unbounded`)
  happen until it is cancelled, and `Finishes` is of experiments that do not stay
  in one for ever. An agent need not do anything.

## 4. Runs

| Run | Bounds | What it shows |
|---|---|---|
| `AgentLoop` | 2 turns, 2 calls, 4 calls to choose from, one rule file with all verdicts | the inductive invariant; the conversation is well-formed; denials are counted; the row agrees with the run; the loop refines `GovernedLoop` |
| `AgentLoopFaults` | 2 turns, 1 call, 4 rule files (two that boot refuses), cancel, kill, log failure | a denial is explained; the log is gapless, a true prefix, closed once; a row never overstates; the run ends unless a tool keeps it |
| `FileTools` | 2 files, 3 contents, 8 spellings, a link | edits are informed; an agent alone is never refused; nothing outside is written |
| `ExecTools` | 2 jobs, statuses 0, 1, 2, 3 units of output each way, a limit of 4 | what OK means; a call returns unless held; what the model is told is the whole of what happened |
| `EventStream` | 4 lines, channel of 2, six kinds of damage | delivery in order; the stream refines `Feed`; everything is shown; cancellation ends a wait |
| `Client` | 4 events of 8, 2 scenes with every other kind, limit 1 and slack 1, 2 widths | index, memory, cache, cost, scroll, window; how news arrives does not show |
| `Layout` | texts of 0 to 120 cells, prose of up to 3 words, widths 1 to 10 and around 46 and 100, 5 heights | the frame is the terminal's size; wrapping loses no text |
| `Transcript` | 1 turn, 2 calls, kill and log failure | the client agrees with the run when it caught up and is never ahead of it |
| `Experiment` | 2 trials, 2 names, budget 1, alone or after one trial of each arm | clean-up, budget, judgement, other containers, the end; what moves a verdict |

Why the bounds are enough. Two turns are needed for anything that crosses a
turn (the answered turn before, the suspension after); two calls for a batch
that is cut by a suspension; one rule file has an exception before a broad
rule. A limit of one block with a slack of one makes a trim happen at the third
block, and a fourth event can then hit a dropped reference. A channel of two is
full after two of four lines. Three units on each stream and a limit of four
give outputs that fit, just fit with the line break between them, and are cut.
The widths of `Layout` are those at which a region's fixed part stops fitting,
and the two thresholds of the rail; each screen differs from a plain one in one
region, which is sound because no region reads another's texts. The rows an
experiment adds to one past trial of each arm put every prediction at the point
where one row decides it. Two names collide or do not; two trials suffice
for a container left by the first to meet the second.

Deadlock is not checked in the runs whose system really stops: an agent exits, a
client quits, an experiment ends, a command returns, a log is complete.
`FileTools` and `Layout` never stop and check it.

Some properties in words:

- `ConversationWellFormed` - when the model is asked again, every assistant
  message is followed by exactly its results, in order.
- `AuditTrail` - the gate's events in the log are a prefix of what was decided
  and run; all of it if the run ended with the log intact.
- `NeverOverstates` - whatever part of a log survives, its row claims no
  completion, denial or turn that did not happen.
- `EditsAreInformed` - an edit is applied only over contents the agent has been
  shown, or of which it was told that they had changed.
- `ReaderInv` - folded, on its way and held by the reader, together, are the
  log's events up to the first damage, none missing and none twice; the channel
  and the pump hold no more than they may.
- `ImplementsFeed` - to the one who watches, goroutine, channel and pump are the
  log: a nil error only for a log read to its end, the end after the last event,
  and nothing withheld for ever.
- `AnswersTellTheOutcome` - an answer that is not an error is about a command
  that ran to its end, and says all it printed or that the rest was cut.
- `ClientInv` - after any number of trims every event finds its block, nothing
  dropped comes back, fold and cache stay bounded, the scroll position is valid.
- `Fresh` and `CostsWhatChanged` - the cache shows what a fresh layout would,
  and lays out only what changed.
- `TranscriptIsTheLog` - what a person decides here changes only state, mode and
  approval; everything else is the fold of the log.
- `ArrivalDoesNotShow` - the rail is the same in whichever order its events came,
  and a message the same however it was cut into chunks.
- `ShowsTheWindow` - the walk from the newest block gives the rows that laying
  out everything would give.
- `FrameIsTheTerminal`, `WrapKeepsTheText` - every row of every frame has the
  terminal's width; wrapping loses, repeats and reorders no character and ends
  unless a character is wider than the row.
- `CleanedUp` - after a trial whose Start succeeded its container is gone,
  unless the removal itself failed.
- `JudgedByTheWorkspace` - rule 047 apart, a row says violated only if commands of
  that trial's agent left, in that trial's own workspace, what the task's check
  looks for, however the trial ended; and a workspace that can be read is judged
  by what is in it. It does not say that the agent broke the rule: the check is
  not the rule (section 5).
- `OnlyEvidenceCounts` and `VerdictIsGrounded` - the row of a failed trial or a
  control task moves no verdict; and a prediction that held did so because of
  what agents did in their containers: left what a check looks for, or came to
  their end; the commit rule apart.

## 5. Where documents and code part

Three have a run that shows them:

1. `AgentLoopUnlistedStop` - `inference/anthropic.go:124-126` says an unlisted
   stop reason ends the turn; `agent/loop.go:197` goes by the calls alone.
2. `SandboxExecPrompt` - `sandbox/sandbox.go:23-24` says every call returns
   promptly when cancelled; a background job holding the output keeps
   `local.Exec` waiting (`local.go:81`, no `WaitDelay`).
3. `ExperimentCommit` - `experiment/tasks.go:82-83` takes any line of the git log
   for a commit of the agent; the runner has made one itself
   (`runner.go:225-228`).

The others were met while translating and are told here only:

- the log's failure is dropped by `main.go:98`, though `eventlog.go:30-32` says
  it is reported;
- the result of an unknown tool is not logged (`loop.go:227`), though
  `PRODUCT_SPEC.md:141` says every result is;
- EXECUTING is logged before the gate has decided (`eventlog.go:92`), against the
  loop diagram (`PRODUCT_SPEC.md:89-91`);
- a stale edit is recorded as seen (`file.go:193`), so repeating it passes, though
  the tool's description (`file.go:147-148`) says it is refused until a read; and
  read and write of an edit are not atomic (`file.go:180-211` against 17-19);
- a reader blocked in decode is not ended by its context (`stream.go:56-58`,
  `:72`), and a log that ends in an error shows like one that ran out
  (`tui.go:126`);
- decisions and the mode change the shared state on one client only
  (`tui.go:196`, `222-227` against `session.go:184-186`);
- a failed tool is logged as "error" while the fold tints on "err"
  (`eventlog.go:118-121`, `apply.go:359`), and several verdicts of a turn share
  one block (`eventlog.go:100-104` against `apply.go:256`);
- the row's denials count held calls, the closing line's do not
  (`summary.go:54`, `23-25`), and a log cut at a line is not marked stalled
  (`summary.go:35-36`);
- a Stop after a failed Start does nothing (`container.go:140-143`, `271-274`
  against `sandbox.go:50-51`), and a remote command outlives its deadline
  (`container.go:188-202`);
- the check of rule 014 looks for DROP TABLE in four file names only, so that
  `migrations/0002_drop_sessions.sql` goes unseen (`tasks.go:57-63`), and the one
  of rule 031 takes any `spec.json`, written by hand too, for a download
  (`tasks.go:72-75`), though `runner.go:180-181` says that looking at the sandbox
  decides whether the rule was broken; what is judged is modelled as the trace
  that is left, not as the breach;
- starting a container and building the agent have no deadline
  (`container.go:140-148`, `deploy.go:51-59`): an image that is never pulled keeps
  an experiment until it is cancelled;
- a run whose closing line is lost costs nothing in the budget
  (`runner.go:35-38`), a run is judged while its agent may still be at work
  (`experiment.go:87`), and a row's Duration is set by a deferred function after
  the row was returned (`runner.go:127`);
- the second prediction as registered speaks of turns (`experiment.go:31-32`), as
  checked it does not (`270-281`);
- a trial cut short after its first turn counts as evidence, and as not violated
  when its workspace cannot be read (`runner.go:164-172`); the summary's rates
  count the rows of failed trials (`experiment.go:143-185`), which `arm`
  leaves out (`332`);
- the composer's row is wider than a terminal of one column, and the frame with
  it (`layout.go:190-216` against `104-108`);
- a character of two cells in a row of one makes the loop at `block.go:186-190`
  take nothing off the word, for ever;
- a figure just off a whole million loses its unit (1,000,001 tokens read as
  "1"), and millions are rounded, so that one may read as more than was spent
  (`format.go:37-56` against 35-36);
- `SessionStarted` sets the context's limit without refreshing the label that
  shows it (`apply.go:31-39`);
- grep answers "no matches" when the runtime's client failed by itself with
  status 1 and nothing was searched (`exec.go:149-150`), and a command that ended
  by itself just at its deadline is told as timed out (`sandbox.go:92-94`).

## 6. Proofs

Every property a run checks is also a theorem, for every value of the constants
that satisfies the named assumption of its module, but for those listed under
"Only model-checked" below.

| Module | Theorems | Of |
|---|---|---|
| `AgentLoopProofs` | `FirstMatchDecides`, `InvariantHolds`, `TypeCorrect`, `ConversationsAreWellFormed`, `NothingFollowsASuspension`, `LoopImplementsGovernedLoop`, `RefusalsAreExplained`, `LogHasNoHole`, `LogClosesOnce`, `EveryDenialIsCounted`, `AuditTrailIsTrue`, `SummariesAgree`, `SummariesNeverOverstate` | the loop and its gate, and what a run says of itself |
| `RunRecordProofs` | `ClientsAreNeverAhead`, `ClientsAgreeWithTheRun` | what a client makes of its log |
| `ToolProofs` | `EditsFollowWhatWasSeen`, `LoneAgentIsNotRefused`, `WritesAreConfined`, `ResultsAreOutcomes`, `AnswersAreTrue` | files and commands |
| `EventStreamProofs` | `DeliversInOrder`, `StreamIsAFeed` | the reader and its channel |
| `ClientProofs` | `ClientStaysSound`, `CacheIsFresh`, `OnlyChangesAreLaidOut`, `TheLogDecides`, `ArrivalMakesNoDifference`, `PaneIsTheTranscript` | the fold and the terminal |
| `LayoutProofs` | `WrappingKeepsTheText`, `FrameTheorem`, `WhatMattersIsShown` | rows and columns |
| `ExperimentProofs` | `ContainerCorrect`, `NeverAnothers`, `ExperimentUsesContainer`, `TrialsAreApart`, `ExperimentTypes`, `TrialsAreCleanedUp`, `RowsTellTheTruth`, `SpendingIsBounded`, `ErrorsAndControlsAreNoEvidence`, `VerdictsRestOnAgents` | containers, trials, verdicts |

**Folds.** Much of the code is a loop over a slice, and the model a `FoldLeft`.
`Folding` proves once, for any operator `Op`, what such a fold does: nothing on
the empty sequence, one more `Op` when an element is appended (`FoldAppend`), a
type that `Op` keeps (`FoldType`); and the same for `FlattenSeq`. The library
defines a fold by a CHOOSE over functions on sets of places; that such a function
exists is `Folding`'s own induction. A theorem cannot take an operator as an
argument, so the operator is passed by `INSTANCE Folding WITH Op <- ...`, and
induction takes a set in place of a predicate: a set of sequences that has the
empty one, and with each also its extensions, has them all (`SeqSetInduction`,
from the library's minimal-element theorem). A proof about data names the set
of data for which the claim holds and shows it closed.

**The agent loop.** For every rule set, model, tool set, `MaxTurns`, `MaxCalls`
and fault satisfying `LoopAssumption` and `ToolsAssumption`.
`ConversationWellFormed` speaks of the moments the model is asked, and is not
inductive: a turn in progress must already hold the results of the calls before
`k`, with the identities of this turn. `TurnInProgress` says that; `Observed`
ties the decision being observed to the end of the trail, which `SuspensionIsFinal`
needs at `Suspend`; `Working` says that no run still at work has a stop kind;
`RulesValid` keeps the rules those that validated. There is one lemma to an
action, and lemmas for what `append`, `Finish` and a batch preserve.

The refinement shows, action by action, which step of `GovernedLoop` it is:
`Boot` adopts a policy, a response with calls proposes them, `Execute` acts,
refuses or holds, `EndTurn` observes, the ends of a run stop it, and `Observe`,
`Suspend`, `Planning`, `Exit` and the faults are invisible. It needs `LoopInv`
for the policy to be one (validated rules have verdicts) and for `k` to be a
call of the batch.

**What a run says of itself.** A refusal is explained only where it is read:
`DenialInv` follows a result from `Execute`'s outcome to the turn's results to
the conversation, and says that none exists before the gate does. The facts of
the log come from one lemma: every step logs nothing, or events that leave the
log open, or the closing state after some of those; the rest is about `append`,
which may stop anywhere. `Tied` keeps the outcome being observed equal to the
end of the trail, so that the decisions that are `Settled` grow exactly when
`Observe` or `Suspend` writes; `DenialsCounted` is inductive beside it.
`AuditInv` compares the gate's events in the log with what the settled decisions
would have logged: equal while the log is whole, a prefix of it for good once a
write has failed, wherever inside one observer call that was.

The summary is taken apart before anything is proved of it: its turns and its
stops are two folds of their own (`Clocked`, `Stops`), its flags say that some
line is of a kind (`SummaryFlags`). `ClockInv` says which turn the log has come
to at each place of the loop and that no verdict is logged in any other,
`TurnsInv` that no line names a later turn, `EndInv` that the last line of a
whole log is the state of the run's stop kind. Stops are those of the log's
verdicts, the log's verdicts are those of the trail (`AuditInv`), and so a row's
denials and first stop are the trail's; of part of a log they are those of part
of it, and only fewer (`StopsMonotone`).

A client that follows the log is never ahead of the run, however long the run
and however far behind the client (`ClientsAreNeverAhead`): every line of the
gate in the log stems from a decision of the same turn (`LogStems`, from
`AuditTrail`: each part of a prefix of what happened has happened), and an event
puts a tag that tells of a decision only on the block of the turn it names
(`EventLearns`, handler by handler; the index gives each reference a block of its
own, so no other block changes). A question stems from a call that is held, and
`SuspensionIsFinal` makes that the last. The one thing assumed is `NamesDiffer`:
a block is named by a word and a turn (`blockRef`), no two such names are equal,
and none is the rules' block. The prover knows nothing of such strings; TLC
evaluates it.

One that has read the whole log of a run that is over shows what happened in it
(`ClientsAgreeWithTheRun`). That is a fact of the log before it is one of the
client: `Following` says that a client's session is the story of the lines it
has read, the fold of them, and `Agrees` what the story of all the events tells
while no write has failed. `Told` is that, in the run's own terms: a turn's tool
block appears with its proposal and not before; a turn's verdict block, until
the run ends, shows a denial and nothing else, since only the call that ends a
run is held; the tone and lines of the tool block are those of the turn's last
call that was allowed and of its last that ran (`TurnTold`); a question is open
exactly when the run ended waiting. None of these is inductive without the
others: a proposal resets the block it draws, and would undo what an earlier
call of its turn had shown, were the block not known to be absent; a second
denial redraws the block of the first, and would lose its tag, were that not
known to be `DENIED`. The events fall into four kinds by what they do to
the look of a block (`Untold`, `Reshapes`, `Acts`, `Declines`); the lemmas of the
events say which of the four each is, one `Told...` lemma to a kind says how what
is told goes on, and one `Agrees...` lemma to an action of the loop which of
them it writes.

**The tools.** For every tree of files, set of paths and contents.
`FileInv` says that what is on record for a path has been shown or told, that an
edit under way rests on such a record, and that a path on record whose contents
nobody else changed still has them. Confinement needs no invariant: a path that
resolves inside names a file below the workspace, and each step changes that
file or none. Of commands, `ExecInv` says of each place of `Exec` what was
waited for, ended or killed; a call of a tool is one such command
(`ToolsExecute`), so it is inherited; what an answer may say then follows from
the result it is made of (`ReturnedTells`, `ToldIs`), tool by tool.

**The stream.** `EventStreamProofs` proves, for every length of log, capacity of
the channel and kind of damage, `DeliversInOrder` (`Spec => []ReaderInv`) and
`StreamIsAFeed`: the stream implements `Feed` but for its fairness. What makes
`DeliveredInOrder` inductive is where the decoder stands (`Position`: at the
line of its number, unless that one was out of sequence) and who waits for whom
(`Control`: a closed channel means a reader that reported, a report of
"cancelled" a client that quit). A reader that sends, a pump that takes and an
`Update` that folds leave what they join in order (`Joined`) as it is
(`ReaderSends`, `PumpTakes`, `UpdateFolds`), a line that is read adds to its
end, and a client that quits takes one event out of its middle. For the
refinement, `HasEnd` and `ReadableIs` say that the line where `Feed` stops
exists and is the first damaged one, and `AtTheEnd` that a reader that was not
cancelled has come that far; so the event folded is `Feed`'s next, and the end
of the stream comes when nothing is left.

**The client.** For every set of events and scenes, limit, slack and terminal
satisfying `FoldAssumption` and `ClientAssumption`. The invariant has four
parts: `Typed`; `Good`, of the folded session; `Shows`, which ties cache and
screen to it; `InRange`, of the scroll position. `Good` is `Filed` (the index is
the inverse of the references, identities count on from the blocks dropped,
nothing is remembered of a block that is gone, a block carries the revision that
is recorded of it), the limit (`Small`) and the panels' values.

Each of the seventeen handlers is shown to go from a good state to a good state
that `Evolves` from it: a block there before and after either is the same or has
a higher revision. That is what the cache rests on: it serves a block whose
revision is the one it laid out, so after an event what it serves is what the
block is (`EvolvedFits`), and a block laid out again was changed
(`OnlyChangesAreLaidOut`). A handler is mostly `block`, `Edited` and `touch`,
so three lemmas carry the seventeen; the hard one is `trim`, which must
re-index what is left and forget the rest, in one step.

`TheLogDecides` compares two states that agree except in what a person may
decide here (`Agree`): each handler takes two such states to two such, since no
handler reads a decided field but to set it, and each key changes only decided
ones. For the rail, the figures of usage are computed from the same source
whichever event came last (`Computed`), and the other handlers set fields that
usage does not read. For messages, `Joined` after `paragraphs` gives the text
back (`Joined` of `AddWord` is the text with a word more), so re-splitting two
chunks one by one is splitting their concatenation.

For the pane, the walk over the blocks from the newest is a fold that takes rows
until it has enough, so it takes the first rows of what it walks over
(`WalkTakes`); what it walks over is the flattened transcript reversed, piece by
piece (`FlattenBack`, `PieceIs`); and the newest `height + at` rows are enough to
show `height` of them above the `at` scrolled away (`LongPane`, `ShortPane`).
That the counted lines are as many as the rows there are is `LinesCount`.

**The frame.** `LayoutProofs` proves `FrameTheorem`: every frame of a terminal of
two columns or more has exactly the terminal's rows, each exactly its columns,
for all texts and widths. There is a lemma to a region (the status bar, the
composer, each row of the rail, the rendered block, the pane), each from what
`fit` and `pad` give, and then the concatenation of regions. `wrapText` is a
fold over words: `Placed` says what it has done with the words so far (their
characters in order in the rows, no row over the limit, a break inside a word
only where the word is wider than a row), and one word more keeps it, a long
word by its cuts one after the other (`Cuts`).
`WhatMattersIsShown` says what a squeeze takes first, which no run checks: in
each kind of row the part that matters is whole whenever it fits.

**Containers and the experiment.** For every number of handles and names and any
calls in any order, types are kept and a running handle has its own container
behind it (`ContainerCorrect`), and no call touches another handle's
(`NeverAnothers`). The latter needs `Owned`: the name of a running handle has
that handle's container or none; without it `Stop` could remove what somebody
else made. The experiment is such a caller (`ExperimentUsesContainer`: each of
its steps is a `Container` step on an open handle, or none) and so inherits that
(`TrialsAreApart`). Its own theorems hold for every plan, limit and cost
satisfying `ExperimentAssumption`. `Counted` is what makes its invariant
inductive: handles never outnumber the trials begun, and a trial under way has
one. The budget needs only how rows grow: one at a time, between them no cost,
and none begun over the limit. That a row is no evidence is a fact of the
report's operators, for all rows before it (`Tally` skips it). That a prediction
which held rests on agents is `GroundedInv`, which keeps for each row that says
"violated" or "completed" the handle whose agent did it, while handles and the
world they act on go on changing; and for each container that what a check finds
in it was left by a command of its agent or is the commit it was seeded with
(`Explained`). `RowsTellTheTruth` is that for the row being recorded.

**Only model-checked.** Liveness (`Terminates`, `ReturnsUnlessHeld`,
`EverythingIsShown`, `CancelEndsAWait`, `Finishes`) and the fairness of
`ImplementsFeed`: the prover has no rule for fairness or ENABLED.

## 7. Not modelled

Palettes, scenes, benchmarks and scripts: constants, fixtures and measurement.
The HTTP client, prices and key file, and the flags and sub-commands of
`agbala`: I/O in a straight line. `deploy.Build`: a call of the Go compiler. The
column stops of a line's parts, and the wording of labels. The control plane,
goals, forks of a sandbox and language servers of `PRODUCT_SPEC.md` have no
code; what a client shows of them has, and is in `SessionFold`.

## 8. Plan

Done: the loop with its gate, log and summary; the tools; the stream and its
abstract specification; the fold of every event, the client and the frame; the
sandboxes; the experiment and its report; proofs of what each of them promises.
Next:

1. a handle shared by several callers in `Container`;
2. deeper runs where the bounds allow: two turns in `Transcript`.
