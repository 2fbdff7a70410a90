------------------------------ MODULE MCClient ------------------------------
(***************************************************************************)
(* Client over the events of a small log: more blocks than fit, text that  *)
(* is replaced and appended to, tools whose output succeeds or fails, an   *)
(* approval, usage and forks; and two scenes, a boot and a forked session, *)
(* with the events that only replace a part of the rail.                   *)
(***************************************************************************)
EXTENDS Client

Text(ref, text)  == [kind |-> "AgentMessage", block |-> ref, text |-> text, meta |-> ""]
Delta(ref, text) == [kind |-> "AgentDelta", block |-> ref, text |-> text]
Proposed(ref, calls) == [kind |-> "ToolProposed", block |-> ref, calls |-> calls]
Decision(ref, proposal, verdict, rule) ==
  [kind |-> "OfinVerdict", block |-> ref, proposal |-> proposal, verdict |-> verdict,
   rule |-> rule, version |-> "v1", micros |-> 2000, headline |-> "h",
   rationale |-> "r", terms |-> <<"t">>, options |-> <<"y">>]
Output(ref, statuses) ==
  [kind |-> "ToolOutput", block |-> ref,
   lines |-> [i \in DOMAIN statuses |-> [text |-> "out", status |-> statuses[i]]]]
Completed(ref, status, took, changes) ==
  [kind |-> "ToolCompleted", block |-> ref, status |-> status, duration |-> took,
   changes |-> changes]
Scope(ref, ids) ==
  [kind |-> "OfinScope", block |-> ref, scope |-> "go", total |-> 3,
   rules |-> [i \in DOMAIN ids |-> [id |-> ids[i], tool |-> "bash", match |-> "m",
                                    verdict |-> "deny"]]]
Usage(cost, used, limit) ==
  [kind |-> "UsageUpdated", costTurn |-> cost, costSession |-> 4060,
   tokensIn |-> 1400000, tokensOut |-> 121000, ctxUsed |-> used, ctxLimit |-> limit]
Fork(name, state, run) ==
  [name |-> name, approach |-> "x", state |-> state, turn |-> 2, added |-> 3,
   removed |-> 1, testsRun |-> run, testsOK |-> run, cost |-> 410]
Forks(ref, forks) == [kind |-> "ForksUpdated", block |-> ref, forks |-> forks]
Sandbox(from, vms) ==
  [kind |-> "SandboxUpdated", vm |-> "vm", size |-> "4", uptime |-> 3723000,
   state |-> "warm", from |-> from, count |-> vms]
Turn(state, turn, mode) ==
  [kind |-> "TurnState", state |-> state, turn |-> turn, detail |-> "", mode |-> mode,
   dirty |-> "clean"]
Call(tool, detail) == [tool |-> tool, args |-> "a", detail |-> detail]

Boot ==
  <<[kind |-> "SessionStarted", sandbox |-> "sbx", cwd |-> "c", branch |-> "b",
     model |-> "m", ctxLimit |-> 200000],
    [kind |-> "HostLog", block |-> "h", meta |-> "start", marks |-> TRUE,
     steps |-> <<[ok |-> TRUE, label |-> "l", value |-> "v", note |-> ""]>>],
    Scope("o", <<"1", "2">>), Decision("v", "t", "deny", "1"),
    [kind |-> "GoalsUpdated", goals |-> <<[state |-> "odd", text |-> "g"]>>],
    [kind |-> "LSPUpdated", server |-> "gopls",
     diagnostics |-> <<[severity |-> "err", file |-> "f", line |-> 0]>>],
    Sandbox("", 1), Usage(41, 68000, 0)>>

Forked ==
  <<[kind |-> "UserMessage", block |-> "u", text |-> <<"x">>, at |-> "t"],
    [kind |-> "AgentPlan", block |-> "p", steps |-> <<"one">>],
    Proposed("t", <<Call("edit", "d"), Call("edit", ""), Call("read", "")>>),
    Decision("v", "t", "allow", ""), Output("t", <<"ok">>),
    Completed("t", "ok", 1500, <<[op |-> "edit", path |-> "p", added |-> 1,
                                  removed |-> 0, summary |-> ""]>>),
    Sandbox("snap", 2), Forks("f", <<Fork("a", "done", 4), Fork("b", "running", 0)>>),
    Turn("EXECUTING", 3, "auto")>>

DesignScenes == {Boot, Forked}

SomeEvents ==
  {Text("t1", <<"x">>), Delta("t1", <<"y", Newline>>),
   Proposed("t3", <<Call("bash", "")>>), Output("t3", <<"err">>),
   Decision("v", "t3", "require_human", "1"), Decision("v", "t1", "bogus", ""),
   Usage(41, 68000, 200000), Forks("f", <<Fork("a", "done", 0)>>)}
=============================================================================
