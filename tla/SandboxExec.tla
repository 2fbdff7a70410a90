---------------------------- MODULE SandboxExec -----------------------------
(***************************************************************************)
(* One Exec of a sandbox: internal/sandbox/local, where Go starts and      *)
(* waits for the command itself, and internal/sandbox/container (remote),  *)
(* where it waits for a docker or podman client and the daemon runs the    *)
(* command.  The command, the jobs it leaves in the background, the clock  *)
(* and os/exec's watcher run concurrently.                                 *)
(*                                                                         *)
(* os/exec returns from Wait when its process has ended and every copy of  *)
(* the pipe it gave it as standard output is closed (no WaitDelay is set). *)
(***************************************************************************)
EXTENDS Integers

CONSTANTS MaxJobs, \* bound on background jobs that keep standard output open
          Codes    \* exit statuses of a command that ends by itself

ASSUME ExecAssumption == /\ MaxJobs \in Nat
                         /\ Codes \subseteq 0..255

VARIABLES remote, \* container.Exec rather than local.Exec
          call,   \* "idle", "running", "draining" or "returned"
          main,   \* the command: "none", "running", "exited" or "killed"
          client, \* the runtime's client, when remote
          code,   \* the status main exited with
          jobs,   \* background jobs holding main's standard output
          ctx,    \* the context is done: deadline or cancellation
          res     \* sandbox.Result

vars == <<remote, call, main, client, code, jobs, ctx, res>>

\* The process os/exec waits for.
Waited == IF remote THEN client ELSE main

\* A client that fails by itself ends with 1, as docker does.
exitCode(state) == CASE state = "exited" -> code
                     [] state = "failed" -> 1
                     [] OTHER -> -1

\* A deadline is what tells a timeout from a failure; a command that beat it
\* is told as one that did not.
Outcome(state) ==
  [exit |-> IF ctx /\ exitCode(state) = 0 THEN -1 ELSE exitCode(state),
   timedOut |-> ctx]

OK(r) == r.exit = 0 /\ ~r.timedOut

-----------------------------------------------------------------------------
\* Start: it fails on a context that is done, and when there is no such
\* program.
Begin ==
  /\ call = "idle" /\ ~ctx
  /\ call' = "running" /\ main' = "running"
  /\ client' = IF remote THEN "running" ELSE "none"
  /\ UNCHANGED <<remote, code, jobs, ctx, res>>

StartFails ==
  /\ call = "idle"
  /\ call' = "returned"
  /\ res' = Outcome("none")
  /\ UNCHANGED <<remote, main, client, code, jobs, ctx>>

\* The command puts a job in the background, ends, and a job ends.
Spawn ==
  /\ main = "running" /\ jobs < MaxJobs
  /\ jobs' = jobs + 1
  /\ UNCHANGED <<remote, call, main, client, code, ctx, res>>

MainExits ==
  /\ main = "running"
  /\ main' = "exited" /\ code' \in Codes
  /\ UNCHANGED <<remote, call, client, jobs, ctx, res>>

JobEnds ==
  /\ jobs > 0
  /\ jobs' = jobs - 1
  /\ UNCHANGED <<remote, call, main, client, code, ctx, res>>

\* The client passes on the command's status.
ClientExits ==
  /\ client = "running" /\ main = "exited"
  /\ client' = "exited"
  /\ UNCHANGED <<remote, call, main, code, jobs, ctx, res>>

\* The daemon goes away or refuses: no such container, a lost connection.
ClientFails ==
  /\ client = "running"
  /\ client' = "failed"
  /\ UNCHANGED <<remote, call, main, code, jobs, ctx, res>>

Deadline ==
  /\ ~ctx /\ call # "returned"
  /\ ctx' = TRUE
  /\ UNCHANGED <<remote, call, main, client, code, jobs, res>>

\* os/exec kills the one process it started, and no other.
MutWatchesNever == FALSE

Watches == ctx /\ call = "running" /\ Waited = "running"

Kill ==
  /\ Watches
  /\ main' = IF remote THEN main ELSE "killed"
  /\ client' = IF remote THEN "killed" ELSE client
  /\ UNCHANGED <<remote, call, code, jobs, ctx, res>>

WaitReturns ==
  /\ call = "running" /\ Waited # "running"
  /\ call' = "draining"
  /\ UNCHANGED <<remote, main, client, code, jobs, ctx, res>>

\* The jobs of a remote command hold nothing of the client's.
MutDrainedAtOnce == TRUE

Drained == remote \/ jobs = 0

Return ==
  /\ call = "draining" /\ Drained
  /\ call' = "returned"
  /\ res' = Outcome(Waited)
  /\ UNCHANGED <<remote, main, client, code, jobs, ctx>>

-----------------------------------------------------------------------------
Init ==
  /\ remote \in BOOLEAN
  /\ call = "idle" /\ main = "none" /\ client = "none" /\ code = 0
  /\ jobs = 0 /\ ctx = FALSE /\ res = [exit |-> -1, timedOut |-> FALSE]

Caller == Begin \/ StartFails \/ Kill \/ WaitReturns \/ Return

Next == \/ Caller \/ Spawn \/ MainExits \/ JobEnds
        \/ ClientExits \/ ClientFails \/ Deadline

Spec == Init /\ [][Next]_vars

\* Go's own steps happen and the clock reaches the deadline; nothing makes a
\* command or its jobs end.
FairSpec == Spec /\ WF_vars(Caller) /\ WF_vars(Deadline)

-----------------------------------------------------------------------------
(* Properties *)

\* A result that says OK is the result of a command that ran to its end by
\* itself and succeeded; a local one has all the output.  A failure is told
\* with the command's own status unless the deadline passed or the runtime's
\* client failed by itself
\* (sandbox.go:84-97, local.go:78-94, container.go:191-203).
ResultIsOutcome ==
  [][Return =>
       /\ OK(res') => main = "exited" /\ code = 0 /\ (remote \/ jobs = 0)
       /\ res'.exit > 0 => \/ main = "exited" /\ res'.exit = code
                           \/ client = "failed"
       /\ Waited = "killed" => res'.timedOut]_vars

\* The inductive invariant behind it: a client that passed a status on has a
\* command that ended; only a context that is done kills; and what the call
\* returned is still the outcome of the process it waited for, though a
\* command whose client is gone may run on.
ExecInv ==
  /\ remote \in BOOLEAN /\ ctx \in BOOLEAN
  /\ call \in {"idle", "running", "draining", "returned"}
  /\ main \in {"none", "running", "exited", "killed"}
  /\ client \in {"none", "running", "exited", "failed", "killed"}
  /\ ~remote => client = "none"
  /\ client = "exited" => main = "exited"
  /\ "killed" \in {main, client} => ctx
  /\ call = "idle" => main = "none" /\ client = "none"
  /\ call \in {"running", "draining"} => Waited # "none"
  /\ call \in {"draining", "returned"} => Waited # "running"
  /\ call = "returned" => res = Outcome(Waited)

\* Once the deadline passed a call returns, whatever the command does, unless
\* a background job of a local command holds its output open
\* (local.go:61-81, container.go:167-189).
ReturnsUnlessHeld ==
  ctx /\ call # "idle" ~> call = "returned" \/ (~remote /\ jobs > 0)

-----------------------------------------------------------------------------
(* What the repository's documents say and the code does not do. *)

\* "Every method takes a context, and every implementation must return
\* promptly when it is cancelled" (sandbox.go:23-24): a call ends once its
\* deadline passed, whatever the command does.
ReturnsPromptly == ctx /\ call # "idle" ~> call = "returned"
=============================================================================
