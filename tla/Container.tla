----------------------------- MODULE Container ------------------------------
(***************************************************************************)
(* The life of container sandboxes: internal/sandbox/container over a      *)
(* docker or podman daemon.  A handle knows its name and whether its Start *)
(* got as far as a running container; the daemon knows what there is.  The *)
(* client program between the two can be killed, or fail, before or after  *)
(* the daemon has acted.                                                   *)
(*                                                                         *)
(* Handles come one after another, as the experiment opens them; a name is *)
(* two random bytes, so a new handle may draw the name of a container that *)
(* is still there.                                                         *)
(***************************************************************************)
EXTENDS Integers, FiniteSets

CONSTANTS Names,      \* names shortID can draw
          MaxHandles, \* bound on the handles opened
          Flaky       \* may a call to the runtime fail?

ASSUME ContainerAssumption == MaxHandles \in Nat /\ Flaky \in BOOLEAN

VARIABLES handle,  \* how many handles were opened; the last is the one in use
          name,    \* Container.name
          running, \* Container.running
          host,    \* the handle each container on the host belongs to, or 0
          reply,   \* what the last call returned
          failures \* history: calls on this handle that returned an error

containerVars == <<handle, name, running, host, reply, failures>>

Holds(nm) == host[nm] # 0

Put(nm, h) == host' = [host EXCEPT ![nm] = h]

Return(what, call) ==
  /\ reply' = what
  /\ failures' = IF what = "ok" THEN failures ELSE failures \cup {call}

-----------------------------------------------------------------------------
\* Open and New; the name is drawn without asking the daemon.
Open(nm) ==
  /\ handle < MaxHandles
  /\ handle' = handle + 1
  /\ name' = nm
  /\ running' = FALSE
  /\ reply' = "ok" /\ failures' = {}
  /\ UNCHANGED host

\* Start on a running handle is a reattach.
Reattach ==
  /\ running
  /\ Return("ok", "start")
  /\ UNCHANGED <<handle, name, running, host>>

\* "run" fails without a container: the name is taken, or the runtime failed.
MutRefusesNever == FALSE

Refuses == Holds(name)

StartRefused ==
  /\ ~running /\ (Refuses \/ Flaky)
  /\ Return("error", "start")
  /\ UNCHANGED <<handle, name, running, host>>

\* "run" fails, but the daemon has the container.
StartAbandoned ==
  /\ ~running /\ ~Refuses /\ Flaky
  /\ Put(name, handle)
  /\ Return("error", "start")
  /\ UNCHANGED <<handle, name, running>>

\* "run" succeeds, and the mkdir after it fails.
StartNoWorkspace ==
  /\ ~running /\ ~Refuses /\ Flaky
  /\ Put(name, handle)
  /\ running' = TRUE
  /\ Return("error", "start")
  /\ UNCHANGED <<handle, name>>

StartUp ==
  /\ ~running /\ ~Refuses
  /\ Put(name, handle)
  /\ running' = TRUE
  /\ Return("ok", "start")
  /\ UNCHANGED <<handle, name>>

Start == Reattach \/ StartRefused \/ StartAbandoned \/ StartNoWorkspace \/ StartUp

\* Exec, and the ReadFile and WriteFile made of it: ErrNotStarted, or a result;
\* a command succeeds only in a container that is there.
Exec(ok) ==
  /\ ok => running /\ host[name] = handle
  /\ ~ok => ~running \/ Flaky \/ host[name] # handle
  /\ Return(IF ok THEN "ok" ELSE "error", "exec")
  /\ UNCHANGED <<handle, name, running, host>>

\* Stop removes the container, and says so only when "rm --force" did; on a
\* handle that is not running it does nothing.
Stops == running

StopIdle ==
  /\ ~Stops
  /\ Return("ok", "stop")
  /\ UNCHANGED <<handle, name, running, host>>

Removed ==
  /\ Stops
  /\ Put(name, 0)
  /\ running' = FALSE
  /\ Return("ok", "stop")
  /\ UNCHANGED <<handle, name>>

StopFails ==
  /\ Stops /\ Flaky
  /\ \/ Put(name, 0)
     \/ UNCHANGED host
  /\ Return("error", "stop")
  /\ UNCHANGED <<handle, name, running>>

Stop == StopIdle \/ Removed \/ StopFails

-----------------------------------------------------------------------------
ContainerInit ==
  /\ handle = 0
  /\ name \in Names
  /\ running = FALSE
  /\ host = [nm \in Names |-> 0]
  /\ reply = "ok" /\ failures = {}

ContainerNext ==
  \/ \E nm \in Names : Open(nm)
  \/ handle > 0 /\ (Start \/ (\E ok \in BOOLEAN : Exec(ok)) \/ Stop)

\* Any caller: calls in any order, however often.
ContainerSpec == ContainerInit /\ [][ContainerNext]_containerVars

-----------------------------------------------------------------------------
(* Properties *)

\* Types; a handle that was never opened is not running.
ContainerTypeOK ==
  /\ handle \in 0..MaxHandles
  /\ name \in Names
  /\ running \in BOOLEAN
  /\ host \in [Names -> 0..handle]
  /\ reply \in {"ok", "error"}
  /\ failures \subseteq {"start", "exec", "stop"}
  /\ running => handle > 0

\* A handle never touches a container that is another handle's, not even when
\* both drew the same name: neither Start nor Stop takes it over or removes it
\* (container.go:116-152,271-280).
OthersUntouched ==
  [][\A nm \in Names : host[nm] \notin {0, handle} => host'[nm] = host[nm]]_containerVars

\* A handle that says it is running has its own container behind it, unless
\* removing it failed half-way.
RunningIsUp == running => host[name] = handle \/ "stop" \in failures

\* Both: what every caller of the package finds.
ContainerInv == ContainerTypeOK /\ RunningIsUp
=============================================================================
