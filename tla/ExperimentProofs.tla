-------------------------- MODULE ExperimentProofs --------------------------
(***************************************************************************)
(* What holds of an experiment for every plan, every limit on what it may  *)
(* spend and every name drawn: its calls are calls the container package   *)
(* allows, so that what holds of those holds of it; its rows and its       *)
(* clean-up are as they should be.                                         *)
(***************************************************************************)
EXTENDS Experiment, TLAPS, SequenceTheorems

-----------------------------------------------------------------------------
(* What holds of container sandboxes for any number of handles and names,    *)
(* whatever calls their owner makes and whatever the runtime fails at.       *)

\* The container behind the name of a running handle is that handle's, or is
\* gone: what keeps Stop from removing another one.
Owned == running => host[name] \in {0, handle}

ContainerIInv == ContainerInv /\ Owned

LEMMA ContainerInitially ==
  ASSUME ContainerInit
  PROVE  ContainerIInv
<1>1. /\ handle \in 0..MaxHandles
      /\ host \in [Names -> 0..handle]
  BY ContainerAssumption DEF ContainerInit
<1> QED
  BY <1>1 DEF ContainerInit, ContainerIInv, ContainerInv, ContainerTypeOK, RunningIsUp, Owned

LEMMA OpenInv ==
  ASSUME ContainerIInv, NEW nm \in Names, Open(nm)
  PROVE  ContainerIInv'
<1>1. /\ handle' = handle + 1 /\ handle' \in 0..MaxHandles
      /\ host' \in [Names -> 0..handle']
  BY ContainerAssumption DEF ContainerIInv, ContainerInv, ContainerTypeOK, Open
<1> QED
  BY <1>1 DEF ContainerIInv, ContainerInv, ContainerTypeOK, RunningIsUp, Owned, Open

\* Calls that reach no container.
LEMMA QuietInv ==
  ASSUME ContainerIInv, Reattach \/ StartRefused \/ StopIdle \/ \E ok \in BOOLEAN : Exec(ok)
  PROVE  ContainerIInv'
<1>1. UNCHANGED <<handle, name, running, host>>
  BY DEF Reattach, StartRefused, StopIdle, Exec
<1>2. \E what \in {"ok", "error"}, call \in {"start", "exec", "stop"} : Return(what, call)
  BY DEF Reattach, StartRefused, StopIdle, Exec
<1>3. /\ reply' \in {"ok", "error"}
      /\ failures' \subseteq {"start", "exec", "stop"} /\ failures \subseteq failures'
  BY <1>2 DEF Return, ContainerIInv, ContainerInv, ContainerTypeOK
<1> QED
  BY <1>1, <1>3
     DEF ContainerIInv, ContainerInv, ContainerTypeOK, RunningIsUp, Owned

LEMMA PutTyped ==
  ASSUME ContainerTypeOK, NEW h \in 0..handle, Put(name, h)
  PROVE  /\ host' \in [Names -> 0..handle]
         /\ host'[name] = h
BY DEF ContainerTypeOK, Put

\* A container is made only under a name that has none.
LEMMA StartInv ==
  ASSUME ContainerIInv, handle > 0, StartAbandoned \/ StartNoWorkspace \/ StartUp
  PROVE  ContainerIInv'
<1>1. handle \in 0..handle
  BY DEF ContainerIInv, ContainerInv, ContainerTypeOK
<1>2. /\ Put(name, handle) /\ handle' = handle /\ name' = name
      /\ running' \in BOOLEAN
      /\ reply' \in {"ok", "error"}
      /\ failures' \subseteq {"start", "exec", "stop"}
  BY DEF StartAbandoned, StartNoWorkspace, StartUp, Return,
         ContainerIInv, ContainerInv, ContainerTypeOK
<1>3. host' \in [Names -> 0..handle] /\ host'[name] = handle
  BY <1>1, <1>2, PutTyped DEF ContainerIInv, ContainerInv
<1> QED
  BY <1>2, <1>3
     DEF ContainerIInv, ContainerInv, ContainerTypeOK, RunningIsUp, Owned

LEMMA StopInv ==
  ASSUME ContainerIInv, handle > 0, Removed \/ StopFails
  PROVE  ContainerIInv'
<1>1. 0 \in 0..handle
  BY DEF ContainerIInv, ContainerInv, ContainerTypeOK
<1>2. /\ handle' = handle /\ name' = name
      /\ running' \in BOOLEAN
      /\ reply' \in {"ok", "error"}
      /\ failures' \subseteq {"start", "exec", "stop"}
      /\ running' => "stop" \in failures'
  BY DEF Removed, StopFails, Return, ContainerIInv, ContainerInv, ContainerTypeOK
<1>3. CASE Put(name, 0)
  <2>1. host' \in [Names -> 0..handle] /\ host'[name] = 0
    BY <1>1, <1>3, PutTyped DEF ContainerIInv, ContainerInv
  <2> QED
    BY <1>2, <2>1
       DEF ContainerIInv, ContainerInv, ContainerTypeOK, RunningIsUp, Owned
<1>4. CASE UNCHANGED host /\ Stops
  BY <1>2, <1>4
     DEF Stops, ContainerIInv, ContainerInv, ContainerTypeOK, RunningIsUp, Owned
<1> QED
  BY <1>3, <1>4 DEF Removed, StopFails

LEMMA ContainerPreserved ==
  ASSUME ContainerIInv, [ContainerNext]_containerVars
  PROVE  ContainerIInv'
<1>1. CASE \E nm \in Names : Open(nm)
  BY <1>1, OpenInv
<1>2. CASE handle > 0 /\ Start
  BY <1>2, QuietInv, StartInv DEF Start
<1>3. CASE \E ok \in BOOLEAN : Exec(ok)
  BY <1>3, QuietInv
<1>4. CASE handle > 0 /\ Stop
  BY <1>4, QuietInv, StopInv DEF Stop
<1>5. CASE UNCHANGED containerVars
  BY <1>5 DEF containerVars, ContainerIInv, ContainerInv, ContainerTypeOK, RunningIsUp, Owned
<1> QED
  BY <1>1, <1>2, <1>3, <1>4, <1>5 DEF ContainerNext

\* One call changes the daemon under one name, and only where it has nothing
\* or the caller's own.
LEMMA TouchesItsOwn ==
  ASSUME ContainerIInv, [ContainerNext]_containerVars,
         NEW nm \in Names, host[nm] \notin {0, handle}
  PROVE  host'[nm] = host[nm]
<1>1. CASE UNCHANGED host
  BY <1>1
<1>2. CASE StartAbandoned \/ StartNoWorkspace \/ StartUp
  <2>1. host[name] = 0 /\ Put(name, handle)
    BY <1>2 DEF StartAbandoned, StartNoWorkspace, StartUp, Refuses, Holds
  <2> QED
    BY <2>1 DEF Put, ContainerIInv, ContainerInv, ContainerTypeOK
<1>3. CASE Put(name, 0) /\ running
  BY <1>3 DEF Put, Owned, ContainerIInv, ContainerInv, ContainerTypeOK
<1> QED
  BY <1>1, <1>2, <1>3
     DEF ContainerNext, containerVars, Open, Start, Reattach, StartRefused, Exec,
         Stop, StopIdle, Removed, StopFails, Stops

-----------------------------------------------------------------------------
\* Whoever calls the package finds its types kept and a container of its own
\* behind a handle that runs (container.go:116-152,271-280).
THEOREM ContainerCorrect == ContainerSpec => []ContainerInv
<1>1. ContainerIInv => ContainerInv
  BY DEF ContainerIInv
<1> QED
  BY <1>1, ContainerInitially, ContainerPreserved, PTL DEF ContainerSpec

\* No call of any caller touches a container of another handle, drawn under the
\* same name or not (container.go:116-152,271-280).
THEOREM NeverAnothers == ContainerSpec => OthersUntouched
<1>1. ContainerIInv /\ [ContainerNext]_containerVars
        => [\A nm \in Names : host[nm] \notin {0, handle} => host'[nm] = host[nm]]_containerVars
  BY TouchesItsOwn
<1> QED
  BY <1>1, ContainerInitially, ContainerPreserved, PTL DEF ContainerSpec, OthersUntouched

-----------------------------------------------------------------------------
(* What holds of the experiment's rows and clean-up                          *)

Steps == {"next", "start", "seed", "agent", "wait", "judge", "cleanup", "over"}

Idle == step \in {"next", "over"}

Row == [err : BOOLEAN, completed : BOOLEAN, violated : BOOLEAN, cost : 0..MaxCost,
        turns : 0..(MaxCost + 1)]

Trial == [agent : {"none", "alive"} \cup Ended, trace : BOOLEAN, left : BOOLEAN,
          cost : 0..MaxCost, trial : Nat]

Begun == Len(results) + (IF Idle THEN 0 ELSE 1)

\* Between two trials every handle has its row; within one, there is a handle.
Counted ==
  /\ Begun <= Len(Plan)
  /\ handle <= Begun
  /\ ~Idle => handle > 0

Typed ==
  /\ step \in Steps /\ ctx \in BOOLEAN
  /\ results \in Seq(Row) /\ row \in Row
  /\ world \in [1..MaxHandles -> Trial]

RunInv == Typed /\ Counted /\ CleanedUp

IInv == ContainerIInv /\ RunInv

-----------------------------------------------------------------------------
(* The runner as a caller of the container package *)

LEMMA UsesContainer ==
  ASSUME Counted, [Next]_vars
  PROVE  [ContainerNext]_containerVars
<1>1. CASE OpenSandbox
  BY <1>1 DEF OpenSandbox, ContainerNext
<1>2. CASE StartSandbox \/ StartFails
  <2>1. handle > 0
    BY <1>2 DEF StartSandbox, StartFails, Counted, Idle
  <2> QED
    BY <1>2, <2>1 DEF StartSandbox, StartFails, ContainerNext, Start
<1>3. CASE Seed \/ SeedFails \/ RunAgent \/ AgentDoesNotStart \/ Judge
  <2>1. handle > 0
    BY <1>3 DEF Seed, SeedFails, RunAgent, AgentDoesNotStart, Judge, Counted, Idle
  <2>2. (\E ok \in BOOLEAN : Exec(ok)) \/ UNCHANGED containerVars
    BY <1>3 DEF Seed, SeedFails, RunAgent, AgentDoesNotStart, Judge
  <2> QED
    BY <2>1, <2>2 DEF ContainerNext
<1>4. CASE CleanUp
  <2>1. handle > 0
    BY <1>4 DEF CleanUp, Counted, Idle
  <2> QED
    BY <1>4, <2>1 DEF CleanUp, ContainerNext, Stop
<1>5. CASE Finish \/ AgentReturns \/ AgentLost \/ LogNotKept \/ Cancel
  BY <1>5 DEF Finish, AgentReturns, AgentLost, LogNotKept, Cancel
<1>6. CASE \E h \in 1..MaxHandles : Agent(h)
  BY <1>6 DEF Agent, AgentSpends, CommandLeaves, CommandTidies, AgentEnds
<1>7. CASE UNCHANGED vars
  BY <1>7 DEF vars
<1> QED
  BY <1>1, <1>2, <1>3, <1>4, <1>5, <1>6, <1>7 DEF Next, Runner

-----------------------------------------------------------------------------
(* Types *)

LEMMA RowMade ==
  ASSUME NEW r \in Row
  PROVE  /\ \A e \in BOOLEAN : [r EXCEPT !.err = e] \in Row
         /\ [r EXCEPT !.err = TRUE] \in Row
         /\ \A v \in BOOLEAN : [r EXCEPT !.violated = v] \in Row
         /\ \A e, c \in BOOLEAN, n \in 0..MaxCost, t \in 0..(MaxCost + 1) :
              [r EXCEPT !.err = e, !.completed = c, !.cost = n, !.turns = t] \in Row
BY DEF Row

LEMMA BlankTyped == Blank \in Row /\ [Blank EXCEPT !.err = TRUE] \in Row
<1>1. 0 \in 0..MaxCost /\ 0 \in 0..(MaxCost + 1)
  BY ExperimentAssumption
<1>2. Blank \in Row
  BY <1>1 DEF Blank, Row
<1> QED
  BY <1>2, RowMade

LEMMA TrialMade ==
  ASSUME NEW t \in Trial
  PROVE  /\ \A c \in BOOLEAN : [t EXCEPT !.trace = c] \in Trial
         /\ [t EXCEPT !.trace = TRUE, !.left = TRUE] \in Trial
         /\ \A a \in {"alive"} \cup Ended : [t EXCEPT !.agent = a] \in Trial
         /\ \A n \in 0..MaxCost : [t EXCEPT !.cost = n] \in Trial
         /\ \A n \in Nat : [t EXCEPT !.trial = n] \in Trial
BY DEF Trial

LEMMA EmptyTyped == Empty \in Trial /\ \A n \in Nat : [Empty EXCEPT !.trial = n] \in Trial
<1>1. 0 \in 0..MaxCost
  BY ExperimentAssumption
<1>2. Empty \in Trial
  BY <1>1 DEF Empty, Trial
<1> QED
  BY <1>2, TrialMade

LEMMA PlanTyped == Plan \in Seq([task : Tasks, arm : Arms]) /\ Len(Plan) \in Nat
BY ExperimentAssumption

-----------------------------------------------------------------------------
(* The invariant *)

LEMMA Initially ==
  ASSUME Init
  PROVE  IInv
<1>1. ContainerIInv /\ handle = 0
  BY ContainerInitially DEF Init, ContainerInit
<1>2. results \in Seq(Row) /\ Len(results) = 0
  BY DEF Init
<1>4. Typed
  BY <1>2, EmptyTyped, BlankTyped DEF Typed, Steps, Init
<1>5. Counted
  BY <1>1, <1>2, PlanTyped DEF Counted, Begun, Idle, Init
<1>6. CleanedUp
  BY <1>1 DEF CleanedUp
<1> QED
  BY <1>1, <1>4, <1>5, <1>6 DEF IInv, RunInv

\* A row is added: one trial is over.
LEMMA Recorded ==
  ASSUME Typed, NEW r \in Row, Record(r)
  PROVE  /\ results' \in Seq(Row) /\ Len(results') = Len(results) + 1
         /\ step' \in Steps /\ Idle' /\ Len(results) \in Nat
BY DEF Typed, Record, Steps, Idle

LEMMA FinishInv ==
  ASSUME IInv, Finish
  PROVE  RunInv'
<1>1. UNCHANGED <<handle, name, host, failures, results, row, world, ctx>>
  BY DEF Finish, containerVars
<1>2. Idle /\ Idle' /\ step' \in Steps
  BY DEF Finish, Idle, Steps
<1>3. Begun' = Begun
  BY <1>1, <1>2 DEF Begun
<1> QED
  BY <1>1, <1>2, <1>3 DEF IInv, RunInv, Typed, Counted, CleanedUp, Idle

LEMMA OpenSandboxInv ==
  ASSUME IInv, OpenSandbox
  PROVE  RunInv'
<1>1. UNCHANGED ctx /\ row' \in Row
  BY BlankTyped DEF OpenSandbox
<1>2. /\ Idle /\ Len(results) \in Nat /\ handle \in Nat
      /\ handle <= Len(results) /\ Len(results) < Len(Plan)
  BY PlanTyped DEF OpenSandbox, Idle, Over, IInv, RunInv, Typed, Counted, Begun,
     ContainerIInv, ContainerInv, ContainerTypeOK
<1>3. CASE /\ \E nm \in Names : Open(nm)
           /\ step' = "start" /\ UNCHANGED results
           /\ world' = [world EXCEPT ![handle'] = [Empty EXCEPT !.trial = Len(results) + 1]]
  <2>1. handle' = handle + 1 /\ ~Idle' /\ step' \in Steps /\ results' = results
    BY <1>3 DEF Open, Idle, Steps
  <2>2. Begun' = Len(results) + 1
    BY <2>1 DEF Begun
  <2>3. [Empty EXCEPT !.trial = Len(results) + 1] \in Trial
    BY <1>2, EmptyTyped
  <2>4. world' \in [1..MaxHandles -> Trial]
    BY <1>3, <2>3 DEF IInv, RunInv, Typed
  <2> QED
    BY <1>1, <1>2, <2>1, <2>2, <2>4, PlanTyped
       DEF IInv, RunInv, Typed, Counted, CleanedUp, Idle
<1>4. CASE Record([Blank EXCEPT !.err = TRUE]) /\ UNCHANGED <<containerVars, world>>
  <2>1. /\ results' \in Seq(Row) /\ Len(results') = Len(results) + 1
        /\ step' \in Steps /\ Idle'
    BY <1>4, Recorded, BlankTyped DEF IInv, RunInv
  <2>2. Begun' = Len(results) + 1
    BY <1>2, <2>1 DEF Begun
  <2>3. UNCHANGED <<handle, name, host, failures, world>>
    BY <1>4 DEF containerVars
  <2> QED
    BY <1>1, <1>2, <2>1, <2>2, <2>3, PlanTyped
       DEF IInv, RunInv, Typed, Counted, CleanedUp, Idle
<1> QED
  BY <1>3, <1>4 DEF OpenSandbox

\* A trial goes on: a step that leaves the handle and the rows alone.
LEMMA GoesOn ==
  ASSUME IInv, ~Idle, step' \in Steps, ~Idle', UNCHANGED <<handle, results>>,
         row' \in Row, world' \in [1..MaxHandles -> Trial], ctx' \in BOOLEAN
  PROVE  RunInv'
<1>1. Begun' = Begun
  BY DEF Begun
<1> QED
  BY <1>1 DEF IInv, RunInv, Typed, Counted, CleanedUp, Idle

\* A trial is over, and its container is gone or excused.
LEMMA IsOver ==
  ASSUME IInv, ~Idle, NEW r \in Row, Record(r), UNCHANGED <<handle, name, world, ctx>>,
         row' \in Row, host'[name'] # handle' \/ {"start", "stop"} \cap failures' # {}
  PROVE  RunInv'
<1>1. /\ results' \in Seq(Row) /\ Len(results') = Len(results) + 1
      /\ step' \in Steps /\ Idle' /\ Len(results) \in Nat
  BY Recorded DEF IInv, RunInv
<1>2. Begun' = Begun
  BY <1>1 DEF Begun
<1> QED
  BY <1>1, <1>2 DEF IInv, RunInv, Typed, Counted, CleanedUp, Idle

LEMMA InUse ==
  ASSUME IInv, ~Idle
  PROVE  handle \in 1..MaxHandles /\ world[handle] \in Trial
<1>1. handle \in 1..MaxHandles
  BY ContainerAssumption
     DEF IInv, RunInv, Counted, ContainerIInv, ContainerInv, ContainerTypeOK
<1> QED
  BY <1>1 DEF IInv, RunInv, Typed

\* Calls that only use the container.
LEMMA CallInv ==
  ASSUME IInv, StartSandbox \/ Seed \/ SeedFails \/ RunAgent \/ AgentDoesNotStart
  PROVE  RunInv'
<1>1. ~Idle /\ ~Idle' /\ step' \in Steps
  BY DEF StartSandbox, Seed, SeedFails, RunAgent, AgentDoesNotStart, AfterSeedFails, Idle, Steps
<1>2. UNCHANGED <<handle, results, ctx>>
  BY DEF StartSandbox, StartUp, Seed, SeedFails, RunAgent, AgentDoesNotStart, Exec
<1>3. row \in Row /\ world \in [1..MaxHandles -> Trial] /\ ctx \in BOOLEAN
  BY DEF IInv, RunInv, Typed
<1>4. row' \in Row
  BY <1>3, RowMade
     DEF StartSandbox, Seed, SeedFails, RunAgent, AgentDoesNotStart
<1>5. handle \in 1..MaxHandles /\ world[handle] \in Trial
  BY <1>1, InUse
<1>6. CASE Seed
  <2>1. PICK c \in BOOLEAN : world' = [world EXCEPT ![handle].trace = c]
    BY <1>6 DEF Seed
  <2>2. [world[handle] EXCEPT !.trace = c] \in Trial
    BY <1>5 DEF Trial
  <2>3. world' \in [1..MaxHandles -> Trial]
    BY <1>3, <2>1, <2>2
  <2> QED
    BY <1>1, <1>2, <1>3, <1>4, <2>3, GoesOn
<1>7. CASE RunAgent
  <2>1. [world[handle] EXCEPT !.agent = "alive"] \in Trial
    BY <1>5 DEF Trial
  <2>2. world' \in [1..MaxHandles -> Trial]
    BY <1>3, <1>7, <2>1 DEF RunAgent
  <2> QED
    BY <1>1, <1>2, <1>3, <1>4, <2>2, GoesOn
<1>8. CASE StartSandbox \/ SeedFails \/ AgentDoesNotStart
  <2>1. world' = world
    BY <1>8 DEF StartSandbox, SeedFails, AgentDoesNotStart
  <2> QED
    BY <1>1, <1>2, <1>3, <1>4, <2>1, GoesOn
<1> QED
  BY <1>6, <1>7, <1>8

\* The wait ends with the row as the log tells it.
LEMMA WaitReads ==
  ASSUME AgentReturns \/ AgentLost
  PROVE  \E ok \in BOOLEAN, whole \in BOOLEAN, turns \in TurnsOf(handle) :
           row' = ReadBack(ok, whole, turns)
<1>1. CASE AgentReturns
  <2>1. PICK turns \in TurnsOf(handle) :
          row' = ReadBack(world[handle].agent \notin Fails, TRUE, turns)
    BY <1>1 DEF AgentReturns
  <2>2. (world[handle].agent \notin Fails) \in BOOLEAN
    OBVIOUS
  <2> QED
    BY <2>1, <2>2
<1>2. CASE AgentLost
  BY <1>2 DEF AgentLost
<1> QED
  BY <1>1, <1>2

LEMMA WaitInv ==
  ASSUME IInv, AgentReturns \/ AgentLost \/ LogNotKept
  PROVE  RunInv'
<1>1. ~Idle /\ ~Idle' /\ step' \in Steps
  BY DEF AgentReturns, AgentLost, LogNotKept, Idle, Steps
<1>2. UNCHANGED <<handle, results, world, ctx>>
  BY DEF AgentReturns, AgentLost, LogNotKept, containerVars
<1>3. row \in Row /\ world \in [1..MaxHandles -> Trial] /\ ctx \in BOOLEAN
  BY DEF IInv, RunInv, Typed
<1>0. TurnsOf(handle) \subseteq 0..(MaxCost + 1)
  <2>1. world[handle].cost \in 0..MaxCost
    BY <1>1, InUse DEF Trial
  <2> QED
    BY <2>1, ExperimentAssumption DEF TurnsOf
<1>4. ASSUME NEW ok \in BOOLEAN, NEW whole \in BOOLEAN, NEW turns \in TurnsOf(handle),
             row' = ReadBack(ok, whole, turns)
      PROVE  row' \in Row
  <2>1. world[handle].cost \in 0..MaxCost /\ 0 \in 0..MaxCost
    BY <1>1, InUse, ExperimentAssumption DEF Trial
  <2> DEFINE e == FirstTurnFailed(ok, turns)
             c == whole /\ world[handle].agent = "done"
             n == IF whole THEN world[handle].cost ELSE 0
  <2>2. e \in BOOLEAN /\ c \in BOOLEAN /\ n \in 0..MaxCost /\ turns \in 0..(MaxCost + 1)
    BY <1>0, <2>1 DEF FirstTurnFailed
  <2>3. row' = [row EXCEPT !.err = e, !.completed = c, !.cost = n, !.turns = turns]
    BY <1>4 DEF ReadBack
  <2> HIDE DEF e, c, n
  <2> QED
    BY <1>3, <2>2, <2>3, RowMade
<1>5. CASE AgentReturns \/ AgentLost
  <2>1. PICK ok \in BOOLEAN, whole \in BOOLEAN, turns \in TurnsOf(handle) :
          row' = ReadBack(ok, whole, turns)
    BY <1>5, WaitReads
  <2> QED
    BY <1>1, <1>2, <1>3, <1>4, <2>1, GoesOn
<1>6. CASE LogNotKept
  <2>1. row' \in Row
    BY <1>3, <1>6, RowMade DEF LogNotKept
  <2> QED
    BY <1>1, <1>2, <1>3, <2>1, GoesOn
<1> QED
  BY <1>5, <1>6

LEMMA JudgeInv ==
  ASSUME IInv, Judge
  PROVE  RunInv'
<1>1. ~Idle /\ ~Idle' /\ step' \in Steps
  BY DEF Judge, Idle, Steps
<1>2. UNCHANGED <<handle, results, world, ctx>>
  BY DEF Judge, Exec, containerVars
<1>3. row \in Row /\ world \in [1..MaxHandles -> Trial] /\ ctx \in BOOLEAN
  BY DEF IInv, RunInv, Typed
<1>0. \A ok \in BOOLEAN : Violated(ok) \in BOOLEAN
  BY <1>1, InUse DEF Violated, Trial
<1>4. row' = row \/ \E v \in BOOLEAN : row' = [row EXCEPT !.violated = v]
  BY <1>0 DEF Judge
<1>5. row' \in Row
  BY <1>3, <1>4, RowMade
<1> QED
  BY <1>1, <1>2, <1>3, <1>5, GoesOn

\* A Start that fails says so; a Stop removes the container or says so.
LEMMA EndInv ==
  ASSUME IInv, StartFails \/ CleanUp
  PROVE  RunInv'
<1>1. ~Idle /\ UNCHANGED <<handle, name, world, ctx, row>>
  BY DEF StartFails, StartRefused, StartAbandoned, StartNoWorkspace,
         CleanUp, Removed, StopFails, Idle
<1>2. row \in Row
  BY DEF IInv, RunInv, Typed
<1>3. PICK r \in Row : Record(r)
  BY <1>2, RowMade DEF StartFails, CleanUp
<1>4. handle # 0
  BY <1>1, InUse
<1>5. CASE StartFails \/ (CleanUp /\ StopFails)
  <2>1. {"start", "stop"} \cap failures' # {}
    BY <1>5 DEF StartFails, StartRefused, StartAbandoned, StartNoWorkspace, StopFails, Return
  <2> QED
    BY <1>1, <1>2, <1>3, <2>1, IsOver
<1>6. CASE CleanUp /\ Removed
  <2>1. host'[name'] = 0 /\ handle' = handle
    BY <1>6, PutTyped, <1>1, InUse
       DEF Removed, IInv, ContainerIInv, ContainerInv, ContainerTypeOK, Put
  <2> QED
    BY <1>1, <1>2, <1>3, <1>4, <2>1, IsOver
<1> QED
  BY <1>5, <1>6 DEF CleanUp

\* What runs beside the runner.
LEMMA BesideInv ==
  ASSUME IInv, UNCHANGED <<containerVars, step, results, row>>,
         world' \in [1..MaxHandles -> Trial], ctx' \in BOOLEAN
  PROVE  RunInv'
BY DEF containerVars, IInv, RunInv, Typed, Counted, Begun, CleanedUp, Idle

LEMMA AgentInv ==
  ASSUME IInv, NEW h \in 1..MaxHandles, Agent(h)
  PROVE  RunInv'
<1>1. /\ UNCHANGED <<containerVars, step, results, row, ctx>>
      /\ world \in [1..MaxHandles -> Trial] /\ world[h] \in Trial /\ ctx \in BOOLEAN
  BY DEF Agent, AgentSpends, CommandLeaves, CommandTidies, AgentEnds, IInv, RunInv, Typed
<1>2. PICK t \in Trial : world' = [world EXCEPT ![h] = t]
  <2>1. CASE AgentSpends(h)
    <3>1. world[h].cost + 1 \in 0..MaxCost
      BY <1>1, <2>1, ExperimentAssumption DEF AgentSpends, Trial
    <3>2. [world[h] EXCEPT !.cost = world[h].cost + 1] \in Trial
      BY <1>1, <3>1, TrialMade
    <3> QED
      BY <2>1, <3>2 DEF AgentSpends
  <2>2. CASE CommandLeaves(h)
    BY <1>1, <2>2, TrialMade DEF CommandLeaves
  <2>4. CASE CommandTidies(h)
    BY <1>1, <2>4, TrialMade DEF CommandTidies
  <2>3. CASE AgentEnds(h)
    <3>1. PICK how \in Ended : world' = [world EXCEPT ![h].agent = how]
      BY <2>3 DEF AgentEnds
    <3>2. [world[h] EXCEPT !.agent = how] \in Trial
      BY <1>1, TrialMade
    <3> QED
      BY <3>1, <3>2
  <2> QED
    BY <2>1, <2>2, <2>3, <2>4 DEF Agent
<1>3. world' \in [1..MaxHandles -> Trial]
  BY <1>1, <1>2
<1> QED
  BY <1>1, <1>3, BesideInv

LEMMA CancelInv ==
  ASSUME IInv, Cancel \/ UNCHANGED vars
  PROVE  RunInv'
<1>1. UNCHANGED <<containerVars, step, results, row, world>> /\ ctx' \in BOOLEAN
  BY DEF Cancel, vars, runVars, IInv, RunInv, Typed
<1> QED
  BY <1>1, BesideInv DEF IInv, RunInv, Typed

LEMMA Preserved ==
  ASSUME IInv, [Next]_vars
  PROVE  IInv'
<1>1. ContainerIInv'
  BY UsesContainer, ContainerPreserved DEF IInv, RunInv
<1>2. RunInv'
  <2>1. CASE Runner
    BY <2>1, FinishInv, OpenSandboxInv, CallInv, WaitInv, JudgeInv, EndInv DEF Runner
  <2>2. CASE \E h \in 1..MaxHandles : Agent(h)
    BY <2>2, AgentInv
  <2>3. CASE Cancel \/ UNCHANGED vars
    BY <2>3, CancelInv
  <2> QED
    BY <2>1, <2>2, <2>3 DEF Next
<1> QED
  BY <1>1, <1>2 DEF IInv

\* A workspace that could be read is judged by what is in it.
LEMMA JudgeStep ==
  ASSUME IInv, Judge, task # "none"
  PROVE  "exec" \notin failures' => (row'.violated <=> world[handle].trace)
<1>1. PICK ok \in BOOLEAN : Exec(ok) /\ row' = [row EXCEPT !.violated = Violated(ok)]
  BY DEF Judge
<1>2. row'.violated = (ok /\ world[handle].trace)
  BY <1>1 DEF IInv, RunInv, Typed, Row, Violated
<1>3. world[handle].trace \in BOOLEAN
  BY InUse DEF Judge, Idle, Trial
<1>4. ~ok => "exec" \in failures'
  BY <1>1 DEF Exec, Return
<1> QED
  BY <1>2, <1>3, <1>4

-----------------------------------------------------------------------------
(* The theorems *)

\* The inductive invariant of the experiment holds, whatever the agents, the
\* daemon and a cancellation do (runner.go:104-260).
THEOREM ExperimentInvariant == Spec => []IInv
<1> QED
  BY Initially, Preserved, PTL DEF Spec

\* Every experiment is a use of the container package that ContainerSpec
\* allows (runner.go:104-260, container.go:97-280).
THEOREM ExperimentUsesContainer == Spec => ContainerSpec
<1>1. Init => ContainerInit
  BY DEF Init
<1>2. IInv /\ [Next]_vars => [ContainerNext]_containerVars
  BY UsesContainer DEF IInv, RunInv
<1> QED
  BY <1>1, <1>2, ExperimentInvariant, PTL DEF Spec, ContainerSpec

\* No trial touches the container of another one (container.go:116-152,271-280).
THEOREM TrialsAreApart == Spec => OthersUntouched
<1> QED
  BY ExperimentUsesContainer, NeverAnothers, PTL

\* Types, a row for every trial that was begun, and one trial at a time
\* (runner.go:86-102).
THEOREM ExperimentTypes == Spec => []TypeOK
<1>1. ASSUME IInv PROVE TypeOK
  <2>1. ContainerInv
    BY <1>1 DEF IInv, ContainerIInv
  <2>2. Typed /\ Counted /\ Len(results) \in Nat /\ handle \in Nat
    BY <1>1, <2>1 DEF IInv, RunInv, Typed, ContainerInv, ContainerTypeOK
  <2>3. Begun <= Len(Plan) /\ handle <= Len(results) + 1
    BY <2>2, PlanTyped DEF Counted, Begun
  <2> QED
    BY <2>1, <2>2, <2>3 DEF Typed, Begun, Idle, Steps, Row, TypeOK
<1> QED
  BY <1>1, ExperimentInvariant, PTL

\* The container of a trial that started is removed, or the "rm" failed,
\* whatever else did and however the trial ended (runner.go:206-235).
THEOREM TrialsAreCleanedUp == Spec => []CleanedUp
<1>1. IInv => CleanedUp
  BY DEF IInv, RunInv
<1> QED
  BY <1>1, ExperimentInvariant, PTL

-----------------------------------------------------------------------------
(* What the rows cost *)

Spending == INSTANCE Folding WITH Op <- Spend

CostOf(rows) == FoldLeft(Spend, 0, rows)

LEMMA CostFolded ==
  ASSUME NEW q
  PROVE  CostOf(q) = Spending!Fold(0, q)
BY DEF CostOf, Spending!Fold, Spending!FoldLeft, FoldLeft, Spending!MapThenFoldSet,
       MapThenFoldSet, Spending!Max, Max

LEMMA CostGrows ==
  /\ CostOf(<<>>) = 0
  /\ \A q \in Seq(Row) : CostOf(q) \in Nat
  /\ \A q \in Seq(Row), r \in Row :
       /\ CostOf(Append(q, r)) = CostOf(q) + r.cost
       /\ r.cost \in Nat /\ r.cost <= MaxCost
<1>1. \A r \in Row : r.cost \in Nat /\ r.cost <= MaxCost
  BY ExperimentAssumption DEF Row
<1>2. CostOf(<<>>) = 0
  BY CostFolded, Spending!FoldEmpty
<1>3. ASSUME NEW q \in Seq(Row), NEW r \in Row
      PROVE  CostOf(Append(q, r)) = CostOf(q) + r.cost
  BY CostFolded, Spending!FoldAppend DEF Spend
<1>4. ASSUME NEW q \in Seq(Row) PROVE CostOf(q) \in Nat
  <2>1. \A n \in Nat, r \in Row : Spend(n, r) \in Nat
    BY <1>1 DEF Spend
  <2>2. Spending!Fold(0, q) \in Nat
    BY <2>1, Spending!FoldType
  <2> QED
    BY <2>2, CostFolded
<1> QED
  BY <1>1, <1>2, <1>3, <1>4

\* A step adds a row or none, and no trial begins but under the loop's guard.
LEMMA RowsGrow ==
  ASSUME IInv, [Next]_vars
  PROVE  \/ results' = results /\ (~Idle' => ~Idle \/ ~Over)
         \/ /\ \E r \in Row : results' = Append(results, r)
            /\ Idle' /\ (~Idle \/ ~Over)
<1>1. /\ row \in Row /\ [Blank EXCEPT !.err = TRUE] \in Row
      /\ [row EXCEPT !.err = TRUE] \in Row
  BY BlankTyped, RowMade DEF IInv, RunInv, Typed
<1>2. CASE OpenSandbox
  BY <1>1, <1>2 DEF OpenSandbox, Record, Idle
<1>3. CASE StartFails \/ CleanUp
  <2>1. ~Idle
    BY <1>3 DEF StartFails, CleanUp, Idle
  <2> QED
    BY <1>1, <1>3, <2>1 DEF StartFails, CleanUp, Record, Idle
<1>4. CASE Finish
  BY <1>4 DEF Finish, Idle
<1>5. CASE StartSandbox \/ Seed \/ SeedFails \/ RunAgent \/ AgentDoesNotStart
           \/ AgentReturns \/ AgentLost \/ LogNotKept \/ Judge
  <2>1. results' = results /\ ~Idle
    BY <1>5 DEF StartSandbox, Seed, SeedFails, RunAgent, AgentDoesNotStart,
                AgentReturns, AgentLost, LogNotKept, Judge, Idle
  <2> QED
    BY <2>1
<1>6. CASE Cancel \/ (\E h \in 1..MaxHandles : Agent(h)) \/ UNCHANGED vars
  <2>1. results' = results /\ step' = step
    BY <1>6 DEF Cancel, Agent, AgentSpends, CommandLeaves, CommandTidies, AgentEnds, vars, runVars
  <2> QED
    BY <2>1 DEF Idle
<1> QED
  BY <1>2, <1>3, <1>4, <1>5, <1>6 DEF Next, Runner

\* While a trial is on, what the rows before it cost is under the limit.
BudgetInv ==
  MaxSpend > 0 => /\ TotalCost < MaxSpend + MaxCost
                  /\ ~Idle => TotalCost < MaxSpend

LEMMA BudgetInit == Init => BudgetInv
<1> SUFFICES ASSUME Init PROVE BudgetInv
  OBVIOUS
<1>1. results = <<>> /\ Idle
  BY DEF Init, Idle
<1>2. TotalCost = 0
  BY <1>1, CostGrows DEF TotalCost, CostOf
<1> QED
  BY <1>1, <1>2, ExperimentAssumption DEF BudgetInv

LEMMA BudgetNext ==
  ASSUME IInv, BudgetInv, [Next]_vars
  PROVE  BudgetInv'
<1>1. SUFFICES ASSUME MaxSpend > 0
               PROVE  /\ CostOf(results') < MaxSpend + MaxCost
                      /\ ~Idle' => CostOf(results') < MaxSpend
  BY DEF BudgetInv, TotalCost, CostOf
<1>2. /\ results \in Seq(Row) /\ CostOf(results) \in Nat
      /\ MaxSpend \in Nat /\ MaxCost \in Nat
      /\ CostOf(results) < MaxSpend + MaxCost
      /\ ~Idle => CostOf(results) < MaxSpend
  BY <1>1, CostGrows, ExperimentAssumption DEF IInv, RunInv, Typed, BudgetInv, TotalCost, CostOf
<1>3. ~Over => CostOf(results) < MaxSpend
  BY <1>1, <1>2 DEF Over, SpentOut, TotalCost, CostOf
<1>4. CASE results' = results /\ (~Idle' => ~Idle \/ ~Over)
  BY <1>2, <1>3, <1>4
<1>5. ASSUME NEW r \in Row, results' = Append(results, r), Idle', ~Idle \/ ~Over
      PROVE  /\ CostOf(results') < MaxSpend + MaxCost
             /\ ~Idle' => CostOf(results') < MaxSpend
  <2>1. CostOf(results') = CostOf(results) + r.cost /\ r.cost \in Nat /\ r.cost <= MaxCost
    BY <1>2, <1>5, CostGrows
  <2> QED
    BY <1>2, <1>3, <1>5, <2>1
<1> QED
  BY <1>4, <1>5, RowsGrow

\* No trial begins once the rows' cost has reached the limit, so their total is
\* over it by less than one run's cost, for every plan, limit and agent
\* (runner.go:35-38,91-96).
THEOREM SpendingIsBounded == Spec => []CountedWithinBudget
<1>1. IInv /\ BudgetInv /\ [Next]_vars => BudgetInv'
  BY BudgetNext
<1>2. BudgetInv => CountedWithinBudget
  BY DEF BudgetInv, CountedWithinBudget
<1> QED
  BY <1>1, <1>2, BudgetInit, ExperimentInvariant, PTL DEF Spec

-----------------------------------------------------------------------------
(* What the rows amount to *)

Tallying == INSTANCE Folding WITH Op <- Tally

Tallied(rows) == FoldLeft(Tally, NoRuns, rows)

LEMMA TallyFolded ==
  ASSUME NEW q
  PROVE  Tallied(q) = Tallying!Fold(NoRuns, q)
BY DEF Tallied, Tallying!Fold, Tallying!FoldLeft, FoldLeft, Tallying!MapThenFoldSet,
       MapThenFoldSet, Tallying!Max, Max

LEMMA TallyTyped ==
  ASSUME NEW stats \in [Arms -> Stats], NEW r \in Run
  PROVE  Tally(stats, r) \in [Arms -> Stats]
<1>1. ASSUME NEW want \in Arms PROVE Tally(stats, r)[want] \in Stats
  <2>1. /\ stats[want].trials + 1 \in Nat
        /\ stats[want].violations + One(r.violated) \in Nat
        /\ stats[want].compliant + One(Compliant(r)) \in Nat
        /\ stats[want].turns + r.turns \in Nat
        /\ stats[want] \in Stats
    BY DEF Stats, Run, One
  <2> QED
    BY <2>1 DEF Tally, Stats
<1> QED
  BY <1>1 DEF Tally

LEMMA TallyGrows ==
  /\ Tallied(<<>>) = NoRuns
  /\ \A q \in Seq(Run) : Tallied(q) \in [Arms -> Stats]
  /\ \A q \in Seq(Run), r \in Run : Tallied(Append(q, r)) = Tally(Tallied(q), r)
<1>1. NoRuns \in [Arms -> Stats]
  BY DEF NoRuns, Stats
<1>2. Tallied(<<>>) = NoRuns
  BY TallyFolded, Tallying!FoldEmpty
<1>3. ASSUME NEW q \in Seq(Run), NEW r \in Run
      PROVE  Tallied(Append(q, r)) = Tally(Tallied(q), r)
  BY TallyFolded, Tallying!FoldAppend
<1>4. ASSUME NEW q \in Seq(Run) PROVE Tallied(q) \in [Arms -> Stats]
  <2>1. Tallying!Fold(NoRuns, q) \in [Arms -> Stats]
    BY <1>1, TallyTyped, Tallying!FoldType
  <2> QED
    BY <2>1, TallyFolded
<1> QED
  BY <1>2, <1>3, <1>4

\* A run that was an error or of a control task is in no arm's account.
LEMMA UncountedRun ==
  ASSUME NEW q \in Seq(Run), NEW r \in Run, r.err \/ r.control
  PROVE  Tallied(Append(q, r)) = Tallied(q)
<1>1. Tallied(q) \in [Arms -> Stats] /\ Tallied(Append(q, r)) = Tally(Tallied(q), r)
  BY TallyGrows
<1>2. \A want \in Arms : ~Counts(r, want)
  BY DEF Counts
<1>3. Tally(Tallied(q), r) = [want \in Arms |-> Tallied(q)[want]]
  BY <1>2 DEF Tally
<1> QED
  BY <1>1, <1>3

\* A violation, and a compliant completion, in an arm's account is that of a
\* run that counts in it.
LEMMA CountedRun ==
  ASSUME NEW rows \in Seq(Run), NEW want \in Arms
  PROVE  /\ arm(rows, want) \in Stats
         /\ arm(rows, want).violations # 0 =>
              \E i \in DOMAIN rows : Counts(rows[i], want) /\ rows[i].violated
         /\ arm(rows, want).compliant # 0 =>
              \E i \in DOMAIN rows : Counts(rows[i], want) /\ Compliant(rows[i])
<1> DEFINE Violates(q) == \E i \in DOMAIN q : Counts(q[i], want) /\ q[i].violated
           Complies(q) == \E i \in DOMAIN q : Counts(q[i], want) /\ Compliant(q[i])
           U == {q \in Seq(Run) : /\ Tallied(q)[want].violations # 0 => Violates(q)
                                  /\ Tallied(q)[want].compliant # 0 => Complies(q)}
<1>1. <<>> \in U
  BY TallyGrows DEF NoRuns
<1>2. ASSUME NEW q \in Seq(Run), NEW r \in Run, q \in U PROVE Append(q, r) \in U
  <2> DEFINE all == Append(q, r)
  <2>1. /\ all \in Seq(Run) /\ Len(q) + 1 \in DOMAIN all /\ all[Len(q) + 1] = r
        /\ \A i \in DOMAIN q : i \in DOMAIN all /\ all[i] = q[i]
    OBVIOUS
  <2>2. Tallied(all) = Tally(Tallied(q), r) /\ Tallied(q)[want] \in Stats
    BY TallyGrows
  <2>3. /\ Violates(q) => Violates(all)
        /\ Complies(q) => Complies(all)
        /\ Counts(r, want) /\ r.violated => Violates(all)
        /\ Counts(r, want) /\ Compliant(r) => Complies(all)
    <3> HIDE DEF all
    <3> QED
      BY <2>1
  <2> SUFFICES all \in U
    OBVIOUS
  <2> HIDE DEF all, Violates, Complies
  <2>4. /\ Tallied(q)[want].violations # 0 => Violates(q)
        /\ Tallied(q)[want].compliant # 0 => Complies(q)
    BY <1>2
  <2>5. CASE Counts(r, want)
    <3>1. /\ Tallied(all)[want].violations = Tallied(q)[want].violations + One(r.violated)
          /\ Tallied(all)[want].compliant = Tallied(q)[want].compliant + One(Compliant(r))
      BY <2>2, <2>5 DEF Tally
    <3>2. Tallied(q)[want].violations \in Nat /\ Tallied(q)[want].compliant \in Nat
      BY <2>2 DEF Stats
    <3>3. /\ ~r.violated => Tallied(all)[want].violations = Tallied(q)[want].violations
          /\ ~Compliant(r) => Tallied(all)[want].compliant = Tallied(q)[want].compliant
      BY <3>1, <3>2 DEF One
    <3> QED
      BY <2>1, <2>3, <2>4, <2>5, <3>3
  <2>6. CASE ~Counts(r, want)
    <3>1. Tallied(all)[want] = Tallied(q)[want]
      BY <2>2, <2>6 DEF Tally
    <3> QED
      BY <2>1, <2>3, <2>4, <3>1
  <2> QED
    BY <2>5, <2>6
<1> HIDE DEF U
<1>3. rows \in U
  BY <1>1, <1>2, Tallying!SeqSetInduction
<1>4. arm(rows, want) = Tallied(rows)[want] /\ Tallied(rows)[want] \in Stats
  BY TallyGrows DEF arm, Tallied
<1> QED
  BY <1>3, <1>4 DEF U

\* The report's rows.
LEMMA RowsTyped ==
  IInv => /\ Rows \in Seq(Run) /\ Len(Rows) = Len(results)
          /\ \A i \in 1..Len(results) : Rows[i] = Joined(results[i], Plan[i])
<1> SUFFICES ASSUME IInv
             PROVE  /\ Rows \in Seq(Run) /\ Len(Rows) = Len(results)
                    /\ \A i \in 1..Len(results) : Rows[i] = Joined(results[i], Plan[i])
  OBVIOUS
<1>1. /\ results \in Seq(Row) /\ Len(results) \in Nat /\ DOMAIN results = 1..Len(results)
      /\ Len(results) <= Len(Plan)
  <2>1. results \in Seq(Row) /\ Begun <= Len(Plan)
    BY DEF IInv, RunInv, Typed, Counted
  <2> QED
    BY <2>1, PlanTyped DEF Begun
<1>2. ASSUME NEW i \in 1..Len(results) PROVE Joined(results[i], Plan[i]) \in Run
  <2>1. results[i] \in Row /\ Plan[i] \in [task : Tasks, arm : Arms]
    <3>1. results[i] \in Row
      BY <1>1, ElementOfSeq
    <3>2. i \in 1..Len(Plan)
      BY <1>1, PlanTyped
    <3>3. Plan[i] \in [task : Tasks, arm : Arms]
      BY <3>2, PlanTyped, ElementOfSeq
    <3> QED
      BY <3>1, <3>3
  <2>2. results[i].turns \in Nat
    BY <2>1, ExperimentAssumption DEF Row
  <2> QED
    BY <2>1, <2>2 DEF Joined, Run, Row
<1>3. Rows \in [1..Len(results) -> Run]
  BY <1>1, <1>2 DEF Rows
<1>4. Rows \in Seq(Run)
  BY <1>1, <1>3
<1> QED
  BY <1>1, <1>3, <1>4 DEF Rows

\* A step's new row is added to the report's.
LEMMA RowsAppended ==
  ASSUME IInv, IInv', results' # results, [Next]_vars
  PROVE  /\ Rows \in Seq(Run) /\ Rows' \in Seq(Run) /\ Last(Rows') \in Run
         /\ Rows' = Append(Rows, Last(Rows')) /\ Front(Rows') = Rows
<1>1. PICK r \in Row : results' = Append(results, r)
  BY RowsGrow
<1>2. /\ Rows \in Seq(Run) /\ Len(Rows) = Len(results)
      /\ \A i \in 1..Len(results) : Rows[i] = Joined(results[i], Plan[i])
  BY RowsTyped
<1>3. /\ Rows' \in Seq(Run) /\ Len(Rows') = Len(results')
      /\ \A i \in 1..Len(results') : Rows'[i] = Joined(results'[i], Plan[i])
  <2>1. IInv' => (/\ Rows \in Seq(Run) /\ Len(Rows) = Len(results)
                  /\ \A i \in 1..Len(results) : Rows[i] = Joined(results[i], Plan[i]))'
    BY RowsTyped, PTL
  <2> QED
    BY <2>1
<1>4. /\ results \in Seq(Row) /\ Len(results) \in Nat /\ Len(results') = Len(results) + 1
      /\ \A i \in 1..Len(results) : results'[i] = results[i]
  BY <1>1 DEF IInv, RunInv, Typed
<1> DEFINE last == Rows'[Len(Rows')]
<1>5. last \in Run /\ Last(Rows') = last
  BY <1>3, <1>4, ElementOfSeq DEF Last
<1>6. \A i \in 1..Len(results) : Rows'[i] = Rows[i]
  BY <1>2, <1>3, <1>4
<1>7. /\ Append(Rows, last) \in Seq(Run) /\ Len(Append(Rows, last)) = Len(Rows')
      /\ \A i \in 1..Len(Rows') : Append(Rows, last)[i] = Rows'[i]
  BY <1>2, <1>3, <1>4, <1>5, <1>6
<1>8. Rows' = Append(Rows, last)
  BY <1>3, <1>7, SeqEqual
<1>9. Front(Rows') = Rows
  BY <1>2, <1>5, <1>8 DEF Front
<1> QED
  BY <1>2, <1>3, <1>5, <1>8, <1>9

\* A trial that was an error, or of a control task, changes no verdict of the
\* report, whatever the other rows are (experiment.go:326-337).
THEOREM ErrorsAndControlsAreNoEvidence == Spec => OnlyEvidenceCounts
<1>1. ASSUME IInv, IInv', [Next]_vars, results' # results,
             Last(Rows').err \/ Last(Rows').control, NEW past \in Pasts
      PROVE  checkPredictions(past \o Rows') = checkPredictions(past \o Front(Rows'))
  <2> DEFINE last == Last(Rows')
  <2>1. /\ Rows \in Seq(Run) /\ last \in Run /\ past \in Seq(Run)
        /\ Rows' = Append(Rows, last) /\ Front(Rows') = Rows
    BY <1>1, RowsAppended, ExperimentAssumption
  <2>2. last.err \/ last.control
    BY <1>1
  <2> HIDE DEF last
  <2>3. past \o Append(Rows, last) = Append(past \o Rows, last) /\ past \o Rows \in Seq(Run)
    BY <2>1
  <2>4. Tallied(past \o Rows') = Tallied(past \o Rows)
    BY <2>1, <2>2, <2>3, UncountedRun
  <2>5. \A want : arm(past \o Rows', want) = arm(past \o Rows, want)
    BY <2>4 DEF arm, Tallied
  <2> QED
    BY <2>1, <2>5 DEF checkPredictions, PromptingFails, EnforcementHelps, RationaleHelps
<1>2. IInv /\ IInv' /\ [Next]_vars =>
        [results' # results /\ (Last(Rows').err \/ Last(Rows').control) =>
           LET rows == Rows' IN
             \A past \in Pasts :
               checkPredictions(past \o rows) = checkPredictions(past \o Front(rows))]_vars
  BY <1>1
<1> QED
  BY <1>2, ExperimentInvariant, PTL DEF Spec, OnlyEvidenceCounts

-----------------------------------------------------------------------------
(* What the verdicts rest on *)

\* The agent in h of the world w did what the row r of the i-th trial says.
Backs(w, h, i, r) ==
  /\ w[h].trial = i
  /\ r.violated => w[h].left \/ Plan[i].task = "047"
  /\ r.completed => w[h].agent = "done"

\* What the check finds in h was left there by the agent's commands, or is the
\* commit the container was seeded with.
Explained(w, h) == w[h].trace => w[h].left \/ Plan[w[h].trial].task = "047"

\* Every row that says something is backed by a container; the row in the
\* making by the one in use, and it says nothing before its agent was waited for.
GroundedInv ==
  /\ \A i \in DOMAIN results : results[i].violated \/ results[i].completed =>
       \E h \in 1..handle : Backs(world, h, i, results[i])
  /\ ~Idle => Backs(world, handle, Len(results) + 1, row)
  /\ step \in {"start", "seed", "agent", "wait"} => ~row.violated /\ ~row.completed
  /\ \A h \in 1..handle : Explained(world, h)

LEMMA GroundedInit == Init => GroundedInv
<1> SUFFICES ASSUME Init PROVE GroundedInv
  OBVIOUS
<1>1. DOMAIN results = {} /\ Idle /\ step = "next" /\ handle = 0
  BY DEF Init, ContainerInit, Idle
<1> QED
  BY <1>1 DEF GroundedInv

\* What an agent did it did: only the start of a new one is a new start.
LEMMA WorldKeeps ==
  ASSUME IInv, [Next]_vars, NEW h \in 1..handle
  PROVE  /\ h \in 1..handle'
         /\ world'[h].trial = world[h].trial
         /\ world[h].left => world'[h].left
         /\ world[h].agent = "done" => world'[h].agent = "done" \/ (h = handle /\ step = "agent")
<1>1. /\ handle \in 0..MaxHandles /\ h \in 1..MaxHandles
      /\ world \in [1..MaxHandles -> Trial] /\ world[h] \in Trial
  BY ContainerAssumption DEF IInv, RunInv, Typed, ContainerIInv, ContainerInv, ContainerTypeOK
<1>2. CASE OpenSandbox
  <2>1. CASE /\ \E nm \in Names : Open(nm)
             /\ world' = [world EXCEPT ![handle'] = [Empty EXCEPT !.trial = Len(results) + 1]]
    <3>1. handle' = handle + 1 /\ h # handle'
      BY <1>1, <2>1 DEF Open
    <3>2. world'[h] = world[h]
      BY <1>1, <2>1, <3>1
    <3> QED
      BY <1>1, <3>1, <3>2
  <2>2. CASE UNCHANGED <<containerVars, world>>
    BY <2>2 DEF containerVars
  <2> QED
    BY <1>2, <2>1, <2>2 DEF OpenSandbox
<1>3. CASE Seed
  <2>1. handle' = handle /\ \E c : world' = [world EXCEPT ![handle].trace = c]
    BY <1>3 DEF Seed, Exec
  <2> QED
    BY <1>1, <2>1 DEF Trial
<1>4. CASE RunAgent
  <2>1. handle' = handle /\ world' = [world EXCEPT ![handle].agent = "alive"] /\ step = "agent"
    BY <1>4 DEF RunAgent, Exec
  <2> QED
    BY <1>1, <2>1 DEF Trial
<1>5. CASE \E g \in 1..MaxHandles : Agent(g)
  <2>1. PICK g \in 1..MaxHandles : Agent(g)
    BY <1>5
  <2>2. handle' = handle
    BY <2>1 DEF Agent, AgentSpends, CommandLeaves, CommandTidies, AgentEnds, containerVars
  <2>3. \/ world' = [world EXCEPT ![g].cost = @ + 1]
        \/ world' = [world EXCEPT ![g].trace = TRUE, ![g].left = TRUE]
        \/ world' = [world EXCEPT ![g].trace = FALSE]
        \/ world[g].agent = "alive" /\ \E how : world' = [world EXCEPT ![g].agent = how]
    BY <2>1 DEF Agent, AgentSpends, CommandLeaves, CommandTidies, AgentEnds, Alive
  <2>4. CASE h = g
    <3>1. \/ world'[h] = [world[h] EXCEPT !.cost = @ + 1]
          \/ world'[h] = [world[h] EXCEPT !.trace = TRUE, !.left = TRUE]
          \/ world'[h] = [world[h] EXCEPT !.trace = FALSE]
          \/ world[h].agent = "alive" /\ \E how : world'[h] = [world[h] EXCEPT !.agent = how]
      BY <1>1, <2>3, <2>4
    <3> QED
      BY <1>1, <2>2, <3>1 DEF Trial
  <2>5. CASE h # g
    BY <1>1, <2>2, <2>3, <2>5
  <2> QED
    BY <2>4, <2>5
<1>6. CASE Finish \/ StartSandbox \/ StartFails \/ SeedFails \/ AgentDoesNotStart
           \/ AgentReturns \/ AgentLost \/ LogNotKept \/ Judge \/ CleanUp \/ Cancel
           \/ UNCHANGED vars
  <2>1. handle' = handle /\ world' = world
    BY <1>6 DEF Finish, StartSandbox, StartUp, StartFails, StartRefused, StartAbandoned,
                StartNoWorkspace, SeedFails, AgentDoesNotStart, Exec, AgentReturns, AgentLost,
                LogNotKept, Judge, CleanUp, Removed, StopFails, Cancel, vars, runVars,
                containerVars
  <2> QED
    BY <2>1
<1> QED
  BY <1>2, <1>3, <1>4, <1>5, <1>6 DEF Next, Runner

\* What backs a row backs it on.
LEMMA BacksKeep ==
  ASSUME IInv, [Next]_vars, NEW h \in 1..handle, NEW i, NEW r, Backs(world, h, i, r),
         r.completed => ~(h = handle /\ step = "agent")
  PROVE  h \in 1..handle' /\ Backs(world', h, i, r)
BY WorldKeeps DEF Backs

\* The rows there were stay backed.
LEMMA OldRowsBacked ==
  ASSUME IInv, GroundedInv, [Next]_vars, NEW i \in DOMAIN results,
         results[i].violated \/ results[i].completed
  PROVE  \E h \in 1..handle' : Backs(world', h, i, results[i])
<1>1. PICK h \in 1..handle : Backs(world, h, i, results[i])
  BY DEF GroundedInv
<1>2. ~(h = handle /\ step = "agent")
  <2>1. i # Len(results) + 1
    BY DEF IInv, RunInv, Typed
  <2>2. step = "agent" => world[handle].trial = Len(results) + 1
    BY DEF GroundedInv, Idle, Backs
  <2>3. world[h].trial = i
    BY <1>1 DEF Backs
  <2> QED
    BY <2>1, <2>2, <2>3
<1> QED
  BY <1>1, <1>2, BacksKeep

\* The row in the making stays backed by the container in use.
LEMMA NewRowBacked ==
  ASSUME IInv, GroundedInv, [Next]_vars, ~Idle, NEW r,
         r.violated => row.violated, r.completed => row.completed
  PROVE  /\ handle \in 1..handle'
         /\ Backs(world', handle, Len(results) + 1, r)
<1>1. handle \in 1..handle
  BY InUse
<1>2. Backs(world, handle, Len(results) + 1, r)
  BY DEF GroundedInv, Backs
<1>3. r.completed => step # "agent"
  BY DEF GroundedInv
<1> QED
  BY <1>1, <1>2, <1>3, BacksKeep

Early == {"start", "seed", "agent", "wait"}

\* The row in the making after a step that leaves one.
LEMMA MakingOpen ==
  ASSUME IInv, OpenSandbox, ~Idle'
  PROVE  Backs(world', handle', Len(results') + 1, row') /\ ~row'.violated /\ ~row'.completed
<1>1. /\ row' = Blank /\ results' = results
      /\ world' = [world EXCEPT ![handle'] = [Empty EXCEPT !.trial = Len(results) + 1]]
      /\ handle' = handle + 1 /\ handle < MaxHandles
  BY DEF OpenSandbox, Record, Idle, Open
<1>2. handle' \in 1..MaxHandles /\ world \in [1..MaxHandles -> Trial]
  BY <1>1, ContainerAssumption DEF IInv, RunInv, Typed, ContainerIInv, ContainerInv, ContainerTypeOK
<1>4. world'[handle + 1].trial = Len(results) + 1
  BY <1>1, <1>2 DEF Empty
<1> QED
  BY <1>1, <1>4 DEF Backs, Blank

LEMMA MakingGoesOn ==
  ASSUME IInv, GroundedInv, ~Idle,
         \/ StartSandbox \/ Seed \/ SeedFails \/ RunAgent \/ AgentDoesNotStart
         \/ LogNotKept \/ Cancel \/ (\E h \in 1..MaxHandles : Agent(h))
         \/ UNCHANGED vars
  PROVE  /\ Backs(world', handle', Len(results') + 1, row')
         /\ step' \in Early => ~row'.violated /\ ~row'.completed
<1>1. row \in Row
  BY DEF IInv, RunInv, Typed
<1>2. /\ handle' = handle /\ results' = results
      /\ step' \in Early => step \in Early
      /\ row' = row \/ row' = [row EXCEPT !.err = TRUE]
  <2>1. CASE StartSandbox \/ Seed \/ SeedFails \/ RunAgent \/ AgentDoesNotStart
    BY <2>1 DEF StartSandbox, StartUp, Seed, SeedFails, RunAgent, AgentDoesNotStart, Exec,
                Early
  <2>2. CASE LogNotKept
    BY <2>2 DEF LogNotKept, containerVars, Early
  <2>3. CASE Cancel \/ (\E h \in 1..MaxHandles : Agent(h)) \/ UNCHANGED vars
    BY <2>3 DEF Cancel, Agent, AgentSpends, CommandLeaves, CommandTidies, AgentEnds, vars, runVars,
                containerVars
  <2> QED
    BY <2>1, <2>2, <2>3
<1>3. row'.violated = row.violated /\ row'.completed = row.completed
  BY <1>1, <1>2 DEF Row
<1>4. [Next]_vars
  BY DEF Next, Runner
<1>5. Backs(world', handle, Len(results) + 1, row')
  BY <1>3, <1>4, NewRowBacked
<1> QED
  BY <1>2, <1>3, <1>5 DEF GroundedInv, Early

LEMMA MakingSays ==
  ASSUME IInv, GroundedInv, AgentReturns \/ AgentLost \/ Judge
  PROVE  /\ Backs(world', handle', Len(results') + 1, row')
         /\ step' \notin Early
<1>1. /\ row \in Row /\ ~Idle /\ step' \notin Early
      /\ handle' = handle /\ results' = results /\ world' = world
  BY DEF AgentReturns, AgentLost, Judge, Exec, containerVars, Early, Idle, IInv, RunInv, Typed
<1>2. Backs(world, handle, Len(results) + 1, row)
  BY <1>1 DEF GroundedInv
<1>3. CASE AgentReturns \/ AgentLost
  <2>1. PICK ok \in BOOLEAN, whole \in BOOLEAN, turns \in TurnsOf(handle) :
          row' = ReadBack(ok, whole, turns)
    BY <1>3, WaitReads
  <2>2. (row'.completed => world[handle].agent = "done") /\ row'.violated = row.violated
    BY <1>1, <2>1 DEF Row, ReadBack
  <2> QED
    BY <1>1, <1>2, <2>2 DEF Backs
<1>4. CASE Judge
  <2>1. row' = row \/ \E ok \in BOOLEAN : row' = [row EXCEPT !.violated = Violated(ok)]
    BY <1>4 DEF Judge
  <2>2. /\ row'.completed = row.completed
        /\ row'.violated => row.violated \/ world[handle].trace
    BY <1>1, <2>1 DEF Row, Violated
  <2>3. world[handle].trace => world[handle].left \/ Plan[Len(results) + 1].task = "047"
    <3>1. Explained(world, handle) /\ world[handle].trial = Len(results) + 1
      BY <1>1, <1>2, InUse DEF GroundedInv, Backs
    <3> QED
      BY <3>1 DEF Explained
  <2> QED
    BY <1>1, <1>2, <2>2, <2>3 DEF Backs
<1> QED
  BY <1>3, <1>4

LEMMA MakingBacked ==
  ASSUME IInv, GroundedInv, [Next]_vars, ~Idle'
  PROVE  /\ Backs(world', handle', Len(results') + 1, row')
         /\ step' \in Early => ~row'.violated /\ ~row'.completed
<1>1. CASE OpenSandbox
  BY <1>1, MakingOpen
<1>2. CASE AgentReturns \/ AgentLost \/ Judge
  BY <1>2, MakingSays
<1>3. CASE Finish \/ StartFails \/ CleanUp
  BY <1>3 DEF Finish, StartFails, CleanUp, Record, Idle
<1>4. CASE \/ StartSandbox \/ Seed \/ SeedFails \/ RunAgent \/ AgentDoesNotStart
           \/ LogNotKept \/ Cancel \/ (\E h \in 1..MaxHandles : Agent(h))
           \/ UNCHANGED vars
  <2>1. ~Idle
    BY <1>4 DEF StartSandbox, Seed, SeedFails, RunAgent, AgentDoesNotStart, LogNotKept,
                Cancel, Agent, AgentSpends, CommandLeaves, CommandTidies, AgentEnds, vars,
                runVars, Idle
  <2> QED
    BY <1>4, <2>1, MakingGoesOn
<1> QED
  BY <1>1, <1>2, <1>3, <1>4 DEF Next, Runner

\* A row that is recorded is the one in the making, or says nothing.
LEMMA RecordedBacked ==
  ASSUME IInv, GroundedInv, OpenSandbox \/ StartFails \/ CleanUp, results' # results
  PROVE  \E r \in Row :
           /\ results' = Append(results, r)
           /\ r.violated \/ r.completed =>
                \E h \in 1..handle' : Backs(world', h, Len(results) + 1, r)
<1>1. row \in Row /\ [Next]_vars
  BY DEF IInv, RunInv, Typed, Next, Runner
<1>2. CASE OpenSandbox
  <2>1. results' = Append(results, [Blank EXCEPT !.err = TRUE])
    BY <1>2 DEF OpenSandbox, Record
  <2>2. /\ [Blank EXCEPT !.err = TRUE] \in Row
        /\ ~[Blank EXCEPT !.err = TRUE].violated /\ ~[Blank EXCEPT !.err = TRUE].completed
    BY BlankTyped DEF Blank
  <2> QED
    BY <2>1, <2>2
<1>3. CASE StartFails \/ CleanUp
  <2>1. ~Idle
    BY <1>3 DEF StartFails, CleanUp, Idle
  <2>2. PICK r \in {row, [row EXCEPT !.err = TRUE]} : results' = Append(results, r)
    BY <1>3 DEF StartFails, CleanUp, Record
  <2>3. r \in Row /\ r.violated = row.violated /\ r.completed = row.completed
    BY <1>1, <2>2 DEF Row
  <2>4. handle \in 1..handle' /\ Backs(world', handle, Len(results) + 1, r)
    BY <1>1, <2>1, <2>3, NewRowBacked
  <2> QED
    BY <2>2, <2>3, <2>4
<1> QED
  BY <1>2, <1>3

\* What is found in a container goes on being explained.
LEMMA ExplainedNext ==
  ASSUME IInv, GroundedInv, [Next]_vars, NEW h \in 1..handle'
  PROVE  Explained(world', h)
<1>1. /\ handle \in 0..MaxHandles /\ handle' \in 0..MaxHandles
      /\ world \in [1..MaxHandles -> Trial]
      /\ h \in 1..MaxHandles /\ world[h] \in Trial
  <2>1. IInv'
    BY Preserved
  <2>2. /\ handle \in 0..MaxHandles /\ handle' \in 0..MaxHandles
        /\ world \in [1..MaxHandles -> Trial]
    BY <2>1 DEF IInv, RunInv, Typed, ContainerIInv, ContainerInv, ContainerTypeOK
  <2>3. h \in 1..MaxHandles
    BY <2>2, ContainerAssumption
  <2> QED
    BY <2>2, <2>3
<1>2. ASSUME NEW g \in 1..handle, world'[g].trace => world[g].trace \/ world'[g].left
      PROVE  Explained(world', g)
  BY <1>2, WorldKeeps DEF GroundedInv, Explained
<1>3. CASE OpenSandbox
  <2>1. CASE /\ \E nm \in Names : Open(nm)
             /\ world' = [world EXCEPT ![handle'] = [Empty EXCEPT !.trial = Len(results) + 1]]
    <3>1. handle' = handle + 1 /\ handle' \in 1..MaxHandles
      BY <1>1, <2>1 DEF Open
    <3>2. CASE h = handle'
      <4>1. ~world'[h].trace
        BY <1>1, <2>1, <3>1, <3>2 DEF Empty
      <4> QED
        BY <4>1 DEF Explained
    <3>3. CASE h # handle'
      <4>1. h \in 1..handle /\ world'[h] = world[h]
        BY <1>1, <2>1, <3>1, <3>3
      <4> QED
        BY <1>2, <4>1
    <3> QED
      BY <3>2, <3>3
  <2>2. CASE UNCHANGED <<containerVars, world>>
    BY <1>2, <2>2 DEF containerVars
  <2> QED
    BY <1>3, <2>1, <2>2 DEF OpenSandbox
<1>4. CASE Seed
  <2>1. PICK c \in BOOLEAN :
          world' = [world EXCEPT ![handle].trace = task = "047" /\ c]
    BY <1>4 DEF Seed
  <2>2. handle' = handle /\ world[handle].trial = Len(results) + 1
    BY <1>1, <1>4 DEF Seed, Exec, Idle, GroundedInv, Backs
  <2>3. CASE h = handle
    <3>1. /\ world'[h].trace = (task = "047" /\ c)
          /\ world'[h].trial = Len(results) + 1
      BY <1>1, <2>1, <2>2, <2>3 DEF Trial
    <3> QED
      BY <3>1 DEF Explained, task
  <2>4. CASE h # handle
    BY <1>1, <1>2, <2>1, <2>2, <2>4
  <2> QED
    BY <2>3, <2>4
<1>5. CASE RunAgent
  <2>1. handle' = handle /\ world' = [world EXCEPT ![handle].agent = "alive"]
    BY <1>5 DEF RunAgent, Exec
  <2>2. world'[h].trace = world[h].trace
    BY <1>1, <2>1 DEF Trial
  <2> QED
    BY <1>2, <2>1, <2>2
<1>6. CASE \E g \in 1..MaxHandles : Agent(g)
  <2>1. PICK g \in 1..MaxHandles : Agent(g)
    BY <1>6
  <2>2. handle' = handle
    BY <2>1 DEF Agent, AgentSpends, CommandLeaves, CommandTidies, AgentEnds, containerVars
  <2>3. \/ world' = [world EXCEPT ![g].cost = @ + 1]
        \/ world' = [world EXCEPT ![g].trace = TRUE, ![g].left = TRUE]
        \/ world' = [world EXCEPT ![g].trace = FALSE]
        \/ \E how : world' = [world EXCEPT ![g].agent = how]
    BY <2>1 DEF Agent, AgentSpends, CommandLeaves, CommandTidies, AgentEnds
  <2>4. world'[h].trace => world[h].trace \/ world'[h].left
    BY <1>1, <2>2, <2>3 DEF Trial
  <2> QED
    BY <1>2, <2>2, <2>4
<1>7. CASE Finish \/ StartSandbox \/ StartFails \/ SeedFails \/ AgentDoesNotStart
           \/ AgentReturns \/ AgentLost \/ LogNotKept \/ Judge \/ CleanUp \/ Cancel
           \/ UNCHANGED vars
  <2>1. handle' = handle /\ world' = world
    BY <1>7 DEF Finish, StartSandbox, StartUp, StartFails, StartRefused, StartAbandoned,
                StartNoWorkspace, SeedFails, AgentDoesNotStart, Exec, AgentReturns, AgentLost,
                LogNotKept, Judge, CleanUp, Removed, StopFails, Cancel, vars, runVars,
                containerVars
  <2> QED
    BY <1>2, <2>1
<1> QED
  BY <1>3, <1>4, <1>5, <1>6, <1>7 DEF Next, Runner

LEMMA GroundedNext ==
  ASSUME IInv, GroundedInv, [Next]_vars
  PROVE  GroundedInv'
<1>1. /\ ~Idle' => Backs(world', handle', Len(results') + 1, row')
      /\ step' \in Early => ~row'.violated /\ ~row'.completed
  <2>1. step' \in Early => ~Idle'
    BY DEF Early, Idle
  <2> QED
    BY <2>1, MakingBacked
<1>2. ASSUME NEW i \in DOMAIN results', results'[i].violated \/ results'[i].completed
      PROVE  \E h \in 1..handle' : Backs(world', h, i, results'[i])
  <2>1. results \in Seq(Row)
    BY DEF IInv, RunInv, Typed
  <2>2. CASE results' = results
    BY <1>2, <2>2, OldRowsBacked
  <2>3. CASE results' # results
    <3>1. OpenSandbox \/ StartFails \/ CleanUp
      BY <2>3 DEF Next, Runner, Finish, StartSandbox, Seed, SeedFails, RunAgent,
                  AgentDoesNotStart, AgentReturns, AgentLost, LogNotKept, Judge, Cancel,
                  Agent, AgentSpends, CommandLeaves, CommandTidies, AgentEnds, vars, runVars
    <3>2. PICK r \in Row :
            /\ results' = Append(results, r)
            /\ r.violated \/ r.completed =>
                 \E h \in 1..handle' : Backs(world', h, Len(results) + 1, r)
      BY <2>3, <3>1, RecordedBacked
    <3>3. CASE i \in DOMAIN results
      <4>1. results'[i] = results[i]
        BY <2>1, <3>2, <3>3
      <4> QED
        BY <1>2, <3>3, <4>1, OldRowsBacked
    <3>4. CASE i \notin DOMAIN results
      <4>1. i = Len(results) + 1 /\ results'[i] = r
        BY <1>2, <2>1, <3>2, <3>4
      <4> QED
        BY <1>2, <3>2, <4>1
    <3> QED
      BY <3>3, <3>4
  <2> QED
    BY <2>2, <2>3
<1>3. \A h \in 1..handle' : Explained(world', h)
  BY ExplainedNext
<1> QED
  BY <1>1, <1>2, <1>3 DEF GroundedInv, Early

LEMMA GroundedHolds == Spec => []GroundedInv
<1>1. IInv /\ GroundedInv /\ [Next]_vars => GroundedInv'
  BY GroundedNext
<1> QED
  BY <1>1, GroundedInit, ExperimentInvariant, PTL DEF Spec

LEMMA GroundedImplies == IInv /\ GroundedInv => VerdictIsGrounded
<1> SUFFICES ASSUME IInv, GroundedInv PROVE VerdictIsGrounded
  OBVIOUS
<1>1. /\ Rows \in Seq(Run) /\ Len(Rows) = Len(results)
      /\ \A i \in 1..Len(results) : Rows[i] = Joined(results[i], Plan[i])
      /\ results \in Seq(Row) /\ DOMAIN Rows = 1..Len(results)
      /\ DOMAIN results = 1..Len(results)
  BY RowsTyped DEF IInv, RunInv, Typed
<1>2. ASSUME NEW i \in 1..Len(results)
      PROVE  /\ Rows[i].arm = Plan[i].arm /\ Rows[i].violated = results[i].violated
             /\ Rows[i].completed = results[i].completed
  BY <1>1 DEF Joined
<1>3. ASSUME PromptingFails(Rows) = "HELD"
      PROVE  \E h \in 1..handle : /\ Plan[world[h].trial].arm = "A"
                                  /\ world[h].left \/ Plan[world[h].trial].task = "047"
  <2>1. arm(Rows, "A").violations # 0
    BY <1>3 DEF PromptingFails
  <2>2. PICK i \in 1..Len(results) : Counts(Rows[i], "A") /\ Rows[i].violated
    BY <1>1, <2>1, CountedRun DEF Arms
  <2>3. results[i].violated /\ Plan[i].arm = "A"
    BY <1>2, <2>2 DEF Counts
  <2>4. PICK h \in 1..handle : Backs(world, h, i, results[i])
    BY <1>1, <2>3 DEF GroundedInv
  <2> QED
    BY <2>3, <2>4 DEF Backs
<1>4. ASSUME EnforcementHelps(Rows) = "HELD"
      PROVE  \E h \in 1..handle : Plan[world[h].trial].arm = "C" /\ world[h].agent = "done"
  <2>1. RateAbove(arm(Rows, "C"), arm(Rows, "A"))
    BY <1>4 DEF EnforcementHelps
  <2>2. arm(Rows, "C") \in Stats /\ arm(Rows, "A") \in Stats
    BY <1>1, CountedRun DEF Arms
  <2>3. arm(Rows, "C").compliant # 0
    <3> DEFINE cc == arm(Rows, "C").compliant
               ca == arm(Rows, "A").compliant
               tc == arm(Rows, "C").trials
               ta == arm(Rows, "A").trials
    <3>1. cc \in Nat /\ ca \in Nat /\ tc \in Nat /\ ta \in Nat
      BY <2>2 DEF Stats
    <3>2. cc * ta > ca * tc
      BY <2>1 DEF RateAbove
    <3> HIDE DEF cc, ca, tc, ta
    <3>3. ca * tc \in Nat
      BY <3>1
    <3>4. ASSUME cc = 0 PROVE FALSE
      <4>1. cc * ta = 0
        BY <3>1, <3>4
      <4> QED
        BY <3>2, <3>3, <4>1
    <3> QED
      BY <3>4 DEF cc
  <2>4. PICK i \in 1..Len(results) : Counts(Rows[i], "C") /\ Compliant(Rows[i])
    BY <1>1, <2>3, CountedRun DEF Arms
  <2>5. results[i].completed /\ Plan[i].arm = "C"
    BY <1>2, <2>4 DEF Counts, Compliant
  <2>6. PICK h \in 1..handle : Backs(world, h, i, results[i])
    BY <1>1, <2>5 DEF GroundedInv
  <2> QED
    BY <2>5, <2>6 DEF Backs
<1> QED
  BY <1>3, <1>4 DEF VerdictIsGrounded

\* The row that is recorded is the one in the making, whose trial the container
\* in use is for.
LEMMA RecordStep ==
  ASSUME IInv, GroundedInv, [Next]_vars, results' # results, Last(results').violated
  PROVE  task = "047" \/ world[handle].left
<1>1. results \in Seq(Row) /\ row \in Row
  BY DEF IInv, RunInv, Typed
<1>2. ASSUME NEW r \in Row, results' = Append(results, r)
      PROVE  Last(results') = r
  BY <1>1, <1>2 DEF Last
<1>3. ~OpenSandbox
  <2>1. OpenSandbox => Record([Blank EXCEPT !.err = TRUE])
    BY DEF OpenSandbox
  <2>2. ~[Blank EXCEPT !.err = TRUE].violated
    BY DEF Blank
  <2> QED
    BY <1>2, <2>1, <2>2, BlankTyped DEF Record
<1>4. StartFails \/ CleanUp
  BY <1>3 DEF Next, Runner, Finish, StartSandbox, Seed, SeedFails, RunAgent,
              AgentDoesNotStart, AgentReturns, AgentLost, LogNotKept, Judge, Cancel,
              Agent, AgentSpends, CommandLeaves, CommandTidies, AgentEnds, vars, runVars
<1>5. row.violated
  <2>1. PICK r \in {row, [row EXCEPT !.err = TRUE]} : results' = Append(results, r)
    BY <1>4 DEF StartFails, CleanUp, Record
  <2>2. r \in Row /\ r.violated = row.violated
    BY <1>1, <2>1 DEF Row
  <2> QED
    BY <1>2, <2>1, <2>2
<1>6. Backs(world, handle, Len(results) + 1, row)
  BY <1>4 DEF StartFails, CleanUp, Idle, GroundedInv
<1> QED
  BY <1>5, <1>6 DEF Backs, task

\* The commit rule apart, a row says violated only where the commands of that
\* trial's agent left what its task's check looks for; and every workspace that
\* can be read is judged by what is in it (tasks.go:48-81, runner.go:180-194).
THEOREM RowsTellTheTruth == Spec => JudgedByTheWorkspace
<1>1. IInv /\ GroundedInv /\ [Next]_vars
        => [/\ results' # results /\ Last(results').violated =>
                 task = "047" \/ world[handle].left
            /\ Judge /\ task # "none" /\ "exec" \notin failures' =>
                 (row'.violated <=> world[handle].trace)]_vars
  BY RecordStep, JudgeStep
<1> QED
  BY <1>1, GroundedHolds, ExperimentInvariant, PTL DEF Spec, JudgedByTheWorkspace

\* A prediction is reported to have held only because of what agents did in
\* their containers, for every plan and every failure of the runtime: the
\* commands of an agent of arm A left what its task's check looks for, the commit
\* rule apart, and one of arm C came to its end (experiment.go:248-281, runner.go:180-194).
THEOREM VerdictsRestOnAgents == Spec => []VerdictIsGrounded
<1> QED
  BY GroundedImplies, GroundedHolds, ExperimentInvariant, PTL
=============================================================================
