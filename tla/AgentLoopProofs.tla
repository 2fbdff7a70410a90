-------------------------- MODULE AgentLoopProofs ---------------------------
(***************************************************************************)
(* What holds of every run, for every rule file, every bound on turns and  *)
(* calls, every response and every fault: its steps and its suspension,    *)
(* the loop it implements, the refusals in its conversation, the denials   *)
(* it counts, its event log with its numbers, its end and its audit trail, *)
(* and the row the experiment reads of that log.                           *)
(***************************************************************************)
EXTENDS RunSummary, TLAPS, WellFoundedInduction, SequenceTheorems,
        FiniteSetTheorems

-----------------------------------------------------------------------------
(* The gate *)

LEMMA LeastIndex ==
  ASSUME NEW S \in SUBSET Nat, S # {}
  PROVE  /\ Min(S) \in S
         /\ \A j \in S : Min(S) <= j
<1> DEFINE R == OpToRel(<, Nat)
<1>1. \A x, y \in Nat : x < y => <<x, y>> \in R
  BY SMT DEF OpToRel
<1>2. IsWellFoundedOn(R, Nat)
  BY NatLessThanWellFounded
<1> HIDE DEF R
<1>3. PICK m \in S : \A j \in S : ~ (<<j, m>> \in R)
  BY <1>2, WFMin
<1>4. ASSUME NEW j \in S PROVE m <= j
  <2>1. m \in Nat /\ j \in Nat
    OBVIOUS
  <2>2. ~ (j < m)
    BY <2>1, <1>1, <1>3, Zenon
  <2> QED
    BY <2>1, <2>2
<1> QED
  BY <1>4 DEF Min

\* The gate reads the rule file like a firewall: the first rule that matches
\* decides, no match allows, and a refusal carries its rationale unless the
\* gate was built without (gate.go:106-128, rule.go:97-104).
THEOREM FirstMatchDecides ==
  ASSUME NEW rules \in Seq(RawRule), NEW explain \in BOOLEAN, NEW c \in Call,
         \A i \in DOMAIN rules : Validate(rules[i]),
         NEW d, d = Evaluate(rules, explain, c)
  PROVE  /\ d \in Decision
         /\ (\A i \in DOMAIN rules : ~Matches(rules[i], c)) =>
              d.verdict = "allow" /\ d.rule = 0
         /\ \A i \in DOMAIN rules :
              Matches(rules[i], c) /\ (\A j \in 1..(i-1) : ~Matches(rules[j], c))
                => d.verdict = rules[i].verdict /\ d.rule = rules[i].id
         /\ explain /\ d.verdict # "allow" => d.rationale
<1> DEFINE hits == MatchingAt(rules, c)
<1>1. hits \subseteq DOMAIN rules /\ hits \in SUBSET Nat
  BY DEF MatchingAt
<1>2. CASE hits = {}
  <2>1. d = [verdict |-> "allow", rule |-> 0, rationale |-> FALSE]
    BY <1>2 DEF Evaluate
  <2>2. \A i \in DOMAIN rules : ~Matches(rules[i], c)
    BY <1>2 DEF MatchingAt
  <2> QED
    BY <2>1, <2>2 DEF Decision, Verdicts
<1>3. CASE hits # {}
  <2> DEFINE f == Min(hits)
             r == rules[f]
  <2>1. f \in hits /\ \A j \in hits : f <= j
    BY <1>1, <1>3, LeastIndex
  <2>2. f \in DOMAIN rules /\ Matches(r, c)
    BY <2>1 DEF MatchingAt
  <2>3. d = [verdict |-> r.verdict, rule |-> r.id,
             rationale |-> r.verdict # "allow" /\ explain /\ r.rationale]
    BY <1>3 DEF Evaluate
  <2>4. r \in RawRule /\ Validate(r)
    BY <2>2
  <2>5. /\ r.id \in Nat /\ r.rationale \in BOOLEAN /\ r.verdict \in Verdicts
        /\ r.verdict # "allow" => r.rationale
    BY <2>4 DEF RawRule, Validate
  <2>6. d \in Decision
    <3>1. (r.verdict # "allow" /\ explain /\ r.rationale) \in BOOLEAN
      OBVIOUS
    <3> QED
      BY <2>3, <2>5, <3>1 DEF Decision
  <2>7. ASSUME NEW i \in DOMAIN rules, Matches(rules[i], c),
               \A j \in 1..(i-1) : ~Matches(rules[j], c)
        PROVE  i = f
    <3>1. i \in hits
      BY <2>7 DEF MatchingAt
    <3>2. f <= i /\ f \in 1..Len(rules) /\ i \in 1..Len(rules)
      BY <3>1, <2>1, <2>2
    <3>3. f \notin 1..(i-1)
      BY <2>2, <2>7
    <3> QED
      BY <3>2, <3>3
  <2>8. ~ \A i \in DOMAIN rules : ~Matches(rules[i], c)
    BY <2>2
  <2>9. explain /\ d.verdict # "allow" => d.rationale
    BY <2>3, <2>5
  <2>10. d.verdict = r.verdict /\ d.rule = r.id
    BY <2>3
  <2> HIDE DEF f
  <2> QED
    BY <2>6, <2>7, <2>8, <2>9, <2>10
<1> QED
  BY <1>2, <1>3

-----------------------------------------------------------------------------
(* The log *)

LEMMA ConstantsTyped == MaxTurns \in Nat /\ MaxTurns >= 1
                        /\ MaxCalls \in Nat /\ MaxCalls >= 1
BY LoopAssumption

LEMMA EvTyped ==
  ASSUME NEW kind \in EventKind, NEW t \in 0..MaxTurns, NEW what \in What,
         NEW n \in Nat
  PROVE  Ev(kind, t, what, n) \in Event
BY DEF Ev, Event

LogTyped == log \in Seq([seq : Nat, event : Event]) /\ seq \in Nat /\ logErr \in BOOLEAN

LEMMA AppendTyped ==
  ASSUME LogTyped, NEW evs \in Seq(Event), append(evs)
  PROVE  LogTyped'
<1>1. CASE Broken
  BY <1>1 DEF append, logVars, LogTyped
<1>2. CASE ~Broken
  <2>1. PICK n \in 0..Len(evs) :
          /\ log' = log \o Numbered(evs, n)
          /\ logErr' = (n < Len(evs))
          /\ seq' = IF n < Len(evs) THEN seq + n + 1 ELSE seq + n
    BY <1>2 DEF append
  <2>2. n \in Nat /\ seq \in Nat /\ Len(evs) \in Nat
    BY DEF LogTyped
  <2>3. Numbered(evs, n) \in Seq([seq : Nat, event : Event])
    <3>1. \A i \in 1..n : evs[i] \in Event /\ seq + i \in Nat
      BY <2>2
    <3>2. Numbered(evs, n) \in [1..n -> [seq : Nat, event : Event]]
      BY <3>1 DEF Numbered
    <3> HIDE DEF Numbered
    <3>3. Numbered(evs, n) \in UNION {[1..m -> [seq : Nat, event : Event]] : m \in Nat}
      BY <2>2, <3>2
    <3> QED
      BY <3>3, SeqDef, Zenon
  <2> QED
    BY <2>1, <2>2, <2>3 DEF LogTyped
<1> QED
  BY <1>1, <1>2

LEMMA TurnStateTyped ==
  ASSUME NEW state \in What, turn \in 0..MaxTurns
  PROVE  TurnState(state) \in Event
BY EvTyped DEF TurnState, EventKind

OutTyped == out \in [stop : StopKind, denials : Nat, rules : Seq(Nat)]

LEMMA FinishTyped ==
  ASSUME LogTyped, OutTyped, turn \in 0..MaxTurns,
         NEW kind \in StopKind, NEW evs \in Seq(Event), Finish(kind, evs)
  PROVE  LogTyped' /\ OutTyped' /\ pc' = "finished" /\ out'.stop = kind
<1>1. StopState(kind) \in What
  BY DEF StopState, What
<1>2. Append(evs, TurnState(StopState(kind))) \in Seq(Event)
  <2>1. TurnState(StopState(kind)) \in Event
    BY <1>1, TurnStateTyped
  <2> QED
    BY <2>1
<1>3. LogTyped'
  BY <1>2, AppendTyped DEF Finish
<1> QED
  BY <1>3 DEF Finish, OutTyped

-----------------------------------------------------------------------------
(* The conversation *)

\* A message appended to the conversation leaves the turns before it alone.
LEMMA AnsweredStable ==
  ASSUME conv \in Seq(Message), NEW m \in Message, conv' = Append(conv, m),
         NEW t \in Nat \ {0}, 2*t + 1 <= Len(conv), AnsweredTurn(t)
  PROVE  AnsweredTurn(t)'
<1>1. 2*t \in 1..Len(conv) /\ 2*t + 1 \in 1..Len(conv)
  OBVIOUS
<1>2. conv'[2*t] = conv[2*t] /\ conv'[2*t + 1] = conv[2*t + 1]
  BY <1>1
<1> QED
  BY <1>2 DEF AnsweredTurn

LEMMA TurnSteady ==
  ASSUME UNCHANGED conv, NEW t \in Nat, AnsweredTurn(t)
  PROVE  AnsweredTurn(t)'
BY DEF AnsweredTurn

-----------------------------------------------------------------------------
(* The inductive invariant, action by action *)

LEMMA LoopInvInit == Init => LoopInv
<1> SUFFICES ASSUME Init PROVE LoopInv
  OBVIOUS
<1>1. <<>> \in Seq(RawRule) /\ <<>> \in Seq(Result) /\ <<>> \in Seq(CallID)
      /\ <<>> \in Seq(Nat) /\ <<>> \in Seq(Decided) /\ <<>> \in Seq(Call)
      /\ <<>> \in Seq([seq : Nat, event : Event])
  BY EmptySeq
<1>2. Task \in Message
  BY <1>1 DEF Task, Message
<1>3. conv \in Seq(Message)
  BY <1>2 DEF Init
<1>4. calls \in Batch
  BY ConstantsTyped, <1>1 DEF Init, Batch, BoundedSeq, SeqOf
<1>5. turn \in 1..(MaxTurns + 1) /\ k \in 1..(MaxCalls + 1)
  BY ConstantsTyped DEF Init
<1>6. out \in [stop : StopKind, denials : Nat, rules : Seq(Nat)]
      /\ gate \in [rules : Seq(RawRule), explain : BOOLEAN]
  BY <1>1 DEF Init, StopKind
<1>7. TypeOK
  BY <1>1, <1>3, <1>4, <1>5, <1>6 DEF Init, TypeOK, APIStop
<1> QED
  BY <1>7 DEF Init, LoopInv, RulesValid, Working, ConversationWellFormed, TurnInProgress,
              SuspensionIsFinal, Observed

LEMMA BootInv ==
  ASSUME LoopInv, Boot PROVE LoopInv'
<1>1. PICK file \in RuleFiles \cup {<<>>}, noGate \in BOOLEAN,
           withoutRationale \in BOOLEAN, model \in BOOLEAN :
        IF Parses(file) /\ model
        THEN /\ gate' = [rules   |-> IF noGate THEN <<>> ELSE file,
                         explain |-> ~withoutRationale]
             /\ append(IF file = <<>> THEN <<SessionStarted>>
                       ELSE <<SessionStarted, OfinScope>>)
             /\ pc' = "plan"
             /\ UNCHANGED exit
        ELSE /\ pc' = "exited"
             /\ exit' = "error"
             /\ UNCHANGED <<gate, log, seq, logErr>>
  BY DEF Boot
<1>2. file \in Seq(RawRule) /\ <<>> \in Seq(RawRule)
  BY LoopAssumption, EmptySeq
<1>3. SessionStarted \in Event /\ OfinScope \in Event
  <2>1. /\ "SessionStarted" \in EventKind /\ "OfinScope" \in EventKind
        /\ "start" \in What /\ "rules" \in What /\ 0 \in 0..MaxTurns
    BY ConstantsTyped DEF EventKind, What
  <2> QED
    BY <2>1, EvTyped DEF SessionStarted, OfinScope
<1>4. LogTyped /\ pc = "boot"
  BY DEF LoopInv, TypeOK, LogTyped, Boot
<1>5. LogTyped'
  <2>1. CASE Parses(file) /\ model
    <3> DEFINE evs == IF file = <<>> THEN <<SessionStarted>>
                      ELSE <<SessionStarted, OfinScope>>
    <3>1. evs \in Seq(Event) /\ append(evs)
      BY <1>1, <1>3, <2>1
    <3> HIDE DEF evs
    <3> QED
      BY <1>4, <3>1, AppendTyped
  <2>2. CASE ~(Parses(file) /\ model)
    BY <1>1, <1>4, <2>2 DEF LogTyped
  <2> QED
    BY <2>1, <2>2
<1>6. gate' \in [rules : Seq(RawRule), explain : BOOLEAN]
  <2> DEFINE e == ~withoutRationale
             r == IF noGate THEN <<>> ELSE file
  <2>1. e \in BOOLEAN /\ r \in Seq(RawRule)
    BY <1>2
  <2>2. Parses(file) /\ model => gate' = [rules |-> r, explain |-> e]
    BY <1>1
  <2>3. ~(Parses(file) /\ model) => UNCHANGED gate
    BY <1>1
  <2> HIDE DEF e, r
  <2> QED
    BY <2>1, <2>2, <2>3 DEF LoopInv, TypeOK
<1>7. /\ UNCHANGED <<turn, conv, stop, calls, k, results, outcome, out,
                     cancelled, alive, trail, effects>>
      /\ pc' \in {"plan", "exited"} /\ exit' \in {exit, "error"}
  BY <1>1 DEF Boot, envVars, history
<1>8. TypeOK'
  BY <1>5, <1>6, <1>7 DEF LoopInv, TypeOK, LogTyped
<1>9. RulesValid'
  BY <1>1 DEF LoopInv, RulesValid, Working, Parses
<1> QED
  BY <1>4, <1>7, <1>8, <1>9
     DEF LoopInv, Working, ConversationWellFormed, AnsweredTurn, TurnInProgress,
         SuspensionIsFinal, Observed

\* Actions that only log and move on keep everything but the log and pc.
LEMMA PlanningInv ==
  ASSUME LoopInv, Planning PROVE LoopInv'
<1>1. turn \in 1..MaxTurns /\ LogTyped /\ pc = "plan" /\ pc' = "complete"
  BY ConstantsTyped DEF LoopInv, TypeOK, LogTyped, Planning, InLimit
<1>2. <<TurnState("PLANNING")>> \in Seq(Event)
  <2>1. "PLANNING" \in What /\ turn \in 0..MaxTurns
    BY <1>1 DEF What
  <2> QED
    BY <2>1, TurnStateTyped
<1>3. LogTyped'
  BY <1>1, <1>2, AppendTyped DEF Planning
<1>4. UNCHANGED <<gate, turn, conv, stop, calls, k, results, outcome, out,
                  cancelled, alive, exit, trail, effects>>
  BY DEF Planning, envVars, history
<1>5. TypeOK'
  BY <1>1, <1>3, <1>4 DEF LoopInv, TypeOK, LogTyped
<1> QED
  BY <1>1, <1>4, <1>5
     DEF LoopInv, RulesValid, Working, ConversationWellFormed, AnsweredTurn,
         TurnInProgress, SuspensionIsFinal, Observed

LEMMA TurnLimitInv ==
  ASSUME LoopInv, TurnLimit PROVE LoopInv'
<1>1. turn - 1 \in 0..MaxTurns /\ LogTyped /\ pc = "plan" /\ pc' = "finished"
  BY ConstantsTyped DEF LoopInv, TypeOK, LogTyped, TurnLimit
<1>2. <<[TurnState(StopState("turn_limit")) EXCEPT !.turn = turn - 1]>> \in Seq(Event)
  <2>1. [TurnState(StopState("turn_limit")) EXCEPT !.turn = turn - 1]
          = Ev("TurnState", turn - 1, "FAILED", 0)
    BY DEF TurnState, StopState, Ev
  <2>2. "TurnState" \in EventKind /\ "FAILED" \in What /\ 0 \in Nat
    BY DEF EventKind, What
  <2>3. Ev("TurnState", turn - 1, "FAILED", 0) \in Event
    BY <1>1, <2>2, EvTyped
  <2> QED
    BY <2>1, <2>3
<1>3. LogTyped'
  BY <1>1, <1>2, AppendTyped DEF TurnLimit
<1>4. UNCHANGED <<gate, turn, conv, stop, calls, k, results, outcome, out,
                  cancelled, alive, exit, trail, effects>>
  BY DEF TurnLimit, envVars, history
<1>5. TypeOK'
  BY <1>1, <1>3, <1>4 DEF LoopInv, TypeOK, LogTyped
<1> QED
  BY <1>1, <1>4, <1>5
     DEF LoopInv, RulesValid, Working, ConversationWellFormed, TurnInProgress,
         SuspensionIsFinal, Observed

LEMMA CompleteFailsInv ==
  ASSUME LoopInv, CompleteFails PROVE LoopInv'
<1>1. turn \in 0..MaxTurns /\ LogTyped /\ OutTyped /\ pc = "complete"
  BY DEF LoopInv, TypeOK, LogTyped, OutTyped, CompleteFails
<1>2. LogTyped' /\ OutTyped' /\ pc' = "finished"
  <2>1. <<>> \in Seq(Event) /\ "error" \in StopKind /\ Finish("error", <<>>)
    BY EmptySeq DEF StopKind, CompleteFails
  <2> QED
    BY <1>1, <2>1, FinishTyped
<1>3. UNCHANGED <<gate, turn, conv, stop, calls, k, results, outcome,
                  cancelled, alive, exit, trail, effects>>
  BY DEF CompleteFails, envVars, history
<1>4. TypeOK'
  BY <1>2, <1>3 DEF LoopInv, TypeOK, LogTyped, OutTyped
<1> QED
  BY <1>1, <1>2, <1>3, <1>4
     DEF LoopInv, RulesValid, Working, ConversationWellFormed, TurnInProgress,
         SuspensionIsFinal, Observed

LEMMA ExitInv ==
  ASSUME LoopInv, Exit PROVE LoopInv'
<1>1. /\ pc = "finished" /\ pc' = "exited" /\ exit' \in {"error", "ok"}
      /\ UNCHANGED <<gate, turn, conv, stop, calls, k, results, outcome, out,
                     log, seq, logErr, cancelled, alive, trail, effects>>
  BY DEF Exit, logVars, envVars, history
<1>2. TypeOK'
  BY <1>1 DEF LoopInv, TypeOK
<1> QED
  BY <1>1, <1>2
     DEF LoopInv, RulesValid, Working, ConversationWellFormed, TurnInProgress,
         SuspensionIsFinal, Observed

LEMMA EnvironmentInv ==
  ASSUME LoopInv, Cancel \/ Kill \/ UNCHANGED vars PROVE LoopInv'
<1>1. /\ UNCHANGED <<pc, gate, turn, conv, stop, calls, k, results, outcome,
                     out, log, seq, logErr, exit, trail, effects>>
      /\ cancelled' \in {cancelled, TRUE} /\ alive' \in {alive, FALSE}
  BY DEF Cancel, Kill, logVars, history, vars
<1>2. TypeOK'
  BY <1>1 DEF LoopInv, TypeOK
<1> QED
  BY <1>1, <1>2
     DEF LoopInv, RulesValid, Working, ConversationWellFormed, AnsweredTurn,
         TurnInProgress, IDs, SuspensionIsFinal, Observed

LEMMA BatchTyped ==
  ASSUME NEW b \in Batch
  PROVE  b \in Seq(Call) /\ Len(b) \in 0..MaxCalls
BY ConstantsTyped DEF Batch, BoundedSeq, SeqOf

LEMMA IDsTyped ==
  ASSUME turn \in 1..MaxTurns, NEW n \in 0..MaxCalls
  PROVE  IDs(n) \in Seq(CallID) /\ Len(IDs(n)) = n /\ n \in Nat
         /\ \A i \in 1..n : IDs(n)[i] = <<turn, i>>
<1>1. n \in Nat /\ \A i \in 1..n : i \in 1..MaxCalls
  BY ConstantsTyped
<1> QED
  BY <1>1 DEF IDs, CallID

LEMMA CompleteInv ==
  ASSUME LoopInv, Complete PROVE LoopInv'
<1>1. /\ turn \in 1..MaxTurns /\ turn \in 0..MaxTurns /\ turn \in Nat
      /\ LogTyped /\ OutTyped /\ pc = "complete"
      /\ conv \in Seq(Message)
  BY ConstantsTyped DEF LoopInv, TypeOK, LogTyped, OutTyped, Complete
<1>2. /\ stop' \in APIStop
      /\ UNCHANGED <<gate, turn, outcome, cancelled, alive, exit, trail, effects>>
  BY DEF Complete, envVars, history
<1>3. CASE Refused(stop')
  <2>1. LogTyped' /\ OutTyped' /\ pc' = "finished"
    <3> DEFINE kind == IF stopReason(stop') = "refusal" THEN "refused" ELSE "max_tokens"
    <3>1. kind \in StopKind /\ <<>> \in Seq(Event)
      BY EmptySeq DEF StopKind
    <3>2. Finish(kind, <<>>)
      BY <1>3 DEF Refused
    <3> HIDE DEF kind
    <3> QED
      BY <1>1, <3>1, <3>2, FinishTyped
  <2>2. UNCHANGED <<conv, calls, k, results>>
    BY <1>3 DEF Refused
  <2>3. TypeOK'
    BY <1>2, <2>1, <2>2 DEF LoopInv, TypeOK, LogTyped, OutTyped
  <2> QED
    BY <1>1, <1>2, <2>1, <2>2, <2>3
       DEF LoopInv, RulesValid, Working, ConversationWellFormed, TurnInProgress,
           SuspensionIsFinal, Observed
<1>4. ASSUME NEW batch \in Batch, NEW text \in BOOLEAN, Answered(batch, text)
      PROVE  LoopInv'
  <2> DEFINE said == IF text THEN <<AgentMessage>> ELSE <<>>
             proposal == <<ToolProposed(Len(batch)), TurnState("EXECUTING")>>
             m == [role |-> "assistant", calls |-> IDs(Len(batch)), results |-> <<>>]
  <2>1. batch \in Seq(Call) /\ Len(batch) \in 0..MaxCalls /\ Len(batch) \in Nat
    BY <1>4, BatchTyped
  <2>2. said \in Seq(Event) /\ said \o proposal \in Seq(Event)
    <3>1. /\ "AgentMessage" \in EventKind /\ "ToolProposed" \in EventKind
          /\ "text" \in What /\ "calls" \in What /\ "EXECUTING" \in What
      BY DEF EventKind, What
    <3>2. AgentMessage \in Event
      BY <1>1, <3>1, EvTyped DEF AgentMessage
    <3>3. ToolProposed(Len(batch)) \in Event
      BY <1>1, <2>1, <3>1, EvTyped DEF ToolProposed
    <3>4. TurnState("EXECUTING") \in Event
      BY <1>1, <3>1, TurnStateTyped
    <3>5. proposal \in Seq(Event) /\ said \in Seq(Event)
      BY <3>2, <3>3, <3>4
    <3> HIDE DEF proposal, said
    <3> QED
      BY <3>5
  <2>3. m \in Message /\ conv' = Append(conv, m)
    <3>1. IDs(Len(batch)) \in Seq(CallID) /\ <<>> \in Seq(Result)
      BY <1>1, <2>1, IDsTyped, EmptySeq
    <3> QED
      BY <1>4, <3>1 DEF Answered, Message
  <2>4. conv' \in Seq(Message)
    BY <1>1, <2>3
  <2>5. CASE batch = <<>>
    <3>1. Finish("done", said) /\ UNCHANGED <<calls, k, results>>
      BY <1>4, <2>5 DEF Answered
    <3>2. LogTyped' /\ OutTyped' /\ pc' = "finished"
      <4>1. "done" \in StopKind
        BY DEF StopKind
      <4> HIDE DEF said
      <4> QED
        BY <1>1, <2>2, <3>1, <4>1, FinishTyped
    <3>3. TypeOK'
      BY <1>2, <2>4, <3>1, <3>2 DEF LoopInv, TypeOK, LogTyped, OutTyped
    <3> QED
      BY <1>1, <1>2, <3>2, <3>3
         DEF LoopInv, RulesValid, Working, ConversationWellFormed, TurnInProgress,
             SuspensionIsFinal, Observed
  <2>6. CASE batch # <<>>
    <3>1. /\ append(said \o proposal)
          /\ calls' = batch /\ k' = 1 /\ results' = <<>>
          /\ pc' = "gate" /\ UNCHANGED out
      BY <1>4, <2>6 DEF Answered
    <3>2. LogTyped'
      <4> DEFINE evs == said \o proposal
      <4>1. evs \in Seq(Event) /\ append(evs)
        BY <2>2, <3>1
      <4> HIDE DEF evs
      <4> QED
        BY <1>1, <4>1, AppendTyped
    <3>3. TypeOK'
      <4>1. k' \in 1..(MaxCalls + 1) /\ results' \in Seq(Result) /\ turn' <= MaxTurns
        BY <1>1, <1>2, <3>1, ConstantsTyped, EmptySeq
      <4> QED
        BY <1>2, <1>4, <2>4, <3>1, <3>2, <4>1 DEF LoopInv, TypeOK, LogTyped
    <3>4. TurnInProgress'
      <4>1. Len(conv) = 2*turn - 1 /\ conv[1] = Task
        BY <1>1 DEF LoopInv, ConversationWellFormed
      <4>2. Len(conv') = 2*turn' /\ conv'[1] = Task /\ conv'[2*turn'] = m
        BY <1>1, <1>2, <2>3, <4>1
      <4>3. ASSUME NEW t \in 1..(turn' - 1) PROVE AnsweredTurn(t)'
        <5>1. t \in Nat \ {0} /\ 2*t + 1 <= Len(conv) /\ t \in 1..(turn - 1)
          BY <1>1, <1>2, <4>1
        <5>2. AnsweredTurn(t)
          BY <1>1, <5>1 DEF LoopInv, ConversationWellFormed
        <5> HIDE DEF m
        <5> QED
          BY <1>1, <2>3, <5>1, <5>2, AnsweredStable
      <4>4. (conv[2*turn].role = "assistant" /\ conv[2*turn].calls = IDs(Len(calls)))'
        BY <1>2, <3>1, <4>2 DEF IDs
      <4>5. k' <= Len(calls') + 1 /\ Len(results') = k' - 1 /\ calls' # <<>>
            /\ DOMAIN results' = {}
        BY <2>1, <2>6, <3>1
      <4> HIDE DEF m
      <4> QED
        BY <4>2, <4>3, <4>4, <4>5 DEF TurnInProgress
    <3> QED
      BY <1>1, <1>2, <3>1, <3>3, <3>4
         DEF LoopInv, RulesValid, Working, ConversationWellFormed, SuspensionIsFinal, Observed
  <2> QED
    BY <2>5, <2>6
<1> QED
  BY <1>3, <1>4 DEF Complete

LEMMA ExecuteInv ==
  ASSUME LoopInv, Execute PROVE LoopInv'
<1>1. /\ turn \in 1..MaxTurns /\ pc = "gate" /\ pc' = "observe"
      /\ k \in DOMAIN calls /\ k \in 1..MaxCalls /\ calls \in Seq(Call)
      /\ calls[k] \in Call
      /\ trail \in Seq(Decided) /\ effects \in Seq(Call)
  <2>1. calls \in Seq(Call) /\ Len(calls) \in 0..MaxCalls
    BY BatchTyped DEF LoopInv, TypeOK
  <2> QED
    BY <2>1, ConstantsTyped DEF LoopInv, TypeOK, Execute
<1>2. UNCHANGED <<gate, turn, conv, stop, calls, k, results, out, log, seq,
                  logErr, cancelled, alive, exit>>
  BY DEF Execute, logVars, envVars
<1>3. outcome' \in Outcome /\ outcome'.result.callID = <<turn, k>>
  <2> DEFINE d == Evaluate(gate.rules, gate.explain, calls[k])
  <2>1. d \in Decision
    <3>1. gate.rules \in Seq(RawRule) /\ gate.explain \in BOOLEAN
          /\ \A i \in DOMAIN gate.rules : Validate(gate.rules[i])
      BY DEF LoopInv, TypeOK, RulesValid
    <3> QED
      BY <1>1, <3>1, FirstMatchDecides
  <2>2. PICK e \in BOOLEAN :
          outcome' = [decision |-> d,
                      result |-> [callID |-> <<turn, k>>, isError |-> e,
                                  rule |-> IF Allowed(d) THEN 0 ELSE d.rule,
                                  rationale |-> d.rationale],
                      ran |-> Runs(d, calls[k])]
    BY DEF Execute, Outcomes
  <2>3. <<turn, k>> \in CallID /\ Runs(d, calls[k]) \in BOOLEAN
    BY <1>1 DEF CallID, Runs, Allowed
  <2>4. (IF Allowed(d) THEN 0 ELSE d.rule) \in Nat /\ d.rationale \in BOOLEAN
    BY <2>1 DEF Decision
  <2> DEFINE ran == Runs(d, calls[k])
             rule == IF Allowed(d) THEN 0 ELSE d.rule
  <2>5. ran \in BOOLEAN /\ rule \in Nat
    BY <2>3, <2>4
  <2> HIDE DEF d, ran, rule
  <2> QED
    BY <2>1, <2>2, <2>3, <2>4, <2>5 DEF Outcome, Result, ran, rule
<1>4. /\ trail' \in Seq(Decided) /\ Len(trail') = Len(trail) + 1
      /\ trail'[Len(trail')].verdict = outcome'.decision.verdict
      /\ \A i \in 1..Len(trail) : trail'[i] = trail[i]
  <2> DEFINE e == [call |-> calls[k], turn |-> turn,
                   verdict |-> outcome'.decision.verdict,
                   rule |-> outcome'.decision.rule,
                   ran |-> outcome'.ran,
                   isError |-> outcome'.result.isError]
  <2>1. e \in Decided
    BY <1>1, <1>3 DEF Outcome, Decision, Result, Decided
  <2>2. trail' = Append(trail, e)
    BY DEF Execute
  <2>3. e.verdict = outcome'.decision.verdict
    OBVIOUS
  <2> HIDE DEF e
  <2> QED
    BY <1>1, <2>1, <2>2, <2>3
<1>5. effects' \in Seq(Call)
  BY <1>1 DEF Execute
<1>6. TypeOK'
  BY <1>1, <1>2, <1>3, <1>4, <1>5 DEF LoopInv, TypeOK
<1>7. TurnInProgress'
  BY <1>1, <1>2 DEF LoopInv, TurnInProgress, AnsweredTurn, IDs
<1>8. SuspensionIsFinal'
  <2>1. \A i \in 1..Len(trail) : trail[i].verdict # "require_human"
    BY <1>1 DEF LoopInv, SuspensionIsFinal, TypeOK
  <2> QED
    BY <1>1, <1>4, <2>1 DEF SuspensionIsFinal
<1>9. Observed'
  BY <1>1, <1>2, <1>3, <1>4 DEF Observed
<1> QED
  BY <1>1, <1>2, <1>6, <1>7, <1>8, <1>9
     DEF LoopInv, RulesValid, Working, ConversationWellFormed

LEMMA VerdictEventsTyped ==
  ASSUME NEW d \in Decision, turn \in 0..MaxTurns
  PROVE  VerdictEvents(d) \in Seq(Event)
<1>1. "OfinVerdict" \in EventKind /\ "AWAITING_APPROVAL" \in What
      /\ d.verdict \in What /\ d.rule \in Nat
  BY DEF EventKind, What, Decision
<1>2. OfinVerdict(d) \in Event
  BY <1>1, EvTyped DEF OfinVerdict
<1>3. TurnState("AWAITING_APPROVAL") \in Event
  BY <1>1, TurnStateTyped
<1> QED
  BY <1>2, <1>3 DEF VerdictEvents

LEMMA OutputEventsTyped ==
  ASSUME NEW o \in Outcome, turn \in 0..MaxTurns
  PROVE  OutputEvents(o) \in Seq(Event)
<1>1. /\ "ToolOutput" \in EventKind /\ "ToolCompleted" \in EventKind
      /\ Status(o.result.isError) \in What
  BY DEF EventKind, What, Status
<1>2. ToolOutput(Status(o.result.isError)) \in Event
      /\ ToolCompleted(Status(o.result.isError)) \in Event
  BY <1>1, EvTyped DEF ToolOutput, ToolCompleted
<1> QED
  BY <1>2 DEF OutputEvents

LEMMA SuspendInv ==
  ASSUME LoopInv, Suspend PROVE LoopInv'
<1>1. /\ turn \in 0..MaxTurns /\ LogTyped /\ OutTyped /\ pc = "observe"
      /\ outcome \in Outcome /\ outcome.decision \in Decision
  BY DEF LoopInv, TypeOK, LogTyped, OutTyped, Suspend, Outcome
<1>2. /\ LogTyped' /\ OutTyped' /\ pc' = "finished"
      /\ out'.stop = "awaiting_approval"
  <2>1. "awaiting_approval" \in StopKind
    BY DEF StopKind
  <2> QED
    BY <1>1, <2>1, VerdictEventsTyped, FinishTyped DEF Suspend
<1>3. UNCHANGED <<gate, turn, conv, stop, calls, k, results, outcome,
                  cancelled, alive, exit, trail, effects>>
  BY DEF Suspend, envVars, history
<1>4. TypeOK'
  BY <1>2, <1>3 DEF LoopInv, TypeOK, LogTyped, OutTyped
<1> QED
  BY <1>1, <1>2, <1>3, <1>4
     DEF LoopInv, RulesValid, Working, ConversationWellFormed, TurnInProgress,
         SuspensionIsFinal, Observed

LEMMA ObserveInv ==
  ASSUME LoopInv, Observe PROVE LoopInv'
<1>1. /\ turn \in 1..MaxTurns /\ turn \in 0..MaxTurns /\ LogTyped /\ OutTyped
      /\ pc = "observe" /\ pc' = "gate"
      /\ outcome \in Outcome /\ outcome.decision \in Decision
      /\ outcome.result \in Result
      /\ results \in Seq(Result) /\ trail \in Seq(Decided)
      /\ k \in DOMAIN calls /\ calls \in Seq(Call) /\ Len(calls) \in 0..MaxCalls
      /\ outcome.decision.verdict # "require_human"
  <2>1. calls \in Seq(Call) /\ Len(calls) \in 0..MaxCalls
    BY BatchTyped DEF LoopInv, TypeOK
  <2> QED
    BY <2>1, ConstantsTyped
       DEF LoopInv, TypeOK, LogTyped, OutTyped, Observe, Outcome, Holds
<1>2. /\ UNCHANGED <<gate, turn, conv, stop, calls, outcome, cancelled, alive,
                     exit, trail, effects>>
      /\ k' = k + 1 /\ results' = Append(results, outcome.result)
  BY DEF Observe, Collect, envVars, history
<1>3. LogTyped'
  <2> DEFINE evs == VerdictEvents(outcome.decision) \o OutputEvents(outcome)
  <2>1. VerdictEvents(outcome.decision) \in Seq(Event)
        /\ OutputEvents(outcome) \in Seq(Event)
    BY <1>1, VerdictEventsTyped, OutputEventsTyped
  <2>2. evs \in Seq(Event) /\ append(evs)
    BY <2>1 DEF Observe
  <2> HIDE DEF evs
  <2> QED
    BY <1>1, <2>2, AppendTyped
<1>4. OutTyped'
  <2>1. outcome.decision.rule \in Nat
    BY <1>1 DEF Decision
  <2>2. /\ out.denials + 1 \in Nat
        /\ Append(out.rules, outcome.decision.rule) \in Seq(Nat)
    BY <1>1, <2>1 DEF OutTyped
  <2>3. out' \in {out, [out EXCEPT !.denials = out.denials + 1,
                       !.rules = Append(out.rules, outcome.decision.rule)]}
    BY DEF Observe, Count
  <2> QED
    BY <1>1, <2>2, <2>3 DEF OutTyped
<1>5. k' \in 1..(MaxCalls + 1) /\ results' \in Seq(Result)
      /\ Len(results') = Len(results) + 1
  BY <1>1, <1>2, ConstantsTyped
<1>6. TypeOK'
  BY <1>1, <1>2, <1>3, <1>4, <1>5 DEF LoopInv, TypeOK, LogTyped, OutTyped
<1>7. TurnInProgress'
  <2>1. /\ Len(conv) = 2*turn /\ conv[1] = Task
        /\ \A t \in 1..(turn - 1) : AnsweredTurn(t)
        /\ calls # <<>>
        /\ conv[2*turn].role = "assistant"
        /\ conv[2*turn].calls = IDs(Len(calls))
        /\ Len(results) = k - 1
        /\ \A i \in DOMAIN results : results[i].callID = <<turn, i>>
    BY <1>1 DEF LoopInv, TurnInProgress
  <2>2. \A i \in DOMAIN results' : results'[i].callID = <<turn, i>>
    <3>1. outcome.result.callID = <<turn, k>>
      BY <1>1 DEF LoopInv, Observed
    <3>2. ASSUME NEW i \in 1..k PROVE results'[i].callID = <<turn, i>>
      <4>1. CASE i = k
        BY <1>1, <1>2, <2>1, <3>1, <4>1
      <4>2. CASE i # k
        <5>1. i \in DOMAIN results
          BY <1>1, <2>1, <4>2
        <5>2. results'[i] = results[i]
          BY <1>1, <1>2, <5>1
        <5> QED
          BY <2>1, <5>1, <5>2
      <4> QED
        BY <4>1, <4>2
    <3>3. DOMAIN results' = 1..k
      BY <1>1, <1>5, <2>1
    <3> QED
      BY <3>2, <3>3
  <2>3. k' <= Len(calls') + 1 /\ Len(results') = k' - 1
    BY <1>1, <1>2, <1>5, <2>1
  <2> QED
    BY <1>2, <2>1, <2>2, <2>3 DEF TurnInProgress, AnsweredTurn, IDs
<1>8. SuspensionIsFinal'
  <2>1. \A i \in DOMAIN trail : trail[i].verdict # "require_human"
    BY <1>1 DEF LoopInv, SuspensionIsFinal, Observed
  <2> QED
    BY <1>2, <2>1 DEF SuspensionIsFinal
<1>9. out'.stop = out.stop
  BY <1>1 DEF Observe, Count, OutTyped
<1> QED
  BY <1>1, <1>2, <1>6, <1>7, <1>8, <1>9
     DEF LoopInv, RulesValid, Working, ConversationWellFormed, Observed

LEMMA EndTurnInv ==
  ASSUME LoopInv, EndTurn PROVE LoopInv'
<1> DEFINE m == [role |-> "user", calls |-> <<>>, results |-> results]
<1>1. /\ turn \in 1..MaxTurns /\ pc = "gate" /\ pc' = "plan"
      /\ k > Len(calls) /\ Len(calls) \in Nat /\ k \in Nat
      /\ conv \in Seq(Message) /\ results \in Seq(Result)
  <2>1. Len(calls) \in Nat
    BY BatchTyped, ConstantsTyped DEF LoopInv, TypeOK
  <2> QED
    BY <2>1, ConstantsTyped DEF LoopInv, TypeOK, EndTurn
<1>2. /\ UNCHANGED <<gate, calls, k, results, outcome, out, log, seq, logErr,
                     cancelled, alive, exit, trail, effects>>
      /\ turn' = turn + 1 /\ stop' = "end_turn" /\ conv' = Append(conv, m)
  BY DEF EndTurn, logVars, envVars, history
<1>3. m \in Message
  BY <1>1, EmptySeq DEF Message
<1>4. TypeOK'
  <2>1. conv' \in Seq(Message) /\ turn' \in 1..(MaxTurns + 1)
        /\ stop' \in APIStop
    BY <1>1, <1>2, <1>3, ConstantsTyped DEF APIStop
  <2> HIDE DEF m
  <2> QED
    BY <1>1, <1>2, <2>1 DEF LoopInv, TypeOK
<1>5. ConversationWellFormed'
  <2>1. /\ Len(conv) = 2*turn /\ conv[1] = Task
        /\ \A t \in 1..(turn - 1) : AnsweredTurn(t)
        /\ calls # <<>>
        /\ conv[2*turn].role = "assistant"
        /\ conv[2*turn].calls = IDs(Len(calls))
        /\ k <= Len(calls) + 1 /\ Len(results) = k - 1
        /\ \A i \in DOMAIN results : results[i].callID = <<turn, i>>
    BY <1>1 DEF LoopInv, TurnInProgress
  <2>2. /\ Len(conv') = 2*turn' - 1 /\ conv'[1] = Task
        /\ conv'[2*turn] = conv[2*turn] /\ conv'[2*turn + 1] = m
    <3>1. 1 \in 1..Len(conv) /\ 2*turn \in 1..Len(conv)
      BY <1>1, <2>1
    <3> HIDE DEF m
    <3>2. /\ Len(conv') = Len(conv) + 1 /\ conv'[Len(conv) + 1] = m
          /\ \A i \in 1..Len(conv) : conv'[i] = conv[i]
      BY <1>1, <1>2, <1>3, AppendProperties
    <3>3. turn' = turn + 1 /\ Len(conv) = 2*turn /\ turn \in Nat
      BY <1>1, <1>2, <2>1
    <3>4. Len(conv') = 2*turn' - 1
      BY <3>2, <3>3
    <3> QED
      BY <2>1, <3>1, <3>2, <3>3, <3>4
  <2>3. DOMAIN results = 1..Len(calls) /\ calls # <<>>
    BY <1>1, <2>1
  <2>4. ASSUME NEW t \in Nat, t = turn PROVE AnsweredTurn(t)'
    <3>1. [i \in DOMAIN m.results |-> m.results[i].callID] = IDs(Len(calls))
      BY <2>1, <2>3 DEF IDs
    <3>2. IDs(Len(calls)) # <<>>
      <4>1. Len(calls) # 0
        <5>1. calls \in Seq(Call)
          BY BatchTyped DEF LoopInv, TypeOK
        <5> QED
          BY <5>1, <2>3
      <4>2. 1 \in DOMAIN IDs(Len(calls))
        BY <1>1, <4>1 DEF IDs
      <4> QED
        BY <4>2
    <3>3. /\ conv'[2*turn].role = "assistant" /\ conv'[2*turn].calls = IDs(Len(calls))
          /\ conv'[2*turn + 1].role = "user" /\ conv'[2*turn + 1].results = m.results
      BY <2>1, <2>2
    <3>4. /\ conv'[2*t].role = "assistant"
          /\ conv'[2*t].calls # <<>>
          /\ conv'[2*t + 1].role = "user"
          /\ [i \in DOMAIN conv'[2*t + 1].results
               |-> conv'[2*t + 1].results[i].callID] = conv'[2*t].calls
      BY <2>4, <3>1, <3>2, <3>3
    <3> QED
      BY <3>4 DEF AnsweredTurn
  <2>5. ASSUME NEW t \in 1..(turn' - 1) PROVE AnsweredTurn(t)'
    <3>1. CASE t = turn
      BY <1>1, <2>4, <3>1
    <3>2. CASE t # turn
      <4>1. t \in Nat \ {0} /\ t \in 1..(turn - 1) /\ 2*t + 1 <= Len(conv)
        BY <1>1, <1>2, <2>1, <3>2
      <4> HIDE DEF m
      <4> QED
        BY <1>1, <1>2, <1>3, <2>1, <4>1, AnsweredStable
    <3> QED
      BY <3>1, <3>2
  <2> QED
    BY <2>2, <2>5 DEF ConversationWellFormed
<1>6. \A i \in DOMAIN trail : trail[i].verdict # "require_human"
  BY <1>1 DEF LoopInv, SuspensionIsFinal
<1> QED
  BY <1>1, <1>2, <1>4, <1>5, <1>6
     DEF LoopInv, RulesValid, Working, TurnInProgress, SuspensionIsFinal, Observed

LEMMA LoopInvNext == LoopInv /\ [Next]_vars => LoopInv'
<1> SUFFICES ASSUME LoopInv, [Next]_vars PROVE LoopInv'
  OBVIOUS
<1>1. CASE Step
  BY <1>1, BootInv, PlanningInv, TurnLimitInv, CompleteFailsInv, CompleteInv,
     ExecuteInv, SuspendInv, ObserveInv, EndTurnInv, ExitInv DEF Step
<1>2. CASE Cancel \/ Kill \/ UNCHANGED vars
  BY <1>2, EnvironmentInv
<1> QED
  BY <1>1, <1>2 DEF Next

-----------------------------------------------------------------------------
(* The theorems *)

\* The inductive invariant of the loop holds (loop.go:164-243).
THEOREM InvariantHolds == Spec => []LoopInv
<1> QED
  BY LoopInvInit, LoopInvNext, PTL DEF Spec

\* Every variable of the run keeps its type (loop.go, eventlog.go).
THEOREM TypeCorrect == Spec => []TypeOK
<1>1. LoopInv => TypeOK
  BY DEF LoopInv
<1> QED
  BY <1>1, InvariantHolds, PTL

\* The model is never asked to continue a conversation in which a call it
\* proposed has no result (loop.go:207-238).
THEOREM ConversationsAreWellFormed == Spec => []ConversationWellFormed
<1>1. LoopInv => ConversationWellFormed
  BY DEF LoopInv
<1> QED
  BY <1>1, InvariantHolds, PTL

\* Nothing is decided, let alone run, after a call that needs a person
\* (loop.go:216-222).
THEOREM NothingFollowsASuspension == Spec => []SuspensionIsFinal
<1>1. LoopInv => SuspensionIsFinal
  BY DEF LoopInv
<1> QED
  BY <1>1, InvariantHolds, PTL

-----------------------------------------------------------------------------
(* The loop implements GovernedLoop: every step of it is one GovernedLoop    *)
(* allows, or none.                                                          *)

\* What the invariant says of the variables the mapping reads.
LEMMA Mapped ==
  ASSUME LoopInv
  PROVE  /\ calls \in Seq(Call) /\ Len(calls) \in Nat /\ k \in Nat \ {0}
         /\ pc \notin {"finished", "exited"} => out.stop = "turn_limit"
         /\ pc = "observe" => k \in 1..Len(calls)
         /\ policyBar \in [Call -> Governed!Verdict]
<1>1. calls \in Seq(Call) /\ Len(calls) \in Nat /\ k \in Nat \ {0}
  BY BatchTyped, ConstantsTyped DEF LoopInv, TypeOK
<1>2. pc \notin {"finished", "exited"} => out.stop = "turn_limit"
  BY DEF LoopInv, Working
<1>3. pc = "observe" => k \in 1..Len(calls)
  BY <1>1 DEF LoopInv, TypeOK
<1>4. policyBar \in [Call -> Governed!Verdict]
  <2>1. gate.rules \in Seq(RawRule) /\ gate.explain \in BOOLEAN
        /\ \A i \in DOMAIN gate.rules : Validate(gate.rules[i])
    BY DEF LoopInv, TypeOK, RulesValid
  <2>2. ASSUME NEW c \in Call
        PROVE  Evaluate(gate.rules, gate.explain, c).verdict \in Governed!Verdict
    <3>1. Evaluate(gate.rules, gate.explain, c) \in Decision
      BY <2>1, FirstMatchDecides
    <3> QED
      BY <3>1 DEF Decision, Verdicts, Governed!Verdict
  <2> QED
    BY <2>2 DEF policyBar
<1> QED
  BY <1>1, <1>2, <1>3, <1>4

LEMMA RestOfBatch ==
  ASSUME NEW s \in Seq(Call), NEW i \in 1..Len(s)
  PROVE  /\ SubSeq(s, i, Len(s)) # <<>>
         /\ Head(SubSeq(s, i, Len(s))) = s[i]
         /\ Tail(SubSeq(s, i, Len(s))) = SubSeq(s, i + 1, Len(s))
<1>1. Len(s) \in i..Len(s) /\ Len(SubSeq(s, i, Len(s))) # 0
  OBVIOUS
<1> QED
  BY <1>1, HeadTailOfSubSeq, EmptySeq

LEMMA BatchWhole ==
  ASSUME NEW s \in Seq(Call)
  PROVE  /\ SubSeq(s, 1, Len(s)) = s
         /\ \A i \in Nat : i > Len(s) => SubSeq(s, i, Len(s)) = <<>>
OBVIOUS

LEMMA PolicySteady ==
  ASSUME UNCHANGED gate
  PROVE  UNCHANGED policyBar
BY DEF policyBar

LEMMA RefinesInit == Init => Governed!Init
<1> SUFFICES ASSUME Init PROVE Governed!Init
  OBVIOUS
<1>1. pc = "boot" /\ effects = <<>>
  BY DEF Init
<1>2. ~Held
  BY <1>1 DEF Held
<1>3. policyBar \in [Call -> Governed!Verdict]
  BY LoopInvInit, Mapped
<1> QED
  BY <1>1, <1>2, <1>3 DEF Governed!Init, phaseBar, pendingBar

LEMMA BootRefines ==
  ASSUME LoopInv, LoopInv', Boot
  PROVE  Governed!Adopt
<1>1. /\ pc = "boot" /\ pc' \in {"plan", "exited"} /\ UNCHANGED <<out, effects>>
      /\ out.stop = "turn_limit"
  BY Mapped DEF Boot, history
<1>2. ~Held /\ ~Held'
  BY <1>1 DEF Held
<1>3. phaseBar = "idle" /\ phaseBar' \in {"deciding", "over"}
  BY <1>1, <1>2 DEF phaseBar
<1>4. pendingBar = <<>> /\ pendingBar' = <<>>
  BY <1>1, <1>2 DEF pendingBar
<1>5. policyBar' \in [Call -> Governed!Verdict]
  <2>1. gate'.rules \in Seq(RawRule) /\ gate'.explain \in BOOLEAN
        /\ \A i \in DOMAIN gate'.rules : Validate(gate'.rules[i])
    BY DEF LoopInv, TypeOK, RulesValid
  <2>2. ASSUME NEW c \in Call
        PROVE  Evaluate(gate'.rules, gate'.explain, c).verdict \in Governed!Verdict
    <3>1. Evaluate(gate'.rules, gate'.explain, c) \in Decision
      BY <2>1, FirstMatchDecides
    <3> QED
      BY <3>1 DEF Decision, Verdicts, Governed!Verdict
  <2> QED
    BY <2>2 DEF policyBar
<1> QED
  BY <1>1, <1>3, <1>4, <1>5 DEF Governed!Adopt

\* A run stops while nothing is pending.
LEMMA StopRefines ==
  ASSUME LoopInv, pc \in {"plan", "complete"}, pc' = "finished",
         out'.stop # "awaiting_approval", UNCHANGED <<gate, effects>>
  PROVE  Governed!Stop
<1>1. ~Held /\ ~Held'
  BY DEF Held
<1>2. phaseBar = "deciding" /\ phaseBar' = "over"
  BY <1>1 DEF phaseBar
<1>3. pendingBar = <<>> /\ pendingBar' = <<>>
  BY <1>1 DEF pendingBar
<1> QED
  BY <1>2, <1>3, PolicySteady DEF Governed!Stop

LEMMA FinishStops ==
  ASSUME LoopInv, NEW kind, NEW evs, Finish(kind, evs)
  PROVE  pc' = "finished" /\ out'.stop = kind
BY DEF Finish, LoopInv, TypeOK

LEMMA CompleteRefines ==
  ASSUME LoopInv, LoopInv', Complete
  PROVE  Governed!Stop \/ Governed!Propose
<1>1. pc = "complete" /\ UNCHANGED <<gate, effects>> /\ ~Held
  BY DEF Complete, history, Held
<1>2. CASE Refused(stop')
  <2>1. pc' = "finished" /\ out'.stop # "awaiting_approval"
    BY <1>2, FinishStops DEF Refused
  <2> QED
    BY <1>1, <2>1, StopRefines
<1>3. ASSUME NEW batch \in Batch, NEW text \in BOOLEAN, Answered(batch, text)
      PROVE  Governed!Stop \/ Governed!Propose
  <2>1. CASE batch = <<>>
    <3>1. pc' = "finished" /\ out'.stop = "done"
      BY <1>3, <2>1, FinishStops DEF Answered
    <3> QED
      BY <1>1, <3>1, StopRefines
  <2>2. CASE batch # <<>>
    <3>1. pc' = "gate" /\ calls' = batch /\ k' = 1
      BY <1>3, <2>2 DEF Answered
    <3>2. ~Held' /\ phaseBar = "deciding" /\ phaseBar' = "acting" /\ pendingBar = <<>>
      BY <1>1, <3>1 DEF Held, phaseBar, pendingBar
    <3>3. batch \in Seq(Call)
      BY BatchTyped
    <3>4. pendingBar' = batch
      BY <3>1, <3>2, <3>3, BatchWhole DEF pendingBar
    <3> QED
      BY <1>1, <2>2, <3>2, <3>3, <3>4, PolicySteady DEF Governed!Propose
  <2> QED
    BY <2>1, <2>2
<1> QED
  BY <1>2, <1>3 DEF Complete

\* The call the loop is at is the head of what is pending; its decision is
\* the policy's, and only an allowed call can have had an effect.
LEMMA ExecuteRefines ==
  ASSUME LoopInv, LoopInv', Execute
  PROVE  Governed!Act \/ Governed!Refuse \/ Governed!Hold
<1> DEFINE v == outcome'.decision.verdict
<1>1. /\ pc = "gate" /\ pc' = "observe" /\ UNCHANGED <<gate, calls, k>>
      /\ calls \in Seq(Call) /\ Len(calls) \in Nat
      /\ k \in 1..Len(calls) /\ calls[k] \in Call
  BY Mapped DEF Execute
<1>2. ~Held /\ phaseBar = "acting"
  BY <1>1 DEF Held, phaseBar
<1>3. /\ pendingBar # <<>> /\ Head(pendingBar) = calls[k]
      /\ Tail(pendingBar) = SubSeq(calls, k + 1, Len(calls))
  BY <1>1, <1>2, RestOfBatch DEF pendingBar
<1>4. pendingBar' = Tail(pendingBar)
  BY <1>1, <1>3 DEF pendingBar
<1>5. /\ v = Evaluate(gate.rules, gate.explain, calls[k]).verdict
      /\ outcome'.ran => v = "allow"
  <2> DEFINE d == Evaluate(gate.rules, gate.explain, calls[k])
             run == Runs(d, calls[k])
  <2>1. PICK e \in BOOLEAN :
          outcome' = [decision |-> d,
                      result |-> [callID |-> <<turn, k>>, isError |-> e,
                                  rule |-> IF Allowed(d) THEN 0 ELSE d.rule,
                                  rationale |-> d.rationale],
                      ran |-> run]
    BY DEF Execute, Outcomes
  <2>2. outcome'.decision = d /\ outcome'.ran = run
    <3> HIDE DEF d, run
    <3> QED
      BY <2>1
  <2>3. run => d.verdict = "allow"
    BY DEF Runs, Allowed
  <2> QED
    BY <2>2, <2>3
<1>6. policyBar[Head(pendingBar)] = v
  BY <1>1, <1>3, <1>5 DEF policyBar
<1>7. v \in Verdicts
  BY <1>1 DEF LoopInv, TypeOK, Outcome, Decision
<1>8. UNCHANGED policyBar
  BY <1>1, PolicySteady
<1>9. effects' = IF outcome'.ran THEN Append(effects, Head(pendingBar)) ELSE effects
  BY <1>3 DEF Execute
<1>10. phaseBar' = IF v = "require_human" THEN "held" ELSE "acting"
  BY <1>1 DEF phaseBar, Held
<1> HIDE DEF v
<1>11. Governed!Decide(v)
  BY <1>2, <1>3, <1>4, <1>6, <1>8 DEF Governed!Decide
<1>12. CASE v = "allow"
  BY <1>2, <1>9, <1>10, <1>11, <1>12 DEF Governed!Act
<1>13. CASE v = "deny"
  BY <1>2, <1>5, <1>9, <1>10, <1>11, <1>13 DEF Governed!Refuse
<1>14. CASE v = "require_human"
  BY <1>5, <1>9, <1>10, <1>11, <1>14 DEF Governed!Hold
<1> QED
  BY <1>7, <1>12, <1>13, <1>14 DEF Verdicts

LEMMA EndTurnRefines ==
  ASSUME LoopInv, EndTurn
  PROVE  Governed!Observe
<1>1. /\ pc = "gate" /\ pc' = "plan" /\ k > Len(calls) /\ UNCHANGED <<gate, effects>>
      /\ calls \in Seq(Call) /\ k \in Nat
  BY Mapped DEF EndTurn, history
<1>2. ~Held /\ ~Held'
  BY <1>1 DEF Held
<1>3. pendingBar = <<>> /\ pendingBar' = <<>>
  BY <1>1, <1>2, BatchWhole DEF pendingBar
<1>4. phaseBar = "acting" /\ phaseBar' = "deciding"
  BY <1>1, <1>2 DEF phaseBar
<1> QED
  BY <1>1, <1>3, <1>4, PolicySteady DEF Governed!Observe

\* Steps GovernedLoop does not see.
LEMMA QuietRefines ==
  ASSUME LoopInv, Planning \/ Suspend \/ Observe \/ Exit \/ Cancel \/ Kill \/ UNCHANGED vars
  PROVE  UNCHANGED <<phaseBar, policyBar, pendingBar, effects>>
<1>1. UNCHANGED <<gate, calls, effects>>
  BY DEF Planning, Suspend, Observe, Exit, Cancel, Kill, vars, history
<1>2. UNCHANGED policyBar
  BY <1>1, PolicySteady
<1>3. CASE Planning
  <2>1. pc = "plan" /\ pc' = "complete"
    BY <1>3 DEF Planning
  <2> QED
    BY <1>1, <1>2, <2>1 DEF Held, phaseBar, pendingBar
<1>4. CASE Suspend
  <2>1. pc = "observe" /\ pc' = "finished" /\ out'.stop = "awaiting_approval" /\ k' = k
    BY <1>4, FinishStops DEF Suspend
  <2>2. Held /\ Held'
    BY <1>4, <2>1 DEF Suspend, Holds, Held
  <2> QED
    BY <1>1, <1>2, <2>1, <2>2 DEF phaseBar, pendingBar
<1>5. CASE Observe
  <2>1. pc = "observe" /\ pc' = "gate" /\ k' = k + 1
    BY <1>5 DEF Observe
  <2>2. ~Held /\ ~Held'
    BY <1>5, <2>1 DEF Observe, Holds, Held
  <2> QED
    BY <1>1, <1>2, <2>1, <2>2 DEF phaseBar, pendingBar
<1>6. CASE Exit
  <2>1. pc = "finished" /\ pc' = "exited" /\ UNCHANGED <<out, k>>
    BY <1>6 DEF Exit
  <2> QED
    BY <1>1, <1>2, <2>1 DEF Held, phaseBar, pendingBar
<1>7. CASE Cancel \/ Kill \/ UNCHANGED vars
  <2>1. UNCHANGED <<pc, outcome, out, k>>
    BY <1>7 DEF Cancel, Kill, vars
  <2> QED
    BY <1>1, <1>2, <2>1 DEF Held, phaseBar, pendingBar
<1> QED
  BY <1>3, <1>4, <1>5, <1>6, <1>7

LEMMA RefinesNext ==
  ASSUME LoopInv, LoopInv', [Next]_vars
  PROVE  [Governed!Next]_<<phaseBar, policyBar, pendingBar, effects>>
<1>1. CASE TurnLimit \/ CompleteFails
  <2>1. /\ pc \in {"plan", "complete"} /\ pc' = "finished"
        /\ out'.stop # "awaiting_approval" /\ UNCHANGED <<gate, effects>>
    BY <1>1, FinishStops, Mapped DEF TurnLimit, CompleteFails, history
  <2> QED
    BY <2>1, StopRefines DEF Governed!Next
<1>2. CASE Boot \/ Complete \/ Execute \/ EndTurn
  BY <1>2, BootRefines, CompleteRefines, ExecuteRefines, EndTurnRefines DEF Governed!Next
<1>3. CASE Planning \/ Suspend \/ Observe \/ Exit \/ Cancel \/ Kill \/ UNCHANGED vars
  BY <1>3, QuietRefines
<1> QED
  BY <1>1, <1>2, <1>3 DEF Next, Step

-----------------------------------------------------------------------------
\* Every run of the agent, for every rule file, model, tool and fault, is one
\* GovernedLoop allows: the calls of a batch are decided one at a time and in
\* order by the rules read at boot, nothing but an allowed call acts, and a call
\* that needs a person is the last (loop.go:164-243, execute.go:57-84).
THEOREM LoopImplementsGovernedLoop == Spec => ImplementsGovernedLoop
<1>1. LoopInv /\ LoopInv' /\ [Next]_vars
        => [Governed!Next]_<<phaseBar, policyBar, pendingBar, effects>>
  BY RefinesNext
<1>2. Governed!Spec <=> Governed!Init
                        /\ [][Governed!Next]_<<phaseBar, policyBar, pendingBar, effects>>
  BY PTL DEF Governed!Spec, Governed!vars
<1> QED
  BY <1>1, <1>2, RefinesInit, InvariantHolds, PTL DEF Spec, ImplementsGovernedLoop

-----------------------------------------------------------------------------
(* What an agent reads of a refusal *)

Explained(r) == gate.explain /\ r.rule # 0 => r.rationale

AllExplained(rs) == \A i \in DOMAIN rs : Explained(rs[i])

\* Before it is read a result is the outcome of Execute, then one of the
\* turn's; and the gate is chosen before there is any.
DenialInv ==
  /\ pc = "boot" => conv = <<Task>> /\ results = <<>>
  /\ \A m \in DOMAIN conv : AllExplained(conv[m].results)
  /\ AllExplained(results)
  /\ pc = "observe" => Explained(outcome.result)

LEMMA DenialInit == Init => DenialInv
BY DEF Init, DenialInv, AllExplained, Explained, Task

LEMMA DenialBoot ==
  ASSUME LoopInv, DenialInv, Boot
  PROVE  DenialInv'
<1>1. /\ conv' = <<Task>> /\ results' = <<>> /\ pc' \notin {"boot", "observe"}
  BY DEF DenialInv, Boot
<1> QED
  BY <1>1 DEF DenialInv, AllExplained, Task

LEMMA DenialComplete ==
  ASSUME LoopInv, DenialInv, Complete
  PROVE  DenialInv'
<1>1. UNCHANGED gate /\ pc = "complete" /\ conv \in Seq(Message)
  BY DEF Complete, LoopInv, TypeOK
<1>2. CASE Refused(stop')
  <2>1. UNCHANGED <<conv, results>> /\ pc' = "finished"
    BY <1>2 DEF Refused, Finish
  <2> QED
    BY <1>1, <2>1 DEF DenialInv, AllExplained, Explained
<1>3. ASSUME NEW batch \in Batch, NEW text \in BOOLEAN, Answered(batch, text)
      PROVE  DenialInv'
  <2> DEFINE m == [role |-> "assistant", calls |-> IDs(Len(batch)), results |-> <<>>]
  <2>1. conv' = Append(conv, m)
    BY <1>3 DEF Answered
  <2>2. pc' \in {"finished", "gate"} /\ results' \in {results, <<>>}
    BY <1>3 DEF Answered, Finish
  <2>3. m.results = <<>>
    OBVIOUS
  <2> HIDE DEF m
  <2>4. ASSUME NEW i \in DOMAIN conv'
        PROVE  conv'[i].results = <<>> \/ (i \in DOMAIN conv /\ conv'[i] = conv[i])
    BY <1>1, <2>1, <2>3
  <2> QED
    BY <1>1, <2>2, <2>4 DEF DenialInv, AllExplained, Explained
<1> QED
  BY <1>2, <1>3 DEF Complete

\* The gate explains what it refuses, since the file's blocking rules have a
\* rationale.
LEMMA DenialExecute ==
  ASSUME LoopInv, DenialInv, Execute
  PROVE  DenialInv'
<1>1. /\ UNCHANGED <<gate, conv, results>> /\ pc' = "observe"
      /\ calls[k] \in Call
  <2>1. calls \in Seq(Call) /\ k \in DOMAIN calls
    BY BatchTyped, ConstantsTyped DEF LoopInv, TypeOK, Execute
  <2> QED
    BY <2>1 DEF Execute
<1> DEFINE d == Evaluate(gate.rules, gate.explain, calls[k])
<1>2. d \in Decision /\ (gate.explain /\ d.verdict # "allow" => d.rationale)
  <2>1. gate.rules \in Seq(RawRule) /\ gate.explain \in BOOLEAN
        /\ \A i \in DOMAIN gate.rules : Validate(gate.rules[i])
    BY DEF LoopInv, TypeOK, RulesValid
  <2> QED
    BY <1>1, <2>1, FirstMatchDecides
<1>3. outcome'.result.rule = (IF Allowed(d) THEN 0 ELSE d.rule)
      /\ outcome'.result.rationale = d.rationale
  <2>1. PICK e \in BOOLEAN :
          outcome' = [decision |-> d,
                      result |-> [callID |-> <<turn, k>>, isError |-> e,
                                  rule |-> IF Allowed(d) THEN 0 ELSE d.rule,
                                  rationale |-> d.rationale],
                      ran |-> Runs(d, calls[k])]
    BY DEF Execute, Outcomes
  <2> DEFINE ran == Runs(d, calls[k])
             rule == IF Allowed(d) THEN 0 ELSE d.rule
  <2> HIDE DEF d, ran, rule
  <2> QED
    BY <2>1 DEF ran, rule
<1> HIDE DEF d
<1>4. Explained(outcome'.result)
  BY <1>2, <1>3 DEF Explained, Allowed
<1> QED
  BY <1>1, <1>4 DEF DenialInv, AllExplained, Explained

LEMMA DenialObserve ==
  ASSUME LoopInv, DenialInv, Observe
  PROVE  DenialInv'
<1>1. /\ UNCHANGED <<gate, conv>> /\ pc = "observe" /\ pc' = "gate"
      /\ results' = Append(results, outcome.result)
      /\ results \in Seq(Result) /\ outcome.result \in Result
  BY DEF Observe, Collect, LoopInv, TypeOK, Outcome
<1>2. ASSUME NEW i \in DOMAIN results'
      PROVE  results'[i] = outcome.result \/ (i \in DOMAIN results /\ results'[i] = results[i])
  BY <1>1
<1> QED
  BY <1>1, <1>2 DEF DenialInv, AllExplained, Explained

LEMMA DenialEndTurn ==
  ASSUME LoopInv, DenialInv, EndTurn
  PROVE  DenialInv'
<1> DEFINE m == [role |-> "user", calls |-> <<>>, results |-> results]
<1>1. /\ UNCHANGED <<gate, results>> /\ pc' = "plan" /\ conv' = Append(conv, m)
      /\ conv \in Seq(Message)
  BY DEF EndTurn, LoopInv, TypeOK
<1>2. m.results = results
  OBVIOUS
<1> HIDE DEF m
<1>3. ASSUME NEW i \in DOMAIN conv'
      PROVE  conv'[i].results = results \/ (i \in DOMAIN conv /\ conv'[i] = conv[i])
  BY <1>1, <1>2
<1> QED
  BY <1>1, <1>3 DEF DenialInv, AllExplained, Explained

LEMMA DenialNext ==
  ASSUME LoopInv, DenialInv, [Next]_vars
  PROVE  DenialInv'
<1>1. CASE Planning \/ TurnLimit \/ CompleteFails \/ Suspend \/ Exit
  <2>1. UNCHANGED <<gate, conv, results>> /\ pc' \in {"complete", "finished", "exited"}
    BY <1>1 DEF Planning, TurnLimit, CompleteFails, Suspend, Exit, Finish
  <2> QED
    BY <2>1 DEF DenialInv, AllExplained, Explained
<1>2. CASE Cancel \/ Kill \/ UNCHANGED vars
  BY <1>2 DEF Cancel, Kill, vars, DenialInv, AllExplained, Explained
<1>3. CASE Boot \/ Complete \/ Execute \/ Observe \/ EndTurn
  BY <1>3, DenialBoot, DenialComplete, DenialExecute, DenialObserve, DenialEndTurn
<1> QED
  BY <1>1, <1>2, <1>3 DEF Next, Step

-----------------------------------------------------------------------------
\* Unless the gate was built to be silent, an agent never reads a bare refusal:
\* one that names a rule has its rationale, in every message of the
\* conversation (rule.go:97-104, gate.go:106-128, loop.go:223-238).
THEOREM RefusalsAreExplained == Spec => []DenialsExplained
<1>1. DenialInv => DenialsExplained
  BY DEF DenialInv, AllExplained, Explained, DenialsExplained
<1>2. LoopInv /\ DenialInv /\ [Next]_vars => DenialInv'
  BY DenialNext
<1> QED
  BY <1>1, <1>2, DenialInit, InvariantHolds, PTL DEF Spec

-----------------------------------------------------------------------------
(* The log's numbers and its end *)

Closes(e) == e.what \in {"DONE", "FAILED"}

Over == pc \in {"finished", "exited"}

\* The turn of what is logged next: none before the log is opened, the last
\* one between turns.
Now == IF pc = "boot" THEN 0 ELSE IF pc = "plan" THEN turn - 1 ELSE LastTurn

\* Events of the turn t that leave the log open.
Plain(evs, t) == \A i \in DOMAIN evs : ~Closes(evs[i]) /\ evs[i].turn = t

Began == pc = "boot" => turn = 1 /\ log = <<>>

\* The event Finished writes for the run's StopKind, in the turn t.
ClosingState(t, kind) == Ev("TurnState", t, StopState(kind), 0)

\* Until a write fails the numbers are those of the lines.
LogInv == (~logErr => seq = Len(log)) /\ LogGapless /\ ClosedOnce

\* Steps log nothing, events that leave the log open, or the last one after
\* some of those.
Quiet == /\ UNCHANGED <<log, seq, logErr>>
         /\ Over => Over'
         /\ pc' = "finished" => pc = "finished" /\ UNCHANGED out

Goes == /\ ~Over /\ ~Over'
        /\ \E evs \in Seq(Event) : Plain(evs, Now') /\ append(evs)

Ends == /\ ~Over /\ pc' = "finished"
        /\ \E evs \in Seq(Event), t \in 0..MaxTurns :
             /\ Plain(evs, t) /\ t = Now'
             /\ append(Append(evs, ClosingState(t, out'.stop)))

-----------------------------------------------------------------------------
(* append *)

LEMMA AppendLines ==
  ASSUME LogTyped, NEW evs \in Seq(Event), append(evs), ~logErr
  PROVE  \E n \in 0..Len(evs) :
           /\ Len(log') = Len(log) + n
           /\ \A i \in 1..Len(log) : log'[i] = log[i]
           /\ \A i \in 1..n : log'[Len(log) + i] = [seq |-> seq + i, event |-> evs[i]]
           /\ logErr' = (n < Len(evs))
           /\ ~logErr' => seq' = seq + n
<1>1. PICK n \in 0..Len(evs) :
        /\ log' = log \o Numbered(evs, n)
        /\ logErr' = (n < Len(evs))
        /\ seq' = IF n < Len(evs) THEN seq + n + 1 ELSE seq + n
  BY DEF append, Broken
<1>2. n \in Nat /\ Len(evs) \in Nat /\ log \in Seq([seq : Nat, event : Event])
  BY DEF LogTyped
<1>3. /\ Len(Numbered(evs, n)) = n
      /\ \A i \in 1..n : Numbered(evs, n)[i] = [seq |-> seq + i, event |-> evs[i]]
      /\ Numbered(evs, n) \in Seq([seq : Nat, event : Event])
  <2>1. \A i \in 1..n : evs[i] \in Event /\ seq + i \in Nat
    BY <1>2 DEF LogTyped
  <2>2. Numbered(evs, n) \in [1..n -> [seq : Nat, event : Event]]
    BY <2>1 DEF Numbered
  <2>3. \A i \in 1..n : Numbered(evs, n)[i] = [seq |-> seq + i, event |-> evs[i]]
    BY DEF Numbered
  <2>4. Numbered(evs, n) \in Seq([seq : Nat, event : Event])
    <3> HIDE DEF Numbered
    <3>1. Numbered(evs, n) \in UNION {[1..m -> [seq : Nat, event : Event]] : m \in Nat}
      BY <1>2, <2>2
    <3> QED
      BY <3>1, SeqDef, Zenon
  <2>5. Len(Numbered(evs, n)) = n
    BY <1>2, <2>2, <2>4, LenProperties
  <2> QED
    BY <2>3, <2>4, <2>5
<1> HIDE DEF Numbered
<1>4. /\ Len(log') = Len(log) + n
      /\ \A i \in 1..Len(log) : log'[i] = log[i]
      /\ \A i \in 1..n : log'[Len(log) + i] = Numbered(evs, n)[i]
  <2> DEFINE new == Numbered(evs, n)
  <2>1. new \in Seq([seq : Nat, event : Event]) /\ Len(new) = n /\ log' = log \o new
    BY <1>1, <1>3
  <2> HIDE DEF new
  <2>2. /\ Len(log') = Len(log) + n
        /\ \A i \in 1..Len(log) + n :
             log'[i] = IF i <= Len(log) THEN log[i] ELSE new[i - Len(log)]
    BY <1>2, <2>1, ConcatProperties
  <2>3. Len(log) \in Nat
    BY <1>2
  <2>4. ASSUME NEW i \in 1..n PROVE log'[Len(log) + i] = new[i]
    <3>1. Len(log) + i \in 1..Len(log) + n /\ ~(Len(log) + i <= Len(log))
          /\ Len(log) + i - Len(log) = i
      BY <1>2, <2>3
    <3> QED
      BY <2>2, <3>1
  <2>5. ASSUME NEW i \in 1..Len(log) PROVE log'[i] = log[i]
    BY <1>2, <2>2, <2>3
  <2> QED
    BY <2>2, <2>4, <2>5 DEF new
<1>5. ~logErr' => seq' = seq + n
  BY <1>1
<1> QED
  BY <1>1, <1>3, <1>4, <1>5

LEMMA GoesInv ==
  ASSUME LoopInv, LogInv, Goes
  PROVE  LogInv'
<1>1. LogTyped /\ Len(log) \in Nat /\ seq \in Nat
  BY DEF LoopInv, TypeOK, LogTyped
<1>2. PICK evs \in Seq(Event) : Plain(evs, Now') /\ append(evs)
  BY DEF Goes
<1>3. CASE logErr
  <2>1. UNCHANGED <<log, seq, logErr>>
    BY <1>2, <1>3 DEF append, Broken, logVars
  <2> QED
    BY <1>3, <2>1 DEF LogInv, LogGapless, ClosedOnce, Goes, Over
<1>4. CASE ~logErr
  <2>1. PICK n \in 0..Len(evs) :
           /\ Len(log') = Len(log) + n
           /\ \A i \in 1..Len(log) : log'[i] = log[i]
           /\ \A i \in 1..n : log'[Len(log) + i] = [seq |-> seq + i, event |-> evs[i]]
           /\ logErr' = (n < Len(evs))
           /\ ~logErr' => seq' = seq + n
    BY <1>1, <1>2, <1>4, AppendLines
  <2>2. LogTyped'
    BY <1>1, <1>2, AppendTyped
  <2>3. DOMAIN log' = 1..(Len(log) + n) /\ DOMAIN log = 1..Len(log)
    BY <1>1, <2>1, <2>2 DEF LogTyped
  <2>4. seq = Len(log)
    BY <1>4 DEF LogInv
  <2>5. ASSUME NEW i \in DOMAIN log'
        PROVE  log'[i].seq = i /\ ~Closes(log'[i].event)
    <3>1. CASE i <= Len(log)
      <4>1. i \in DOMAIN log /\ log'[i] = log[i]
        BY <1>1, <2>1, <2>3, <3>1
      <4>2. log[i].seq = i /\ ~Closes(log[i].event)
        <5>1. ~Over /\ LogGapless
          BY DEF Goes, LogInv
        <5>2. \A j \in DOMAIN log : Closes(log[j].event) => Over
          BY DEF LogInv, ClosedOnce, Closes, Over
        <5> QED
          BY <4>1, <5>1, <5>2 DEF LogGapless
      <4> QED
        BY <4>1, <4>2
    <3>2. CASE i > Len(log)
      <4>1. i - Len(log) \in 1..n /\ i = Len(log) + (i - Len(log))
        BY <1>1, <2>3, <3>2
      <4>2. log'[i] = [seq |-> seq + (i - Len(log)), event |-> evs[i - Len(log)]]
        BY <2>1, <4>1
      <4>3. i - Len(log) \in DOMAIN evs
        BY <4>1
      <4> QED
        BY <1>1, <1>2, <2>4, <4>1, <4>2, <4>3 DEF Plain
    <3> QED
      BY <1>1, <2>3, <3>1, <3>2
  <2>6. ~logErr' => seq' = Len(log')
    BY <2>1, <2>4
  <2> QED
    BY <2>5, <2>6 DEF LogInv, LogGapless, ClosedOnce, Closes, Goes, Over
<1> QED
  BY <1>3, <1>4

LEMMA EndsInv ==
  ASSUME LoopInv, LogInv, Ends
  PROVE  LogInv'
<1>1. LogTyped /\ Len(log) \in Nat /\ seq \in Nat /\ DOMAIN log = 1..Len(log)
  BY DEF LoopInv, TypeOK, LogTyped
<1>2. PICK evs \in Seq(Event), t \in 0..MaxTurns :
        /\ Plain(evs, t)
        /\ append(Append(evs, ClosingState(t, out'.stop)))
  BY DEF Ends
<1> DEFINE last == ClosingState(t, out'.stop)
           all == Append(evs, last)
<1>3. last \in Event /\ last.what = StopState(out'.stop)
  <2>1. StopState(out'.stop) \in What /\ "TurnState" \in EventKind
    BY DEF StopState, What, EventKind
  <2>2. last \in Event
    BY <2>1, EvTyped DEF ClosingState
  <2> QED
    BY <2>2 DEF ClosingState, Ev
<1> HIDE DEF last
<1>4. /\ all \in Seq(Event) /\ Len(all) = Len(evs) + 1 /\ Len(evs) \in Nat
      /\ all[Len(evs) + 1] = last
      /\ \A i \in 1..Len(evs) : all[i] = evs[i] /\ i \in DOMAIN evs
  BY <1>3, AppendProperties
<1>5. append(all)
  BY <1>2 DEF last
<1> HIDE DEF all
<1>6. \A i \in DOMAIN log : ~Closes(log[i].event)
  BY DEF LogInv, ClosedOnce, Closes, Over, Ends
<1>7. pc' = "finished"
  BY DEF Ends
<1>8. CASE logErr
  <2>1. UNCHANGED <<log, seq, logErr>>
    BY <1>5, <1>8 DEF append, Broken, logVars
  <2> QED
    BY <1>6, <1>8, <2>1 DEF LogInv, LogGapless, ClosedOnce, Closes
<1>9. CASE ~logErr
  <2>1. PICK n \in 0..Len(all) :
           /\ Len(log') = Len(log) + n
           /\ \A i \in 1..Len(log) : log'[i] = log[i]
           /\ \A i \in 1..n : log'[Len(log) + i] = [seq |-> seq + i, event |-> all[i]]
           /\ logErr' = (n < Len(all))
           /\ ~logErr' => seq' = seq + n
    BY <1>1, <1>4, <1>5, <1>9, AppendLines
  <2>2. DOMAIN log' = 1..(Len(log) + n)
    BY <1>1, <1>4, <1>5, <2>1, AppendTyped DEF LogTyped
  <2>3. seq = Len(log) /\ n \in Nat /\ n <= Len(evs) + 1
    BY <1>4, <1>9 DEF LogInv
  <2>4. ASSUME NEW i \in DOMAIN log'
        PROVE  log'[i].seq = i /\ (Closes(log'[i].event) => i = Len(log'))
    <3>1. CASE i <= Len(log)
      <4>1. i \in DOMAIN log /\ log'[i] = log[i]
        BY <1>1, <2>1, <2>2, <3>1
      <4> QED
        BY <1>6, <4>1 DEF LogInv, LogGapless
    <3>2. CASE i > Len(log)
      <4> DEFINE j == i - Len(log)
      <4>1. j \in 1..n /\ i = Len(log) + j /\ j \in 1..Len(evs) + 1
        BY <1>1, <1>4, <2>2, <2>3, <3>2
      <4>2. log'[i] = [seq |-> seq + j, event |-> all[j]]
        BY <2>1, <4>1
      <4>3. j <= Len(evs) => ~Closes(all[j])
        BY <1>2, <1>4, <4>1 DEF Plain
      <4>4. ~(j <= Len(evs)) => i = Len(log')
        <5>1. Len(log') = Len(log) + n
          BY <2>1
        <5> HIDE DEF j
        <5> QED
          BY <1>1, <1>4, <2>3, <4>1, <5>1
      <4> HIDE DEF j
      <4> QED
        BY <1>1, <2>3, <4>1, <4>2, <4>3, <4>4
    <3> QED
      BY <1>1, <2>2, <2>3, <3>1, <3>2
  <2>5. ~logErr' => seq' = Len(log')
    BY <2>1, <2>3
  <2>6. ~logErr' => Last(log').event.what = StopState(out'.stop)
    <3>1. SUFFICES ASSUME ~logErr' PROVE Last(log').event.what = StopState(out'.stop)
      OBVIOUS
    <3>2. n = Len(evs) + 1 /\ n \in 1..n
      <4>1. ~(n < Len(all))
        BY <2>1, <3>1, Zenon
      <4> QED
        BY <1>4, <2>3, <4>1
    <3>3. log'[Len(log')] = [seq |-> seq + n, event |-> last]
      BY <1>4, <2>1, <3>2
    <3> QED
      BY <1>3, <3>3 DEF Last
  <2> QED
    BY <1>7, <2>4, <2>5, <2>6 DEF LogInv, LogGapless, ClosedOnce, Closes, StopState
<1> QED
  BY <1>8, <1>9

LEMMA QuietInv ==
  ASSUME LogInv, Quiet
  PROVE  LogInv'
BY DEF LogInv, LogGapless, ClosedOnce, Quiet, Over

-----------------------------------------------------------------------------
(* Every step is one of the three *)

LEMMA Open ==
  ASSUME NEW kind \in EventKind, NEW t \in 0..MaxTurns, NEW what \in What \ {"DONE", "FAILED"},
         NEW n \in Nat
  PROVE  /\ Ev(kind, t, what, n) \in Event /\ ~Closes(Ev(kind, t, what, n))
         /\ Ev(kind, t, what, n).turn = t
<1>1. Ev(kind, t, what, n) \in Event
  BY EvTyped
<1> QED
  BY <1>1 DEF Ev, Closes

LEMMA FinishEnds ==
  ASSUME LoopInv, ~Over, turn \in 0..MaxTurns, UNCHANGED turn, NEW kind,
         NEW evs \in Seq(Event), Plain(evs, turn), Finish(kind, evs)
  PROVE  Ends
<1>1. pc' = "finished" /\ out'.stop = kind
  BY DEF Finish, LoopInv, TypeOK
<1>2. append(Append(evs, ClosingState(turn, out'.stop)))
  BY <1>1 DEF Finish, TurnState, ClosingState
<1>3. turn = Now'
  BY <1>1, ConstantsTyped DEF Now, LastTurn
<1> QED
  BY <1>1, <1>2, <1>3 DEF Ends

LEMMA NothingCloses == <<>> \in Seq(Event) /\ \A t : Plain(<<>>, t)
BY EmptySeq DEF Plain

LEMMA OneOpens ==
  ASSUME NEW e \in Event, ~Closes(e), NEW t, e.turn = t
  PROVE  <<e>> \in Seq(Event) /\ Plain(<<e>>, t)
BY DEF Plain

LEMMA BothOpen ==
  ASSUME NEW a \in Seq(Event), NEW b \in Seq(Event), NEW t, Plain(a, t), Plain(b, t)
  PROVE  a \o b \in Seq(Event) /\ Plain(a \o b, t)
<1>1. /\ a \o b \in Seq(Event) /\ DOMAIN (a \o b) = 1..(Len(a) + Len(b))
      /\ Len(a) \in Nat /\ Len(b) \in Nat
      /\ \A i \in 1..Len(a) + Len(b) :
           (a \o b)[i] = IF i <= Len(a) THEN a[i] ELSE b[i - Len(a)]
  BY ConcatProperties, LenProperties
<1>2. ASSUME NEW i \in 1..(Len(a) + Len(b)) PROVE ~Closes((a \o b)[i]) /\ (a \o b)[i].turn = t
  <2>1. CASE i <= Len(a)
    <3>1. i \in DOMAIN a /\ (a \o b)[i] = a[i]
      BY <1>1, <2>1
    <3> QED
      BY <3>1 DEF Plain
  <2>2. CASE ~(i <= Len(a))
    <3>1. i - Len(a) \in DOMAIN b /\ (a \o b)[i] = b[i - Len(a)]
      BY <1>1, <2>2
    <3> QED
      BY <3>1 DEF Plain
  <2> QED
    BY <2>1, <2>2
<1> QED
  BY <1>1, <1>2 DEF Plain

LEMMA BootLogs ==
  ASSUME LoopInv, Began, Boot
  PROVE  Quiet \/ Goes
<1>1. PICK file \in RuleFiles \cup {<<>>}, model \in BOOLEAN :
        IF Parses(file) /\ model
        THEN /\ append(IF file = <<>> THEN <<SessionStarted>>
                       ELSE <<SessionStarted, OfinScope>>)
             /\ pc' = "plan"
        ELSE /\ pc' = "exited"
             /\ UNCHANGED <<log, seq, logErr>>
  BY DEF Boot
<1>2. ~Over
  BY DEF Boot, Over
<1>3. CASE ~(Parses(file) /\ model)
  BY <1>1, <1>2, <1>3 DEF Quiet
<1>4. CASE Parses(file) /\ model
  <2>1. /\ "SessionStarted" \in EventKind /\ "OfinScope" \in EventKind /\ 0 \in 0..MaxTurns
        /\ "start" \in What \ {"DONE", "FAILED"} /\ "rules" \in What \ {"DONE", "FAILED"}
    BY ConstantsTyped DEF EventKind, What
  <2>2. /\ SessionStarted \in Event /\ ~Closes(SessionStarted)
        /\ OfinScope \in Event /\ ~Closes(OfinScope)
        /\ SessionStarted.turn = 0 /\ OfinScope.turn = 0
    BY <2>1, Open DEF SessionStarted, OfinScope
  <2>3. /\ <<SessionStarted>> \in Seq(Event) /\ Plain(<<SessionStarted>>, 0)
        /\ <<SessionStarted, OfinScope>> \in Seq(Event)
        /\ Plain(<<SessionStarted, OfinScope>>, 0)
    BY <2>2 DEF Plain
  <2>4. Now' = 0 /\ pc' = "plan"
    BY <1>1, <1>4 DEF Now, Began, Boot
  <2> QED
    BY <1>1, <1>2, <1>4, <2>3, <2>4 DEF Goes, Over
<1> QED
  BY <1>3, <1>4

LEMMA PlanningLogs ==
  ASSUME LoopInv, Planning
  PROVE  Goes
<1>1. turn \in 0..MaxTurns /\ pc = "plan" /\ pc' = "complete"
  BY ConstantsTyped DEF LoopInv, TypeOK, Planning, InLimit
<1>2. "TurnState" \in EventKind /\ "PLANNING" \in What \ {"DONE", "FAILED"}
  BY DEF EventKind, What
<1>3. <<TurnState("PLANNING")>> \in Seq(Event) /\ Plain(<<TurnState("PLANNING")>>, turn)
  BY <1>1, <1>2, Open, OneOpens DEF TurnState
<1>4. Now' = turn
  BY <1>1, ConstantsTyped DEF Planning, Now, LastTurn
<1> QED
  BY <1>1, <1>3, <1>4 DEF Planning, Goes, Over

LEMMA TurnLimitLogs ==
  ASSUME LoopInv, TurnLimit
  PROVE  Ends
<1>1. turn - 1 \in 0..MaxTurns /\ pc = "plan" /\ pc' = "finished" /\ UNCHANGED out
  BY ConstantsTyped DEF LoopInv, TypeOK, TurnLimit
<1>2. out'.stop = "turn_limit"
  BY <1>1 DEF LoopInv, Working
<1>3. <<[TurnState(StopState("turn_limit")) EXCEPT !.turn = turn - 1]>>
        = Append(<<>>, ClosingState(turn - 1, out'.stop))
  BY <1>2 DEF TurnState, StopState, ClosingState, Ev
<1>4. turn - 1 = Now'
  BY <1>1, ConstantsTyped DEF TurnLimit, InLimit, LoopInv, TypeOK, Now, LastTurn
<1> QED
  BY <1>1, <1>3, <1>4, NothingCloses DEF TurnLimit, Ends, Over

LEMMA CompleteLogs ==
  ASSUME LoopInv, Complete
  PROVE  Goes \/ Ends
<1>1. pc = "complete" /\ turn \in 0..MaxTurns /\ ~Over /\ UNCHANGED turn
  BY ConstantsTyped DEF LoopInv, TypeOK, Complete, Over
<1>2. CASE Refused(stop')
  BY <1>1, <1>2, NothingCloses, FinishEnds DEF Refused
<1>3. ASSUME NEW batch \in Batch, NEW text \in BOOLEAN, Answered(batch, text)
      PROVE  Goes \/ Ends
  <2> DEFINE said == IF text THEN <<AgentMessage>> ELSE <<>>
             proposal == <<ToolProposed(Len(batch)), TurnState("EXECUTING")>>
  <2>1. /\ "AgentMessage" \in EventKind /\ "ToolProposed" \in EventKind
        /\ "TurnState" \in EventKind /\ "text" \in What \ {"DONE", "FAILED"}
        /\ "calls" \in What \ {"DONE", "FAILED"} /\ "EXECUTING" \in What \ {"DONE", "FAILED"}
        /\ Len(batch) \in Nat
    BY BatchTyped, ConstantsTyped DEF EventKind, What
  <2>2. /\ AgentMessage \in Event /\ ~Closes(AgentMessage)
        /\ ToolProposed(Len(batch)) \in Event /\ ~Closes(ToolProposed(Len(batch)))
        /\ TurnState("EXECUTING") \in Event /\ ~Closes(TurnState("EXECUTING"))
        /\ AgentMessage.turn = turn /\ ToolProposed(Len(batch)).turn = turn
        /\ TurnState("EXECUTING").turn = turn
    BY <1>1, <2>1, Open DEF AgentMessage, ToolProposed, TurnState
  <2>3. said \in Seq(Event) /\ Plain(said, turn)
    BY <2>2, OneOpens, NothingCloses
  <2>4. proposal \in Seq(Event) /\ Plain(proposal, turn)
    BY <2>2 DEF Plain
  <2>5. CASE batch = <<>>
    <3>1. Finish("done", said)
      BY <1>3, <2>5 DEF Answered
    <3> HIDE DEF said
    <3> QED
      BY <1>1, <2>3, <3>1, FinishEnds
  <2>6. CASE batch # <<>>
    <3>1. append(said \o proposal) /\ pc' = "gate"
      BY <1>3, <2>6 DEF Answered
    <3> HIDE DEF said, proposal
    <3> DEFINE evs == said \o proposal
    <3>2. evs \in Seq(Event) /\ Plain(evs, turn) /\ append(evs)
      BY <2>3, <2>4, <3>1, BothOpen
    <3> HIDE DEF evs
    <3>3. Now' = turn
      BY <1>1, <3>1, ConstantsTyped DEF Now, LastTurn
    <3> QED
      BY <1>1, <3>1, <3>2, <3>3 DEF Goes, Over
  <2> QED
    BY <2>5, <2>6
<1> QED
  BY <1>2, <1>3 DEF Complete

LEMMA VerdictOpens ==
  ASSUME NEW d \in Decision, turn \in 0..MaxTurns
  PROVE  VerdictEvents(d) \in Seq(Event) /\ Plain(VerdictEvents(d), turn)
<1>1. /\ "OfinVerdict" \in EventKind /\ "TurnState" \in EventKind
      /\ d.verdict \in What \ {"DONE", "FAILED"} /\ d.rule \in Nat /\ 0 \in Nat
      /\ "AWAITING_APPROVAL" \in What \ {"DONE", "FAILED"}
  BY DEF EventKind, What, Decision, Verdicts
<1>2. /\ OfinVerdict(d) \in Event /\ ~Closes(OfinVerdict(d))
      /\ TurnState("AWAITING_APPROVAL") \in Event /\ ~Closes(TurnState("AWAITING_APPROVAL"))
      /\ OfinVerdict(d).turn = turn /\ TurnState("AWAITING_APPROVAL").turn = turn
  BY <1>1, Open DEF OfinVerdict, TurnState
<1> QED
  BY <1>2 DEF VerdictEvents, Plain

LEMMA OutputOpens ==
  ASSUME NEW o \in Outcome, turn \in 0..MaxTurns
  PROVE  OutputEvents(o) \in Seq(Event) /\ Plain(OutputEvents(o), turn)
<1> DEFINE s == Status(o.result.isError)
<1>1. /\ "ToolOutput" \in EventKind /\ "ToolCompleted" \in EventKind /\ 0 \in Nat
      /\ s \in What \ {"DONE", "FAILED"}
  BY DEF EventKind, What, Status
<1>2. /\ ToolOutput(s) \in Event /\ ~Closes(ToolOutput(s))
      /\ ToolCompleted(s) \in Event /\ ~Closes(ToolCompleted(s))
      /\ ToolOutput(s).turn = turn /\ ToolCompleted(s).turn = turn
  <2> HIDE DEF s
  <2> QED
    BY <1>1, Open DEF ToolOutput, ToolCompleted
<1> QED
  BY <1>2, EmptySeq DEF OutputEvents, Plain

LEMMA DecidedLogs ==
  ASSUME LoopInv, Suspend \/ Observe
  PROVE  Goes \/ Ends
<1>1. /\ pc = "observe" /\ turn \in 0..MaxTurns /\ ~Over /\ UNCHANGED turn
      /\ outcome \in Outcome /\ outcome.decision \in Decision
  BY DEF LoopInv, TypeOK, Suspend, Observe, Over, Outcome
<1>2. CASE Suspend
  BY <1>1, <1>2, VerdictOpens, FinishEnds DEF Suspend
<1>3. CASE Observe
  <2> DEFINE evs == VerdictEvents(outcome.decision) \o OutputEvents(outcome)
  <2>1. evs \in Seq(Event) /\ Plain(evs, turn)
    BY <1>1, VerdictOpens, OutputOpens, BothOpen
  <2>2. append(evs) /\ pc' = "gate"
    BY <1>3 DEF Observe
  <2> HIDE DEF evs
  <2>3. Now' = turn
    BY <1>1, <2>2, ConstantsTyped DEF Now, LastTurn
  <2> QED
    BY <1>1, <2>1, <2>2, <2>3 DEF Goes, Over
<1> QED
  BY <1>2, <1>3

LEMMA StepLogs ==
  ASSUME LoopInv, Began, [Next]_vars
  PROVE  Quiet \/ Goes \/ Ends
<1>1. CASE CompleteFails
  <2>1. ~Over /\ turn \in 0..MaxTurns /\ UNCHANGED turn
    BY <1>1 DEF CompleteFails, Over, LoopInv, TypeOK
  <2> QED
    BY <1>1, <2>1, NothingCloses, FinishEnds DEF CompleteFails
<1>2. CASE Execute \/ EndTurn \/ Exit \/ Cancel \/ Kill \/ UNCHANGED vars
  BY <1>2 DEF Execute, EndTurn, Exit, Cancel, Kill, vars, logVars, Quiet, Over
<1>3. CASE Boot \/ Planning \/ TurnLimit \/ Complete \/ Suspend \/ Observe
  BY <1>3, BootLogs, PlanningLogs, TurnLimitLogs, CompleteLogs, DecidedLogs
<1> QED
  BY <1>1, <1>2, <1>3 DEF Next, Step

-----------------------------------------------------------------------------
(* The theorems *)

LEMMA BeganHolds == Spec => []Began
<1>1. Init => Began
  BY DEF Init, Began
<1>2. Began /\ [Next]_vars => Began'
  BY DEF Began, Next, Step, vars, logVars, Boot, Planning, TurnLimit, Complete,
         CompleteFails, Refused, Answered, Finish, Execute, Suspend, Observe, EndTurn,
         Exit, Cancel, Kill
<1> QED
  BY <1>1, <1>2, PTL DEF Spec

\* The inductive invariant of the log holds, whichever write fails.
THEOREM LogInvariant == Spec => []LogInv
<1>1. Init => LogInv
  BY DEF Init, LogInv, LogGapless, ClosedOnce
<1>2. LoopInv /\ Began /\ LogInv /\ [Next]_vars => LogInv'
  BY StepLogs, QuietInv, GoesInv, EndsInv
<1> QED
  BY <1>1, <1>2, BeganHolds, InvariantHolds, PTL DEF Spec

\* The lines of the log are numbered 1, 2, 3, ..., whichever write fails
\* (eventlog.go:33-40, event.go:23-28).
THEOREM LogHasNoHole == Spec => []LogGapless
<1>1. LogInv => LogGapless
  BY DEF LogInv
<1> QED
  BY <1>1, LogInvariant, PTL

\* Nothing follows the state a run ends with, and it is the state of the run's
\* StopKind (eventlog.go:130-143).
THEOREM LogClosesOnce == Spec => []ClosedOnce
<1>1. LogInv => ClosedOnce
  BY DEF LogInv
<1> QED
  BY <1>1, LogInvariant, PTL

-----------------------------------------------------------------------------
(* The decisions the loop is done with *)

\* The decision being observed is the last of the trail, with all that Execute
\* made of it.
Tied ==
  pc = "observe" =>
    /\ trail # <<>>
    /\ LET t == trail[Len(trail)]
       IN  /\ t.turn = turn
           /\ t.verdict = outcome.decision.verdict
           /\ t.rule = outcome.decision.rule
           /\ t.ran = outcome.ran
           /\ t.isError = outcome.result.isError
           /\ t.ran => t.verdict = "allow"

LEMMA FrontOfAppend ==
  ASSUME NEW S, NEW q \in Seq(S), NEW x \in S
  PROVE  Front(Append(q, x)) = q
BY DEF Front

LEMMA FrontAndLast ==
  ASSUME NEW S, NEW q \in Seq(S), q # <<>>
  PROVE  Front(q) \in Seq(S) /\ q[Len(q)] \in S /\ q = Append(Front(q), q[Len(q)])
<1>1. PICK r \in Seq(S), x \in S : q = Append(r, x)
  BY SequenceEmptyOrAppend
<1>2. Front(q) = r /\ q[Len(q)] = x
  BY <1>1, FrontOfAppend
<1> QED
  BY <1>1, <1>2

LEMMA TiedInit == Init => Tied
BY DEF Init, Tied

LEMMA TiedNext ==
  ASSUME LoopInv, Tied, [Next]_vars
  PROVE  Tied'
<1>1. CASE Execute
  <2>1. /\ pc = "gate" /\ pc' = "observe" /\ UNCHANGED turn
        /\ trail \in Seq(Decided) /\ calls[k] \in Call
    <3>1. calls \in Seq(Call) /\ k \in DOMAIN calls
      BY <1>1, BatchTyped, ConstantsTyped DEF LoopInv, TypeOK, Execute
    <3> QED
      BY <1>1, <3>1 DEF Execute, LoopInv, TypeOK
  <2> DEFINE t == [call |-> calls[k], turn |-> turn,
                   verdict |-> outcome'.decision.verdict,
                   rule |-> outcome'.decision.rule,
                   ran |-> outcome'.ran, isError |-> outcome'.result.isError]
  <2>2. trail' = Append(trail, t) /\ outcome' \in Outcomes(calls[k], <<turn, k>>)
    BY <1>1 DEF Execute
  <2>3. outcome'.ran => outcome'.decision.verdict = "allow"
    <3> DEFINE d == Evaluate(gate.rules, gate.explain, calls[k])
               run == Runs(d, calls[k])
    <3>1. \E r : outcome' = [decision |-> d, result |-> r, ran |-> run]
      BY <2>2 DEF Outcomes
    <3>2. run => d.verdict = "allow"
      BY DEF Runs, Allowed
    <3> HIDE DEF d, run
    <3> QED
      BY <3>1, <3>2
  <2>4. /\ t.turn = turn /\ t.verdict = outcome'.decision.verdict
        /\ t.rule = outcome'.decision.rule /\ t.ran = outcome'.ran
        /\ t.isError = outcome'.result.isError
    OBVIOUS
  <2> HIDE DEF t
  <2>5. trail' # <<>> /\ trail'[Len(trail')] = t
    BY <2>1, <2>2
  <2> QED
    BY <2>1, <2>3, <2>4, <2>5 DEF Tied
<1>2. CASE Boot \/ Planning \/ TurnLimit \/ CompleteFails \/ Complete \/ Suspend
           \/ Observe \/ EndTurn \/ Exit
  <2>1. pc' # "observe"
    BY <1>2 DEF Boot, Planning, TurnLimit, CompleteFails, Complete, Suspend, Observe,
                EndTurn, Exit, Finish, Refused, Answered
  <2> QED
    BY <2>1 DEF Tied
<1>3. CASE Cancel \/ Kill \/ UNCHANGED vars
  BY <1>3 DEF Cancel, Kill, vars, Tied, history
<1> QED
  BY <1>1, <1>2, <1>3 DEF Next, Step

LEMMA TiedHolds == Spec => []Tied
<1>1. LoopInv /\ Tied /\ [Next]_vars => Tied'
  BY TiedNext
<1> QED
  BY <1>1, TiedInit, InvariantHolds, PTL DEF Spec

LEMMA SettledTyped ==
  ASSUME LoopInv, Tied
  PROVE  /\ trail \in Seq(Decided) /\ Settled \in Seq(Decided)
         /\ pc = "observe" => /\ trail[Len(trail)] \in Decided
                              /\ trail = Append(Settled, trail[Len(trail)])
<1>1. trail \in Seq(Decided)
  BY DEF LoopInv, TypeOK
<1> QED
  BY <1>1, FrontAndLast DEF Settled, Tied

\* A decision is settled when it was observed or when it suspends the run.
LEMMA Settles ==
  ASSUME LoopInv, Tied, Observe \/ Suspend
  PROVE  /\ pc = "observe"
         /\ Settled' = trail
         /\ trail[Len(trail)] \in Decided
         /\ Settled' = Append(Settled, trail[Len(trail)])
<1>1. pc = "observe" /\ pc' # "observe" /\ UNCHANGED trail
  BY DEF Observe, Suspend, Finish, history
<1> QED
  BY <1>1, SettledTyped DEF Settled

LEMMA NothingSettles ==
  ASSUME LoopInv, Tied, [Next]_vars, ~Observe, ~Suspend
  PROVE  Settled' = Settled
<1>1. CASE Execute
  <2>1. /\ pc = "gate" /\ pc' = "observe" /\ trail \in Seq(Decided) /\ trail' \in Seq(Decided)
        /\ \E t : trail' = Append(trail, t)
    BY <1>1, LoopInvNext DEF Execute, LoopInv, TypeOK
  <2>2. trail' # <<>> /\ trail'[Len(trail')] \in Decided
    BY <2>1
  <2>3. PICK t : trail' = Append(trail, t)
    BY <2>1
  <2>4. t = trail'[Len(trail')]
    BY <2>1, <2>3
  <2> QED
    BY <2>1, <2>2, <2>3, <2>4, FrontOfAppend DEF Settled
<1>2. CASE Boot \/ Planning \/ TurnLimit \/ CompleteFails \/ Complete \/ EndTurn \/ Exit
  <2>1. pc # "observe" /\ pc' # "observe" /\ UNCHANGED trail
    BY <1>2 DEF Boot, Planning, TurnLimit, CompleteFails, Complete, EndTurn, Exit,
                Finish, Refused, Answered, history
  <2> QED
    BY <2>1 DEF Settled
<1>3. CASE Cancel \/ Kill \/ UNCHANGED vars
  BY <1>3 DEF Cancel, Kill, vars, Settled, history
<1> QED
  BY <1>1, <1>2, <1>3 DEF Next, Step

-----------------------------------------------------------------------------
(* What is counted *)

Denials == INSTANCE Folding WITH Op <- Denied

DenialsOf(decisions) == FoldLeft(Denied, <<>>, decisions)

LEMMA DenialsFolded ==
  ASSUME NEW q
  PROVE  DenialsOf(q) = Denials!Fold(<<>>, q)
BY DEF DenialsOf, Denials!Fold, Denials!FoldLeft, FoldLeft, Denials!MapThenFoldSet,
       MapThenFoldSet, Denials!Max, Max

LEMMA DenialsGrow ==
  /\ DenialsOf(<<>>) = <<>>
  /\ \A q \in Seq(Decided) : DenialsOf(q) \in Seq(Nat)
  /\ \A q \in Seq(Decided), t \in Decided :
       DenialsOf(Append(q, t)) = IF t.verdict = "deny" THEN Append(DenialsOf(q), t.rule)
                                 ELSE DenialsOf(q)
<1>1. DenialsOf(<<>>) = <<>>
  BY DenialsFolded, Denials!FoldEmpty
<1>2. ASSUME NEW q \in Seq(Decided), NEW t \in Decided
      PROVE  DenialsOf(Append(q, t)) = Denied(DenialsOf(q), t)
  BY DenialsFolded, Denials!FoldAppend
<1>3. \A s \in Seq(Nat), t \in Decided : Denied(s, t) \in Seq(Nat)
  <2> SUFFICES ASSUME NEW s \in Seq(Nat), NEW t \in Decided PROVE Denied(s, t) \in Seq(Nat)
    OBVIOUS
  <2>1. t.rule \in Nat
    BY DEF Decided
  <2> QED
    BY <2>1 DEF Denied
<1>4. ASSUME NEW q \in Seq(Decided) PROVE DenialsOf(q) \in Seq(Nat)
  <2>1. <<>> \in Seq(Nat)
    OBVIOUS
  <2>2. Denials!Fold(<<>>, q) \in Seq(Nat)
    BY <1>3, <2>1, Denials!FoldType
  <2> QED
    BY <2>2, DenialsFolded
<1> QED
  BY <1>1, <1>2, <1>4 DEF Denied

LEMMA CountedInit == Init => DenialsCounted
<1> SUFFICES ASSUME Init PROVE DenialsCounted
  OBVIOUS
<1>1. Settled = <<>> /\ out.denials = 0 /\ out.rules = <<>>
  BY DEF Init, Settled
<1>2. DenialsOf(Settled) = <<>>
  BY <1>1, DenialsGrow
<1> QED
  BY <1>1, <1>2 DEF DenialsCounted, DenialsOf

LEMMA CountedNext ==
  ASSUME LoopInv, Tied, DenialsCounted, [Next]_vars
  PROVE  DenialsCounted'
<1> DEFINE t == trail[Len(trail)]
<1>1. /\ out.denials = Len(DenialsOf(Settled)) /\ out.rules = DenialsOf(Settled)
      /\ DenialsOf(Settled) \in Seq(Nat)
      /\ out \in [stop : StopKind, denials : Nat, rules : Seq(Nat)]
  BY SettledTyped, DenialsGrow DEF DenialsCounted, DenialsOf, LoopInv, TypeOK
<1>2. SUFFICES /\ out'.denials = Len(DenialsOf(Settled'))
               /\ out'.rules = DenialsOf(Settled')
  BY DEF DenialsCounted, DenialsOf
<1>3. CASE Observe
  <2>1. /\ t \in Decided /\ Settled \in Seq(Decided)
        /\ Settled' = Append(Settled, t)
        /\ t.verdict = outcome.decision.verdict /\ t.rule = outcome.decision.rule
        /\ pc = "observe"
    BY <1>3, Settles, SettledTyped DEF Tied
  <2> HIDE DEF t
  <2>2. /\ DenialsOf(Settled') = (IF t.verdict = "deny" THEN Append(DenialsOf(Settled), t.rule)
                                  ELSE DenialsOf(Settled))
        /\ t.rule \in Nat
    BY <2>1, DenialsGrow DEF Decided
  <2>3. t.verdict \in {"allow", "deny"}
    BY <1>3, <2>1 DEF Observe, Holds, LoopInv, TypeOK, Outcome, Decision, Verdicts
  <2>4. CASE t.verdict = "allow"
    <3>1. out' = out
      BY <1>3, <2>1, <2>4 DEF Observe, Count, Allowed
    <3> QED
      BY <1>1, <2>2, <2>4, <3>1
  <2>5. CASE t.verdict = "deny"
    <3>1. out' = [out EXCEPT !.denials = @ + 1, !.rules = Append(@, outcome.decision.rule)]
      BY <1>3, <2>1, <2>5 DEF Observe, Count, Allowed
    <3>2. /\ out'.denials = out.denials + 1
          /\ out'.rules = Append(out.rules, t.rule)
      BY <1>1, <2>1, <3>1
    <3> QED
      BY <1>1, <2>2, <2>5, <3>2
  <2> QED
    BY <2>3, <2>4, <2>5
<1>4. CASE Suspend
  <2>1. /\ t \in Decided /\ Settled \in Seq(Decided)
        /\ Settled' = Append(Settled, t) /\ t.verdict = "require_human"
    BY <1>4, Settles, SettledTyped DEF Tied, Suspend, Holds
  <2> HIDE DEF t
  <2>2. DenialsOf(Settled') = DenialsOf(Settled)
    BY <2>1, DenialsGrow
  <2>3. out'.denials = out.denials /\ out'.rules = out.rules
    BY <1>1, <1>4 DEF Suspend, Finish
  <2> QED
    BY <1>1, <2>2, <2>3
<1>5. CASE ~Observe /\ ~Suspend
  <2>1. Settled' = Settled
    BY <1>5, NothingSettles
  <2>2. out'.denials = out.denials /\ out'.rules = out.rules
    BY <1>1, <1>5 DEF Next, Step, vars, Boot, Planning, TurnLimit, CompleteFails, Complete,
                      Refused, Answered, Execute, EndTurn, Exit, Cancel, Kill, Finish
  <2> QED
    BY <1>1, <2>1, <2>2
<1> QED
  BY <1>3, <1>4, <1>5

\* Outcome's count is the number of calls the gate denied, and its rules are
\* theirs in the order of the calls, after every step of every run
\* (loop.go:223-226).
THEOREM EveryDenialIsCounted == Spec => []DenialsCounted
<1>1. LoopInv /\ Tied /\ DenialsCounted /\ [Next]_vars => DenialsCounted'
  BY CountedNext
<1> QED
  BY <1>1, CountedInit, TiedHolds, InvariantHolds, PTL DEF Spec

-----------------------------------------------------------------------------
(* The audit trail *)

LEMMA PrefixOfConcat ==
  ASSUME NEW p \in Seq(Event), NEW q \in Seq(Event)
  PROVE  IsPrefix(p, p \o q)
BY DEF IsPrefix

LEMMA PrefixOfSubSeq ==
  ASSUME NEW evs \in Seq(Event), NEW n \in 0..Len(evs)
  PROVE  /\ SubSeq(evs, 1, n) \in Seq(Event) /\ IsPrefix(SubSeq(evs, 1, n), evs)
         /\ n = Len(evs) => SubSeq(evs, 1, n) = evs
<1> DEFINE p == SubSeq(evs, 1, n)
<1>1. p \in Seq(Event) /\ Len(p) = n /\ \A i \in 1..n : p[i] = evs[i]
  OBVIOUS
<1>2. IsPrefix(p, evs)
  BY <1>1 DEF IsPrefix
<1>3. n = Len(evs) => p = evs
  BY <1>1, SeqEqual
<1> QED
  BY <1>1, <1>2, <1>3

LEMMA PrefixExtends ==
  ASSUME NEW p \in Seq(Event), NEW q \in Seq(Event), IsPrefix(p, q)
  PROVE  \E r \in Seq(Event) : q = p \o r
<1> DEFINE r == SubSeq(q, Len(p) + 1, Len(q))
<1>1. Len(p) <= Len(q) /\ SubSeq(p, 1, Len(p)) = SubSeq(q, 1, Len(p))
  BY DEF IsPrefix
<1>2. r \in Seq(Event) /\ Len(r) = Len(q) - Len(p)
      /\ \A i \in 1..Len(r) : r[i] = q[Len(p) + i]
  BY <1>1
<1>3. \A i \in 1..Len(p) : p[i] = q[i]
  <2>1. ASSUME NEW i \in 1..Len(p) PROVE p[i] = q[i]
    <3>1. SubSeq(p, 1, Len(p))[i] = p[i] /\ SubSeq(q, 1, Len(p))[i] = q[i]
      BY <1>1
    <3> QED
      BY <1>1, <3>1
  <2> QED
    BY <2>1
<1> HIDE DEF r
<1>4. q = p \o r
  <2>1. p \o r \in Seq(Event) /\ Len(p \o r) = Len(q)
    BY <1>1, <1>2, ConcatProperties
  <2>2. ASSUME NEW i \in 1..Len(q) PROVE q[i] = (p \o r)[i]
    <3>1. CASE i <= Len(p)
      BY <1>2, <1>3, <3>1
    <3>2. CASE ~(i <= Len(p))
      <4>1. i - Len(p) \in 1..Len(r) /\ Len(p) + (i - Len(p)) = i
        BY <1>1, <1>2, <3>2
      <4> QED
        BY <1>2, <3>2, <4>1
    <3> QED
      BY <3>1, <3>2
  <2> QED
    BY <2>1, <2>2, SeqEqual
<1> QED
  BY <1>2, <1>4

LEMMA PrefixGrows ==
  ASSUME NEW p \in Seq(Event), NEW q \in Seq(Event), NEW r \in Seq(Event), IsPrefix(p, q)
  PROVE  IsPrefix(p, q \o r)
<1>1. PICK s \in Seq(Event) : q = p \o s
  BY PrefixExtends
<1>2. q \o r = p \o (s \o r) /\ s \o r \in Seq(Event)
  BY <1>1, ConcatAssociative
<1> QED
  BY <1>2, PrefixOfConcat

GateKinds == {"OfinVerdict", "ToolOutput", "ToolCompleted"}

Logging == INSTANCE Folding WITH Op <- OfTheGate

Auditing == INSTANCE Folding WITH Op <- Audited

Logged(evs) == FoldLeft(OfTheGate, <<>>, evs)

Happened(decisions) == FoldLeft(Audited, <<>>, decisions)

LEMMA LoggedFolded ==
  ASSUME NEW q
  PROVE  Logged(q) = Logging!Fold(<<>>, q)
BY DEF Logged, Logging!Fold, Logging!FoldLeft, FoldLeft, Logging!MapThenFoldSet,
       MapThenFoldSet, Logging!Max, Max

LEMMA HappenedFolded ==
  ASSUME NEW q
  PROVE  Happened(q) = Auditing!Fold(<<>>, q)
BY DEF Happened, Auditing!Fold, Auditing!FoldLeft, FoldLeft, Auditing!MapThenFoldSet,
       MapThenFoldSet, Auditing!Max, Max

LEMMA LoggedGrows ==
  /\ Logged(<<>>) = <<>>
  /\ \A q \in Seq(Event) : Logged(q) \in Seq(Event)
  /\ \A q \in Seq(Event), e \in Event :
       Logged(Append(q, e)) = IF e.kind \in GateKinds THEN Append(Logged(q), e) ELSE Logged(q)
<1>1. Logged(<<>>) = <<>>
  BY LoggedFolded, Logging!FoldEmpty
<1>2. ASSUME NEW q \in Seq(Event), NEW e \in Event
      PROVE  Logged(Append(q, e)) = OfTheGate(Logged(q), e)
  BY LoggedFolded, Logging!FoldAppend
<1>3. \A s \in Seq(Event), e \in Event : OfTheGate(s, e) \in Seq(Event)
  BY DEF OfTheGate
<1>4. ASSUME NEW q \in Seq(Event) PROVE Logged(q) \in Seq(Event)
  <2>1. <<>> \in Seq(Event)
    OBVIOUS
  <2>2. Logging!Fold(<<>>, q) \in Seq(Event)
    BY <1>3, <2>1, Logging!FoldType
  <2> QED
    BY <2>2, LoggedFolded
<1> QED
  BY <1>1, <1>2, <1>4 DEF OfTheGate, GateKinds

LEMMA AppendConcat ==
  \A p, q \in Seq(Event), e \in Event : Append(p \o q, e) = p \o Append(q, e)
OBVIOUS

LEMMA LoggedConcat ==
  ASSUME NEW p \in Seq(Event), NEW q \in Seq(Event)
  PROVE  Logged(p \o q) = Logged(p) \o Logged(q)
<1> DEFINE U == {r \in Seq(Event) : Logged(p \o r) = Logged(p) \o Logged(r)}
<1>1. <<>> \in U
  BY LoggedGrows, ConcatEmptySeq
<1>2. ASSUME NEW r \in Seq(Event), NEW e \in Event, r \in U PROVE Append(r, e) \in U
  <2>1. p \o Append(r, e) = Append(p \o r, e) /\ p \o r \in Seq(Event)
    BY AppendConcat
  <2>2. /\ Logged(Append(p \o r, e)) = (IF e.kind \in GateKinds THEN Append(Logged(p \o r), e)
                                       ELSE Logged(p \o r))
        /\ Logged(Append(r, e)) = (IF e.kind \in GateKinds THEN Append(Logged(r), e)
                                  ELSE Logged(r))
        /\ Logged(p) \in Seq(Event) /\ Logged(r) \in Seq(Event)
    BY <2>1, LoggedGrows
  <2>3. Append(Logged(p) \o Logged(r), e) = Logged(p) \o Append(Logged(r), e)
    BY <2>2, AppendConcat
  <2>4. Logged(p \o r) = Logged(p) \o Logged(r)
    BY <1>2
  <2>5. Logged(p \o Append(r, e)) = Logged(p) \o Logged(Append(r, e))
    <3> HIDE DEF U
    <3>1. CASE e.kind \in GateKinds
      BY <2>1, <2>2, <2>3, <2>4, <3>1, Zenon
    <3>2. CASE e.kind \notin GateKinds
      BY <2>1, <2>2, <2>4, <3>2, Zenon
    <3> QED
      BY <3>1, <3>2
  <2>6. Append(r, e) \in Seq(Event)
    OBVIOUS
  <2> QED
    BY <2>5, <2>6
<1> HIDE DEF U
<1>3. q \in U
  BY <1>1, <1>2, Logging!SeqSetInduction
<1> QED
  BY <1>3 DEF U

Silent(evs) == \A i \in DOMAIN evs : evs[i].kind \notin GateKinds

AllGate(evs) == \A i \in DOMAIN evs : evs[i].kind \in GateKinds

LEMMA LoggedExtremes ==
  ASSUME NEW evs \in Seq(Event)
  PROVE  /\ Silent(evs) => Logged(evs) = <<>>
         /\ AllGate(evs) => Logged(evs) = evs
<1> DEFINE U == {r \in Seq(Event) : /\ Silent(r) => Logged(r) = <<>>
                                    /\ AllGate(r) => Logged(r) = r}
<1>1. <<>> \in U
  BY LoggedGrows
<1>2. ASSUME NEW r \in Seq(Event), NEW e \in Event, r \in U PROVE Append(r, e) \in U
  <2>1. /\ Append(r, e) \in Seq(Event)
        /\ Len(r) + 1 \in DOMAIN Append(r, e) /\ Append(r, e)[Len(r) + 1] = e
        /\ \A i \in DOMAIN r : i \in DOMAIN Append(r, e) /\ Append(r, e)[i] = r[i]
    OBVIOUS
  <2>2. Silent(Append(r, e)) => Silent(r) /\ e.kind \notin GateKinds
    BY <2>1 DEF Silent
  <2>3. AllGate(Append(r, e)) => AllGate(r) /\ e.kind \in GateKinds
    BY <2>1 DEF AllGate
  <2> QED
    BY <1>2, <2>1, <2>2, <2>3, LoggedGrows
<1> HIDE DEF U
<1>3. evs \in U
  BY <1>1, <1>2, Logging!SeqSetInduction
<1> QED
  BY <1>3 DEF U

LEMMA AuditEventsTyped ==
  ASSUME NEW t \in Decided
  PROVE  /\ AuditEvents(t) \in Seq(Event)
         /\ AllGate(AuditEvents(t))
<1>1. /\ t.turn \in 0..MaxTurns /\ t.rule \in Nat /\ t.verdict \in What
      /\ Status(t.isError) \in What /\ 0 \in Nat
      /\ "OfinVerdict" \in EventKind /\ "ToolOutput" \in EventKind /\ "ToolCompleted" \in EventKind
  BY ConstantsTyped DEF Decided, What, Verdicts, Status, EventKind
<1> DEFINE a == Ev("OfinVerdict", t.turn, t.verdict, t.rule)
           b == Ev("ToolOutput", t.turn, Status(t.isError), 0)
           c == Ev("ToolCompleted", t.turn, Status(t.isError), 0)
<1>2. /\ a \in Event /\ b \in Event /\ c \in Event
      /\ a.kind \in GateKinds /\ b.kind \in GateKinds /\ c.kind \in GateKinds
  BY <1>1, EvTyped DEF Ev, GateKinds
<1>3. AuditEvents(t) = <<a>> \o (IF t.ran THEN <<b, c>> ELSE <<>>)
  BY DEF AuditEvents
<1> HIDE DEF a, b, c
<1>4. AuditEvents(t) = IF t.ran THEN <<a, b, c>> ELSE <<a>>
  BY <1>2, <1>3
<1> QED
  BY <1>2, <1>4 DEF AllGate

LEMMA HappenedGrows ==
  /\ Happened(<<>>) = <<>>
  /\ \A q \in Seq(Decided) : Happened(q) \in Seq(Event)
  /\ \A q \in Seq(Decided), t \in Decided :
       Happened(Append(q, t)) = Happened(q) \o AuditEvents(t)
<1>1. Happened(<<>>) = <<>>
  BY HappenedFolded, Auditing!FoldEmpty
<1>2. ASSUME NEW q \in Seq(Decided), NEW t \in Decided
      PROVE  Happened(Append(q, t)) = Audited(Happened(q), t)
  BY HappenedFolded, Auditing!FoldAppend
<1>3. \A s \in Seq(Event), t \in Decided : Audited(s, t) \in Seq(Event)
  BY AuditEventsTyped DEF Audited
<1>4. ASSUME NEW q \in Seq(Decided) PROVE Happened(q) \in Seq(Event)
  <2>1. <<>> \in Seq(Event)
    OBVIOUS
  <2>2. Auditing!Fold(<<>>, q) \in Seq(Event)
    BY <1>3, <2>1, Auditing!FoldType
  <2> QED
    BY <2>2, HappenedFolded
<1> QED
  BY <1>1, <1>2, <1>4 DEF Audited

LEMMA ConcatLaws ==
  ASSUME NEW a \in Seq(Event), NEW b \in Seq(Event)
  PROVE  /\ a \o b \in Seq(Event) /\ Len(a \o b) = Len(a) + Len(b)
         /\ \A i \in 1..(Len(a) + Len(b)) :
              (a \o b)[i] = IF i <= Len(a) THEN a[i] ELSE b[i - Len(a)]
BY ConcatProperties

LEMMA EventsTyped == LoopInv => Events \in Seq(Event) /\ Len(Events) = Len(log)
<1> SUFFICES ASSUME LoopInv PROVE Events \in Seq(Event) /\ Len(Events) = Len(log)
  OBVIOUS
<1>1. log \in Seq([seq : Nat, event : Event]) /\ Len(log) \in Nat
      /\ DOMAIN log = 1..Len(log)
  BY DEF LoopInv, TypeOK
<1>2. ASSUME NEW i \in 1..Len(log) PROVE log[i].event \in Event
  <2>1. log[i] \in [seq : Nat, event : Event]
    BY <1>1, ElementOfSeq
  <2> QED
    BY <2>1
<1>3. Events \in [1..Len(log) -> Event]
  BY <1>1, <1>2 DEF Events
<1> HIDE DEF Events
<1>4. Events \in Seq(Event)
  BY <1>1, <1>3, IsASeq
<1> QED
  BY <1>1, <1>3, <1>4

\* What one call of the observer adds to the events on the host.
LEMMA EventsGrow ==
  ASSUME LoopInv, LoopInv', NEW evs \in Seq(Event), append(evs)
  PROVE  /\ logErr => Events' = Events /\ logErr'
         /\ ~logErr => \E n \in 0..Len(evs) : /\ Events' = Events \o SubSeq(evs, 1, n)
                                              /\ logErr' = (n < Len(evs))
<1>1. LogTyped
  BY DEF LoopInv, TypeOK, LogTyped
<1>2. CASE logErr
  BY <1>2 DEF append, Broken, logVars, Events
<1>3. CASE ~logErr
  <2>1. PICK n \in 0..Len(evs) :
          /\ Len(log') = Len(log) + n
          /\ \A i \in 1..Len(log) : log'[i] = log[i]
          /\ \A i \in 1..n : log'[Len(log) + i] = [seq |-> seq + i, event |-> evs[i]]
          /\ logErr' = (n < Len(evs))
    BY <1>1, <1>3, AppendLines
  <2>2. /\ Events \in Seq(Event) /\ Len(Events) = Len(log)
        /\ Events' \in Seq(Event) /\ Len(Events') = Len(log')
    <3>1. LoopInv' => (Events \in Seq(Event) /\ Len(Events) = Len(log))'
      BY EventsTyped, PTL
    <3> QED
      BY <3>1, EventsTyped
  <2>3. Len(evs) \in Nat /\ n \in Nat /\ n <= Len(evs) /\ Len(log) \in Nat
    BY <2>2
  <2>4. /\ \A i \in 1..Len(log) : Events[i] = log[i].event
        /\ \A i \in 1..Len(log') : Events'[i] = log'[i].event
    BY <2>2 DEF Events
  <2>5. /\ \A i \in 1..Len(log) : Events'[i] = Events[i]
        /\ \A i \in 1..n : Events'[Len(log) + i] = evs[i]
    <3>1. ASSUME NEW i \in 1..Len(log) PROVE Events'[i] = Events[i]
      <4>1. i \in 1..Len(log')
        BY <2>1, <2>3
      <4> QED
        BY <2>1, <2>4, <4>1
    <3>2. ASSUME NEW i \in 1..n PROVE Events'[Len(log) + i] = evs[i]
      <4>1. Len(log) + i \in 1..Len(log')
        BY <2>1, <2>3
      <4>2. Events'[Len(log) + i] = log'[Len(log) + i].event
        BY <2>4, <4>1
      <4>3. log'[Len(log) + i] = [seq |-> seq + i, event |-> evs[i]]
        BY <2>1
      <4> QED
        BY <4>2, <4>3
    <3> QED
      BY <3>1, <3>2
  <2> DEFINE new == SubSeq(evs, 1, n)
  <2>6. new \in Seq(Event) /\ Len(new) = n /\ \A i \in 1..n : new[i] = evs[i]
    BY <2>3
  <2> HIDE DEF new
  <2>7. Events' = Events \o new
    <3>0. /\ Len(Events \o new) = Len(Events) + Len(new) /\ Events \o new \in Seq(Event)
          /\ \A i \in 1..(Len(Events) + Len(new)) :
               (Events \o new)[i] = IF i <= Len(Events) THEN Events[i]
                                    ELSE new[i - Len(Events)]
      BY <2>2, <2>6, ConcatLaws, Zenon
    <3>1. Len(Events \o new) = Len(log) + n /\ Events \o new \in Seq(Event)
          /\ \A i \in 1..(Len(log) + n) :
               (Events \o new)[i] = IF i <= Len(log) THEN Events[i] ELSE new[i - Len(log)]
      BY <2>2, <2>6, <3>0
    <3>2. ASSUME NEW i \in 1..(Len(log) + n) PROVE Events'[i] = (Events \o new)[i]
      <4>1. CASE i <= Len(log)
        BY <2>3, <2>5, <3>1, <4>1
      <4>2. CASE ~(i <= Len(log))
        <5>1. i - Len(log) \in 1..n /\ Len(log) + (i - Len(log)) = i
          BY <2>3, <4>2
        <5> QED
          BY <2>5, <2>6, <3>1, <4>2, <5>1
      <4> QED
        BY <4>1, <4>2
    <3> QED
      BY <2>1, <2>2, <3>1, <3>2, SeqEqual
  <2> QED
    BY <1>3, <2>1, <2>7 DEF new
<1> QED
  BY <1>2, <1>3

LEMMA EventConcatAssociative ==
  \A a, b, c \in Seq(Event) : (a \o b) \o c = a \o (b \o c)
BY ConcatAssociative

\* Cut short by a failed write at most.
AuditInv == IF logErr THEN IsPrefix(Logged(Events), Happened(Settled))
            ELSE Logged(Events) = Happened(Settled)

\* The log keeps up with what is settled when the events of a step are those
\* of what it settles.
LEMMA AuditStep ==
  ASSUME LoopInv, LoopInv', AuditInv, Settled \in Seq(Decided),
         NEW evs \in Seq(Event), append(evs),
         Happened(Settled') = Happened(Settled) \o Logged(evs)
  PROVE  AuditInv'
<1>1. /\ Events \in Seq(Event) /\ Logged(Events) \in Seq(Event)
      /\ Happened(Settled) \in Seq(Event) /\ Logged(evs) \in Seq(Event)
  BY EventsTyped, LoggedGrows, HappenedGrows
<1>2. CASE logErr
  <2>1. Events' = Events /\ logErr'
    BY <1>2, EventsGrow
  <2>2. IsPrefix(Logged(Events), Happened(Settled) \o Logged(evs))
    BY <1>1, <1>2, PrefixGrows DEF AuditInv
  <2> QED
    BY <2>1, <2>2 DEF AuditInv
<1>3. CASE ~logErr
  <2>1. PICK n \in 0..Len(evs) : /\ Events' = Events \o SubSeq(evs, 1, n)
                                 /\ logErr' = (n < Len(evs))
    BY <1>3, EventsGrow
  <2> DEFINE new == SubSeq(evs, 1, n)
  <2>2. new \in Seq(Event) /\ (n = Len(evs) => new = evs) /\ IsPrefix(new, evs)
    BY PrefixOfSubSeq
  <2>3. Logged(Events') = Happened(Settled) \o Logged(new) /\ Logged(new) \in Seq(Event)
    <3>1. Events' = Events \o new /\ Logged(Events) = Happened(Settled)
      BY <1>3, <2>1 DEF AuditInv
    <3> HIDE DEF new
    <3>2. Logged(Events \o new) = Logged(Events) \o Logged(new)
      BY <1>1, <2>2, LoggedConcat
    <3> QED
      BY <2>2, <3>1, <3>2, LoggedGrows
  <2> HIDE DEF new
  <2>4. CASE logErr'
    <3>1. PICK rest \in Seq(Event) : evs = new \o rest
      BY <2>2, PrefixExtends
    <3>2. Logged(evs) = Logged(new) \o Logged(rest) /\ Logged(rest) \in Seq(Event)
      BY <2>2, <3>1, LoggedConcat, LoggedGrows
    <3>3. Happened(Settled') = Logged(Events') \o Logged(rest)
      <4>1. Happened(Settled') = Happened(Settled) \o (Logged(new) \o Logged(rest))
        BY <3>2
      <4>2. (Happened(Settled) \o Logged(new)) \o Logged(rest)
              = Happened(Settled) \o (Logged(new) \o Logged(rest))
        <5>1. /\ Happened(Settled) \in Seq(Event) /\ Logged(new) \in Seq(Event)
              /\ Logged(rest) \in Seq(Event)
          BY <1>1, <2>3, <3>2
        <5> QED
          BY <5>1, EventConcatAssociative, Zenon
      <4> QED
        BY <2>3, <4>1, <4>2, Zenon
    <3>4. Logged(Events') \in Seq(Event)
      BY <1>1, <2>3, ConcatLaws
    <3> QED
      BY <2>4, <3>2, <3>3, <3>4, PrefixOfConcat DEF AuditInv
  <2>5. CASE ~logErr'
    <3>1. ~(n < Len(evs))
      BY <2>1, <2>5
    <3>2. new = evs
      BY <2>2, <3>1
    <3> QED
      BY <2>3, <2>5, <3>2 DEF AuditInv
  <2> QED
    BY <2>4, <2>5
<1> QED
  BY <1>2, <1>3

\* The events of every step but Observe and Suspend are not the gate's.
LEMMA Mute ==
  ASSUME NEW kind \in EventKind \ GateKinds, NEW t \in 0..MaxTurns, NEW what \in What,
         NEW n \in Nat
  PROVE  Ev(kind, t, what, n) \in Event /\ Ev(kind, t, what, n).kind \notin GateKinds
<1>1. Ev(kind, t, what, n) \in Event
  BY EvTyped
<1> QED
  BY <1>1 DEF Ev

LEMMA OneMute ==
  ASSUME NEW e \in Event, e.kind \notin GateKinds
  PROVE  <<e>> \in Seq(Event) /\ Logged(<<e>>) = <<>>
<1>1. <<e>> \in Seq(Event) /\ Silent(<<e>>)
  BY DEF Silent
<1> QED
  BY <1>1, LoggedExtremes

LEMMA TwoMute ==
  ASSUME NEW d \in Event, d.kind \notin GateKinds, NEW e \in Event, e.kind \notin GateKinds
  PROVE  <<d, e>> \in Seq(Event) /\ Logged(<<d, e>>) = <<>>
<1>1. <<d, e>> \in Seq(Event) /\ Silent(<<d, e>>)
  BY DEF Silent
<1> QED
  BY <1>1, LoggedExtremes

SaysNothing == \/ UNCHANGED <<log, seq, logErr>>
               \/ \E evs \in Seq(Event) : append(evs) /\ Logged(evs) = <<>>

LEMMA FinishMute ==
  ASSUME turn \in 0..MaxTurns, NEW kind \in StopKind, NEW evs \in Seq(Event),
         Finish(kind, evs)
  PROVE  \E all \in Seq(Event) : append(all) /\ Logged(all) = Logged(evs)
<1> DEFINE e == TurnState(StopState(kind))
           all == Append(evs, e)
<1>1. "TurnState" \in EventKind \ GateKinds /\ StopState(kind) \in What /\ 0 \in Nat
  BY DEF EventKind, GateKinds, What, StopState
<1>2. e \in Event /\ e.kind \notin GateKinds
  BY <1>1, Mute DEF TurnState
<1>3. append(all)
  BY DEF Finish
<1> HIDE DEF e
<1>4. all \in Seq(Event) /\ Logged(all) = Logged(evs)
  BY <1>2, LoggedGrows
<1> QED
  BY <1>3, <1>4

LEMMA BootMute ==
  ASSUME LoopInv, Boot
  PROVE  SaysNothing
<1>1. PICK file \in RuleFiles \cup {<<>>} :
        \/ UNCHANGED <<log, seq, logErr>>
        \/ append(IF file = <<>> THEN <<SessionStarted>> ELSE <<SessionStarted, OfinScope>>)
  BY DEF Boot
<1>2. /\ "SessionStarted" \in EventKind \ GateKinds /\ "OfinScope" \in EventKind \ GateKinds
      /\ 0 \in 0..MaxTurns /\ "start" \in What /\ "rules" \in What
  BY ConstantsTyped DEF EventKind, What, GateKinds
<1>3. /\ SessionStarted \in Event /\ SessionStarted.kind \notin GateKinds
      /\ OfinScope \in Event /\ OfinScope.kind \notin GateKinds
  BY <1>2, Mute DEF SessionStarted, OfinScope
<1> QED
  BY <1>1, <1>3, OneMute, TwoMute DEF SaysNothing

LEMMA PlanMute ==
  ASSUME LoopInv, Planning \/ TurnLimit
  PROVE  SaysNothing
<1>1. /\ turn \in Int /\ pc = "plan" /\ "TurnState" \in EventKind \ GateKinds /\ 0 \in Nat
      /\ "PLANNING" \in What /\ StopState("turn_limit") \in What
  BY DEF LoopInv, TypeOK, Planning, TurnLimit, EventKind, GateKinds, What, StopState
<1>2. CASE Planning
  <2>1. turn \in 0..MaxTurns
    BY <1>2, ConstantsTyped DEF LoopInv, TypeOK, Planning, InLimit
  <2>2. TurnState("PLANNING") \in Event /\ TurnState("PLANNING").kind \notin GateKinds
    BY <1>1, <2>1, Mute DEF TurnState
  <2> QED
    BY <1>2, <2>2, OneMute DEF Planning, SaysNothing
<1>3. CASE TurnLimit
  <2> DEFINE e == [TurnState(StopState("turn_limit")) EXCEPT !.turn = turn - 1]
  <2>1. turn - 1 \in 0..MaxTurns
    BY <1>3, ConstantsTyped DEF LoopInv, TypeOK, TurnLimit
  <2>2. e = Ev("TurnState", turn - 1, StopState("turn_limit"), 0)
    BY DEF TurnState, Ev
  <2>3. append(<<e>>)
    BY <1>3 DEF TurnLimit
  <2> HIDE DEF e
  <2>4. e \in Event /\ e.kind \notin GateKinds
    BY <1>1, <2>1, <2>2, Mute
  <2> QED
    BY <2>3, <2>4, OneMute DEF SaysNothing
<1> QED
  BY <1>2, <1>3

LEMMA CompleteMute ==
  ASSUME LoopInv, Complete \/ CompleteFails
  PROVE  SaysNothing
<1>1. pc = "complete" /\ turn \in 0..MaxTurns
  BY ConstantsTyped DEF LoopInv, TypeOK, Complete, CompleteFails
<1>2. <<>> \in Seq(Event) /\ Logged(<<>>) = <<>>
  BY LoggedGrows
<1>3. {"done", "refused", "max_tokens", "error"} \subseteq StopKind
  BY DEF StopKind
<1>4. CASE CompleteFails
  <2>1. Finish("error", <<>>)
    BY <1>4 DEF CompleteFails
  <2> QED
    BY <1>1, <1>2, <1>3, <2>1, FinishMute DEF SaysNothing
<1>5. CASE Refused(stop')
  <2>1. PICK kind \in {"refused", "max_tokens"} : Finish(kind, <<>>)
    BY <1>5 DEF Refused
  <2> QED
    BY <1>1, <1>2, <1>3, <2>1, FinishMute DEF SaysNothing
<1>6. ASSUME NEW batch \in Batch, NEW text \in BOOLEAN, Answered(batch, text)
      PROVE  SaysNothing
  <2> DEFINE said == IF text THEN <<AgentMessage>> ELSE <<>>
             proposal == <<ToolProposed(Len(batch)), TurnState("EXECUTING")>>
  <2>1. /\ "AgentMessage" \in EventKind \ GateKinds /\ "ToolProposed" \in EventKind \ GateKinds
        /\ "TurnState" \in EventKind \ GateKinds
        /\ "text" \in What /\ "calls" \in What /\ "EXECUTING" \in What
        /\ Len(batch) \in Nat /\ 0 \in Nat
    BY BatchTyped, ConstantsTyped DEF EventKind, What, GateKinds
  <2>2. /\ AgentMessage \in Event /\ AgentMessage.kind \notin GateKinds
        /\ ToolProposed(Len(batch)) \in Event /\ ToolProposed(Len(batch)).kind \notin GateKinds
        /\ TurnState("EXECUTING") \in Event /\ TurnState("EXECUTING").kind \notin GateKinds
    BY <1>1, <2>1, Mute DEF AgentMessage, ToolProposed, TurnState
  <2>3. said \in Seq(Event) /\ Logged(said) = <<>>
    BY <1>2, <2>2, OneMute
  <2>4. proposal \in Seq(Event) /\ Logged(proposal) = <<>>
    BY <2>2, TwoMute
  <2>5. Finish("done", said) \/ append(said \o proposal)
    BY <1>6 DEF Answered
  <2> HIDE DEF said, proposal
  <2>6. CASE Finish("done", said)
    <3>1. "done" \in StopKind
      BY <1>3
    <3> QED
      BY <1>1, <2>3, <2>6, <3>1, FinishMute DEF SaysNothing
  <2>7. CASE append(said \o proposal)
    <3>1. said \o proposal \in Seq(Event) /\ Logged(said \o proposal) = <<>>
      BY <2>3, <2>4, LoggedConcat, ConcatLaws, ConcatEmptySeq
    <3> QED
      BY <2>7, <3>1 DEF SaysNothing
  <2> QED
    BY <2>5, <2>6, <2>7
<1> QED
  BY <1>4, <1>5, <1>6 DEF Complete

LEMMA OthersMute ==
  ASSUME LoopInv, [Next]_vars, ~Observe, ~Suspend
  PROVE  SaysNothing
<1>1. CASE Execute \/ EndTurn \/ Exit \/ Cancel \/ Kill \/ UNCHANGED vars
  BY <1>1 DEF Execute, EndTurn, Exit, Cancel, Kill, vars, logVars, SaysNothing
<1> QED
  BY <1>1, BootMute, PlanMute, CompleteMute DEF Next, Step

\* What Observe and Suspend log of the decision they settle.
LEMMA ObserveAudits ==
  ASSUME LoopInv, Tied, Observe
  PROVE  LET t == trail[Len(trail)]
         IN  /\ t \in Decided
             /\ append(AuditEvents(t))
<1> DEFINE t == trail[Len(trail)]
           a == <<Ev("OfinVerdict", t.turn, t.verdict, t.rule)>>
           b == IF t.ran THEN <<Ev("ToolOutput", t.turn, Status(t.isError), 0),
                                Ev("ToolCompleted", t.turn, Status(t.isError), 0)>>
                ELSE <<>>
<1>1. /\ t \in Decided /\ t.turn = turn
      /\ t.verdict = outcome.decision.verdict /\ t.rule = outcome.decision.rule
      /\ t.ran = outcome.ran /\ t.isError = outcome.result.isError
  BY Settles DEF Tied
<1>2. VerdictEvents(outcome.decision) = a
  <2>1. outcome.decision.verdict # "require_human"
    BY DEF Observe, Holds
  <2> HIDE DEF t
  <2> QED
    BY <1>1, <2>1 DEF VerdictEvents, OfinVerdict
<1>3. OutputEvents(outcome) = b
  <2> HIDE DEF t
  <2> QED
    BY <1>1 DEF OutputEvents, ToolOutput, ToolCompleted
<1>4. append(VerdictEvents(outcome.decision) \o OutputEvents(outcome))
  BY DEF Observe
<1>5. AuditEvents(t) = a \o b
  BY DEF AuditEvents
<1> HIDE DEF a, b, t
<1>6. append(AuditEvents(t))
  BY <1>2, <1>3, <1>4, <1>5
<1> QED
  BY <1>1, <1>6 DEF t

LEMMA SuspendAudits ==
  ASSUME LoopInv, Tied, Suspend
  PROVE  LET t == trail[Len(trail)]
         IN  /\ t \in Decided
             /\ \E evs \in Seq(Event) : append(evs) /\ Logged(evs) = AuditEvents(t)
<1> DEFINE t == trail[Len(trail)]
           a == Ev("OfinVerdict", t.turn, t.verdict, t.rule)
           e == TurnState("AWAITING_APPROVAL")
<1>1. /\ t \in Decided /\ t.turn = turn /\ t.verdict = "require_human" /\ ~t.ran
      /\ t.verdict = outcome.decision.verdict /\ t.rule = outcome.decision.rule
  BY Settles DEF Tied, Suspend, Holds
<1>2. VerdictEvents(outcome.decision) = <<a, e>>
  <2> HIDE DEF t
  <2> QED
    BY <1>1 DEF VerdictEvents, OfinVerdict
<1>3. AuditEvents(t) = <<a>> \o <<>>
  BY <1>1 DEF AuditEvents
<1>4. turn \in 0..MaxTurns
  BY ConstantsTyped DEF LoopInv, TypeOK, Suspend
<1>5. a \in Event /\ a.kind \in GateKinds
  <2>1. /\ t.turn \in 0..MaxTurns /\ t.rule \in Nat /\ t.verdict \in What
        /\ "OfinVerdict" \in EventKind /\ "OfinVerdict" \in GateKinds
    BY <1>1, <1>4 DEF Decided, What, Verdicts, EventKind, GateKinds
  <2> HIDE DEF t
  <2>2. a \in Event
    BY <2>1, EvTyped
  <2> QED
    BY <2>1, <2>2 DEF Ev
<1>6. e \in Event /\ e.kind \notin GateKinds
  <2>1. "TurnState" \in EventKind \ GateKinds /\ "AWAITING_APPROVAL" \in What /\ 0 \in Nat
    BY DEF EventKind, GateKinds, What
  <2> QED
    BY <1>4, <2>1, Mute DEF TurnState
<1>7. Finish("awaiting_approval", VerdictEvents(outcome.decision))
  BY DEF Suspend
<1> HIDE DEF a, e, t
<1>8. <<a, e>> \in Seq(Event) /\ <<a>> \in Seq(Event) /\ <<a, e>> = Append(<<a>>, e)
      /\ <<a>> \o <<>> = <<a>>
  BY <1>5, <1>6
<1>9. Logged(<<a, e>>) = <<a>>
  <2>1. AllGate(<<a>>)
    BY <1>5 DEF AllGate
  <2>2. Logged(<<a>>) = <<a>>
    BY <1>8, <2>1, LoggedExtremes
  <2>3. Logged(Append(<<a>>, e)) = Logged(<<a>>)
    BY <1>6, <1>8, LoggedGrows
  <2> QED
    BY <1>8, <2>2, <2>3, Zenon
<1>10. \E all \in Seq(Event) : append(all) /\ Logged(all) = Logged(<<a, e>>)
  <2>1. "awaiting_approval" \in StopKind
    BY DEF StopKind
  <2> QED
    BY <1>2, <1>4, <1>7, <1>8, <2>1, FinishMute
<1> QED
  BY <1>1, <1>3, <1>8, <1>9, <1>10 DEF t

LEMMA AuditInit == Init => AuditInv
<1> SUFFICES ASSUME Init PROVE AuditInv
  OBVIOUS
<1>1. log = <<>> /\ Settled = <<>> /\ ~logErr
  BY DEF Init, Settled
<1>2. Events = <<>>
  BY <1>1 DEF Events
<1> QED
  BY <1>1, <1>2, LoggedGrows, HappenedGrows DEF AuditInv

LEMMA AuditNext ==
  ASSUME LoopInv, LoopInv', Tied, AuditInv, [Next]_vars
  PROVE  AuditInv'
<1> DEFINE t == trail[Len(trail)]
<1>1. /\ Settled \in Seq(Decided) /\ Happened(Settled) \in Seq(Event)
      /\ Happened(Settled) \o <<>> = Happened(Settled)
  BY SettledTyped, HappenedGrows, ConcatEmptySeq
<1>2. CASE Observe \/ Suspend
  <2>1. t \in Decided /\ Settled' = Append(Settled, t)
    BY <1>2, Settles
  <2>2. PICK evs \in Seq(Event) : append(evs) /\ Logged(evs) = AuditEvents(t)
    BY <1>2, <2>1, ObserveAudits, SuspendAudits, AuditEventsTyped, LoggedExtremes
  <2> HIDE DEF t
  <2>3. Happened(Settled') = Happened(Settled) \o Logged(evs)
    BY <1>1, <2>1, <2>2, HappenedGrows
  <2> QED
    BY <1>1, <2>2, <2>3, AuditStep
<1>3. CASE ~Observe /\ ~Suspend
  <2>1. Settled' = Settled
    BY <1>3, NothingSettles
  <2>2. CASE UNCHANGED <<log, seq, logErr>>
    BY <2>1, <2>2 DEF AuditInv, Events
  <2>3. ASSUME NEW evs \in Seq(Event), append(evs), Logged(evs) = <<>> PROVE AuditInv'
    <3>1. Happened(Settled') = Happened(Settled) \o Logged(evs)
      BY <1>1, <2>1, <2>3
    <3> QED
      BY <1>1, <2>3, <3>1, AuditStep
  <2> QED
    BY <1>3, <2>2, <2>3, OthersMute DEF SaysNothing
<1> QED
  BY <1>2, <1>3

\* What is settled is what the audit trail is measured against: all of the
\* trail once the run is over, all but its last decision before.
LEMMA AuditImplies == LoopInv /\ Tied /\ AuditInv => AuditTrail
<1> SUFFICES ASSUME LoopInv, Tied, AuditInv PROVE AuditTrail
  OBVIOUS
<1>1. /\ Settled \in Seq(Decided) /\ trail \in Seq(Decided)
      /\ Happened(Settled) \in Seq(Event)
      /\ Events \in Seq(Event) /\ Logged(Events) \in Seq(Event)
  BY SettledTyped, HappenedGrows, EventsTyped, LoggedGrows
<1>2. IsPrefix(Logged(Events), Happened(Settled))
  <2>1. Happened(Settled) \o <<>> = Happened(Settled) /\ <<>> \in Seq(Event)
    BY <1>1, ConcatEmptySeq
  <2> QED
    BY <1>1, <2>1, PrefixOfConcat DEF AuditInv
<1>3. IsPrefix(Logged(Events), Happened(trail))
  <2>1. CASE pc = "observe"
    <3> DEFINE t == trail[Len(trail)]
    <3>1. t \in Decided /\ trail = Append(Settled, t)
      BY <2>1, SettledTyped
    <3> HIDE DEF t
    <3>2. Happened(trail) = Happened(Settled) \o AuditEvents(t)
      BY <1>1, <3>1, HappenedGrows
    <3> QED
      BY <1>1, <1>2, <3>1, <3>2, AuditEventsTyped, PrefixGrows
  <2>2. CASE pc # "observe"
    BY <1>2, <2>2 DEF Settled
  <2> QED
    BY <2>1, <2>2
<1>4. pc \in {"finished", "exited"} /\ ~logErr => Logged(Events) = Happened(trail)
  BY DEF AuditInv, Settled
<1> QED
  BY <1>3, <1>4 DEF AuditTrail, Logged, Happened

\* The gate's events in the log are a prefix of what the gate decided and the
\* tools returned, in order, and all of it when a run ended with its log
\* intact: whichever write fails, nothing is logged that did not happen and
\* no decision is missing before one that is there (eventlog.go:95-127).
THEOREM AuditTrailIsTrue == Spec => []AuditTrail
<1>1. LoopInv /\ Tied /\ AuditInv /\ [Next]_vars => AuditInv'
  BY AuditNext, LoopInvNext
<1> QED
  BY <1>1, AuditInit, AuditImplies, TiedHolds, InvariantHolds, PTL DEF Spec

-----------------------------------------------------------------------------
(* What a summary reads of the events: the turn it is, and the gate's stops *)

\* The turn the log has come to, and the verdicts that are not of that turn.
Timed(s, e) ==
  [turns |-> IF e.kind = "TurnState" THEN Later(s.turns, e.turn) ELSE s.turns,
   off   |-> IF e.kind = "OfinVerdict" /\ e.turn # s.turns THEN s.off + 1 ELSE s.off]

Midnight == [turns |-> 0, off |-> 0]

Clocked(evs) == FoldLeft(Timed, Midnight, evs)

Clock == [turns : Nat, off : Nat]

Blocks(e) == e.kind = "OfinVerdict" /\ e.what # "allow"

\* How many calls the gate stopped, and the turn of the first.
Stopped(s, e) ==
  IF Blocks(e) THEN [denials |-> s.denials + 1, first |-> IF s.first = 0 THEN e.turn ELSE s.first]
  ELSE s

Never == [denials |-> 0, first |-> 0]

Stops(evs) == FoldLeft(Stopped, Never, evs)

StopCount == [denials : Nat, first : Nat]

Clocking == INSTANCE Folding WITH Op <- Timed

Stopping == INSTANCE Folding WITH Op <- Stopped

LEMMA ClockFolded ==
  ASSUME NEW q
  PROVE  Clocked(q) = Clocking!Fold(Midnight, q)
BY DEF Clocked, Clocking!Fold, Clocking!FoldLeft, FoldLeft, Clocking!MapThenFoldSet,
       MapThenFoldSet, Clocking!Max, Max

LEMMA StopsFolded ==
  ASSUME NEW q
  PROVE  Stops(q) = Stopping!Fold(Never, q)
BY DEF Stops, Stopping!Fold, Stopping!FoldLeft, FoldLeft, Stopping!MapThenFoldSet,
       MapThenFoldSet, Stopping!Max, Max

LEMMA EventTurns == \A e \in Event : e.turn \in Nat /\ e.turn <= MaxTurns
BY ConstantsTyped DEF Event

LEMMA ClockGrows ==
  /\ Clocked(<<>>) = Midnight
  /\ \A q \in Seq(Event) : Clocked(q) \in Clock
  /\ \A q \in Seq(Event), e \in Event : Clocked(Append(q, e)) = Timed(Clocked(q), e)
<1>1. Clocked(<<>>) = Midnight
  BY ClockFolded, Clocking!FoldEmpty
<1>2. ASSUME NEW q \in Seq(Event), NEW e \in Event
      PROVE  Clocked(Append(q, e)) = Timed(Clocked(q), e)
  BY ClockFolded, Clocking!FoldAppend
<1>3. \A s \in Clock, e \in Event : Timed(s, e) \in Clock
  BY EventTurns DEF Timed, Later, Clock
<1>4. Midnight \in Clock
  BY DEF Midnight, Clock
<1>5. ASSUME NEW q \in Seq(Event) PROVE Clocked(q) \in Clock
  <2>1. Clocking!Fold(Midnight, q) \in Clock
    BY <1>3, <1>4, Clocking!FoldType
  <2> QED
    BY <2>1, ClockFolded
<1> QED
  BY <1>1, <1>2, <1>5

LEMMA StopsGrow ==
  /\ Stops(<<>>) = Never
  /\ \A q \in Seq(Event) : Stops(q) \in StopCount
  /\ \A q \in Seq(Event), e \in Event : Stops(Append(q, e)) = Stopped(Stops(q), e)
<1>1. Stops(<<>>) = Never
  BY StopsFolded, Stopping!FoldEmpty
<1>2. ASSUME NEW q \in Seq(Event), NEW e \in Event
      PROVE  Stops(Append(q, e)) = Stopped(Stops(q), e)
  BY StopsFolded, Stopping!FoldAppend
<1>3. \A s \in StopCount, e \in Event : Stopped(s, e) \in StopCount
  BY EventTurns DEF Stopped, StopCount
<1>4. Never \in StopCount
  BY DEF Never, StopCount
<1>5. ASSUME NEW q \in Seq(Event) PROVE Stops(q) \in StopCount
  <2>1. Stopping!Fold(Never, q) \in StopCount
    BY <1>3, <1>4, Stopping!FoldType
  <2> QED
    BY <2>1, StopsFolded
<1> QED
  BY <1>1, <1>2, <1>5

\* Events of the turn the log has come to leave the clock where it is.
LEMMA LevelKeeps ==
  ASSUME NEW p \in Seq(Event), NEW q \in Seq(Event),
         \A i \in DOMAIN q : q[i].turn = Clocked(p).turns
  PROVE  Clocked(p \o q) = Clocked(p)
<1> DEFINE Level(r) == \A i \in DOMAIN r : r[i].turn = Clocked(p).turns
           U == {r \in Seq(Event) : Level(r) => Clocked(p \o r) = Clocked(p)}
<1>1. <<>> \in U
  BY ConcatEmptySeq
<1>2. ASSUME NEW r \in Seq(Event), NEW e \in Event, r \in U PROVE Append(r, e) \in U
  <2>1. Append(r, e) \in Seq(Event) /\ p \o r \in Seq(Event)
        /\ p \o Append(r, e) = Append(p \o r, e)
    BY AppendConcat
  <2>2. SUFFICES ASSUME Level(Append(r, e)) PROVE Clocked(p \o Append(r, e)) = Clocked(p)
    BY <2>1
  <2>3. Level(r) /\ e.turn = Clocked(p).turns
    <3>1. /\ Len(r) + 1 \in DOMAIN Append(r, e) /\ Append(r, e)[Len(r) + 1] = e
          /\ \A i \in DOMAIN r : i \in DOMAIN Append(r, e) /\ Append(r, e)[i] = r[i]
      OBVIOUS
    <3> QED
      BY <2>2, <3>1
  <2>4. Clocked(p \o r) = Clocked(p) /\ Clocked(p) \in Clock
    BY <1>2, <2>3, ClockGrows
  <2>5. Timed(Clocked(p), e) = Clocked(p)
    BY <2>3, <2>4 DEF Timed, Later, Clock
  <2> HIDE DEF U
  <2> QED
    BY <2>1, <2>4, <2>5, ClockGrows
<1> HIDE DEF U
<1>3. q \in U
  BY <1>1, <1>2, Clocking!SeqSetInduction
<1> QED
  BY <1>3 DEF U

LEMMA ClockBounded ==
  ASSUME NEW q \in Seq(Event), NEW b \in Nat, \A i \in DOMAIN q : q[i].turn <= b
  PROVE  Clocked(q).turns <= b
<1> DEFINE Low(r) == \A i \in DOMAIN r : r[i].turn <= b
           U == {r \in Seq(Event) : Low(r) => Clocked(r).turns <= b}
<1>1. <<>> \in U
  BY ClockGrows DEF Midnight
<1>2. ASSUME NEW r \in Seq(Event), NEW e \in Event, r \in U PROVE Append(r, e) \in U
  <2>1. /\ Append(r, e) \in Seq(Event)
        /\ Len(r) + 1 \in DOMAIN Append(r, e) /\ Append(r, e)[Len(r) + 1] = e
        /\ \A i \in DOMAIN r : i \in DOMAIN Append(r, e) /\ Append(r, e)[i] = r[i]
    OBVIOUS
  <2>2. Low(Append(r, e)) => Low(r) /\ e.turn <= b
    BY <2>1
  <2> HIDE DEF Low
  <2>3. Clocked(Append(r, e)) = Timed(Clocked(r), e) /\ Clocked(r) \in Clock
    BY ClockGrows
  <2>4. Clocked(r).turns <= b /\ e.turn <= b => Clocked(Append(r, e)).turns <= b
    BY <2>3 DEF Timed, Later
  <2> QED
    BY <1>2, <2>1, <2>2, <2>4
<1> HIDE DEF U
<1>3. q \in U
  BY <1>1, <1>2, Clocking!SeqSetInduction
<1> QED
  BY <1>3 DEF U

\* The gate's stops are in the gate's events.
LEMMA StopsLogged ==
  ASSUME NEW q \in Seq(Event)
  PROVE  Stops(Logged(q)) = Stops(q)
<1> DEFINE U == {r \in Seq(Event) : Stops(Logged(r)) = Stops(r)}
<1>1. <<>> \in U
  BY LoggedGrows
<1>2. ASSUME NEW r \in Seq(Event), NEW e \in Event, r \in U PROVE Append(r, e) \in U
  <2>1. Append(r, e) \in Seq(Event) /\ Stops(Logged(r)) = Stops(r) /\ Logged(r) \in Seq(Event)
    BY <1>2, LoggedGrows
  <2> HIDE DEF U
  <2>2. Stops(Append(r, e)) = Stopped(Stops(r), e)
    BY StopsGrow
  <2>3. CASE e.kind \in GateKinds
    <3>1. Logged(Append(r, e)) = Append(Logged(r), e)
      BY <2>3, LoggedGrows
    <3>2. Stops(Append(Logged(r), e)) = Stopped(Stops(Logged(r)), e)
      BY <2>1, StopsGrow
    <3> QED
      BY <2>1, <2>2, <3>1, <3>2 DEF U
  <2>4. CASE e.kind \notin GateKinds
    <3>1. Logged(Append(r, e)) = Logged(r)
      BY <2>4, LoggedGrows
    <3>2. Stopped(Stops(r), e) = Stops(r)
      BY <2>4 DEF Stopped, Blocks, GateKinds
    <3> QED
      BY <2>1, <2>2, <3>1, <3>2 DEF U
  <2> QED
    BY <2>3, <2>4
<1> HIDE DEF U
<1>3. q \in U
  BY <1>1, <1>2, Stopping!SeqSetInduction
<1> QED
  BY <1>3 DEF U

LEMMA StopsMonotone ==
  ASSUME NEW p \in Seq(Event), NEW q \in Seq(Event)
  PROVE  Stops(p).denials <= Stops(p \o q).denials
<1> DEFINE U == {r \in Seq(Event) : Stops(p).denials <= Stops(p \o r).denials}
<1>0. Stops(p).denials \in Nat
  BY StopsGrow DEF StopCount
<1>1. <<>> \in U
  BY <1>0, ConcatEmptySeq
<1>2. ASSUME NEW r \in Seq(Event), NEW e \in Event, r \in U PROVE Append(r, e) \in U
  <2>1. Append(r, e) \in Seq(Event) /\ p \o r \in Seq(Event)
        /\ p \o Append(r, e) = Append(p \o r, e)
    BY AppendConcat
  <2>2. /\ Stops(Append(p \o r, e)) = Stopped(Stops(p \o r), e)
        /\ Stops(p \o r) \in StopCount
    BY <2>1, StopsGrow
  <2>3. Stops(p \o r).denials <= Stopped(Stops(p \o r), e).denials
        /\ Stops(p \o r).denials \in Nat /\ Stopped(Stops(p \o r), e).denials \in Nat
    BY <2>2 DEF Stopped, StopCount
  <2>4. Stops(p).denials <= Stops(p \o r).denials
    BY <1>2
  <2>5. Stops(p).denials <= Stops(p \o Append(r, e)).denials
    <3> HIDE DEF U
    <3> QED
      BY <1>0, <2>1, <2>2, <2>3, <2>4
  <2> QED
    BY <2>1, <2>5
<1> HIDE DEF U
<1>3. q \in U
  BY <1>1, <1>2, Stopping!SeqSetInduction
<1> QED
  BY <1>3 DEF U
LEMMA OneAndTwo ==
  \A a, b, c \in Event : <<a>> \o <<b, c>> = <<a, b, c>> /\ <<a>> \o <<>> = <<a>>
<1> SUFFICES ASSUME NEW a \in Event, NEW b \in Event, NEW c \in Event
             PROVE  <<a>> \o <<b, c>> = <<a, b, c>> /\ <<a>> \o <<>> = <<a>>
  OBVIOUS
<1>1. <<a>> \in Seq(Event) /\ <<b, c>> \in Seq(Event)
  OBVIOUS
<1>2. <<a>> \o <<>> = <<a>>
  BY <1>1, ConcatEmptySeq
<1>3. <<a>> \o <<b, c>> = <<a, b, c>>
  <2> DEFINE x == <<a>>
             y == <<b, c>>
             z == <<a, b, c>>
  <2>1. /\ Len(x) = 1 /\ Len(y) = 2 /\ z \in Seq(Event) /\ Len(z) = 3
        /\ x[1] = a /\ y[1] = b /\ y[2] = c /\ z[1] = a /\ z[2] = b /\ z[3] = c
    OBVIOUS
  <2>2. x \in Seq(Event) /\ y \in Seq(Event)
    BY <1>1
  <2> HIDE DEF x, y, z
  <2>3. /\ x \o y \in Seq(Event) /\ Len(x \o y) = 3
        /\ \A i \in 1..3 : (x \o y)[i] = IF i <= 1 THEN x[i] ELSE y[i - 1]
    <3>1. /\ x \o y \in Seq(Event) /\ Len(x \o y) = Len(x) + Len(y)
          /\ \A i \in 1..(Len(x) + Len(y)) :
               (x \o y)[i] = IF i <= Len(x) THEN x[i] ELSE y[i - Len(x)]
      BY <2>2, ConcatLaws, Zenon
    <3> QED
      BY <2>1, <3>1
  <2>4. ASSUME NEW i \in 1..3 PROVE (x \o y)[i] = z[i]
    <3>1. i \in {1, 2, 3}
      OBVIOUS
    <3> QED
      BY <2>1, <2>3, <3>1
  <2>5. x \o y = z
    BY <2>1, <2>3, <2>4, SeqEqual
  <2> QED
    BY <2>5 DEF x, y, z
<1> QED
  BY <1>2, <1>3

\* What the events of a decision add to the gate's stops.
LEMMA StopsOfAudit ==
  ASSUME NEW p \in Seq(Event), NEW t \in Decided
  PROVE  Stops(p \o AuditEvents(t)) =
           Stopped(Stops(p), Ev("OfinVerdict", t.turn, t.verdict, t.rule))
<1>1. /\ t.turn \in 0..MaxTurns /\ t.rule \in Nat /\ t.verdict \in What
      /\ Status(t.isError) \in What /\ 0 \in Nat
      /\ "OfinVerdict" \in EventKind /\ "ToolOutput" \in EventKind /\ "ToolCompleted" \in EventKind
  BY ConstantsTyped DEF Decided, What, Verdicts, Status, EventKind
<1> DEFINE a == Ev("OfinVerdict", t.turn, t.verdict, t.rule)
           b == Ev("ToolOutput", t.turn, Status(t.isError), 0)
           c == Ev("ToolCompleted", t.turn, Status(t.isError), 0)
<1>2. /\ a \in Event /\ b \in Event /\ c \in Event
      /\ b.kind = "ToolOutput" /\ c.kind = "ToolCompleted"
  BY <1>1, EvTyped DEF Ev
<1>3. AuditEvents(t) = <<a>> \o (IF t.ran THEN <<b, c>> ELSE <<>>)
  BY DEF AuditEvents
<1> SUFFICES Stops(p \o AuditEvents(t)) = Stopped(Stops(p), a)
  OBVIOUS
<1> HIDE DEF a, b, c
<1>4. AuditEvents(t) = IF t.ran THEN <<a, b, c>> ELSE <<a>>
  <2>1. <<a>> \o <<b, c>> = <<a, b, c>> /\ <<a>> \o <<>> = <<a>>
    BY <1>2, OneAndTwo
  <2> QED
    BY <1>3, <2>1
<1>5. Append(p, a) \in Seq(Event) /\ Append(Append(p, a), b) \in Seq(Event)
  BY <1>2
<1>6. Stops(Append(p, a)) = Stopped(Stops(p), a)
  BY <1>2, StopsGrow
<1>7. CASE t.ran
  <2>1. p \o AuditEvents(t) = Append(Append(Append(p, a), b), c)
    BY <1>2, <1>4, <1>7
  <2>2. Stops(Append(Append(p, a), b)) = Stopped(Stops(Append(p, a)), b)
    BY <1>2, <1>5, StopsGrow
  <2>3. Stops(Append(Append(Append(p, a), b), c)) = Stopped(Stops(Append(Append(p, a), b)), c)
    BY <1>2, <1>5, StopsGrow
  <2>4. ~Blocks(b) /\ ~Blocks(c)
    BY <1>2 DEF Blocks
  <2> QED
    BY <1>6, <2>1, <2>2, <2>3, <2>4 DEF Stopped
<1>8. CASE ~t.ran
  <2>1. p \o AuditEvents(t) = Append(p, a)
    BY <1>2, <1>4, <1>8
  <2> QED
    BY <1>6, <2>1
<1> QED
  BY <1>7, <1>8

-----------------------------------------------------------------------------
(* The stops among the decisions *)

BlockedIn(q) == {i \in DOMAIN q : q[i].verdict # "allow"}

FirstBlocked(q) == IF BlockedIn(q) = {} THEN 0 ELSE q[Min(BlockedIn(q))].turn

LEMMA LeastOf ==
  ASSUME NEW n \in Nat, NEW A \in SUBSET (1..n), A # {}
  PROVE  Min(A) \in A /\ \A i \in A : Min(A) <= i
<1>1. A \in SUBSET Nat
  OBVIOUS
<1>2. PICK m \in A : \A i \in A : m <= i
  BY <1>1, Stopping!Least
<1> QED
  BY <1>2 DEF Min

LEMMA BlockedGrow ==
  ASSUME NEW q \in Seq(Decided), NEW t \in Decided
  PROVE  /\ BlockedIn(Append(q, t)) =
              IF t.verdict # "allow" THEN BlockedIn(q) \cup {Len(q) + 1} ELSE BlockedIn(q)
         /\ FirstBlocked(Append(q, t)) =
              IF t.verdict # "allow" /\ BlockedIn(q) = {} THEN t.turn ELSE FirstBlocked(q)
<1> DEFINE r == Append(q, t)
           n == Len(q)
<1>1. /\ n \in Nat /\ DOMAIN q = 1..n /\ DOMAIN r = 1..(n + 1)
      /\ r[n + 1] = t /\ \A i \in 1..n : r[i] = q[i]
  OBVIOUS
<1> HIDE DEF r, n
<1>2. BlockedIn(r) = IF t.verdict # "allow" THEN BlockedIn(q) \cup {n + 1} ELSE BlockedIn(q)
  BY <1>1 DEF BlockedIn
<1>3. BlockedIn(q) \in SUBSET (1..n) /\ BlockedIn(r) \in SUBSET (1..(n + 1))
  BY <1>1 DEF BlockedIn
<1>4. CASE BlockedIn(q) # {}
  <2>1. Min(BlockedIn(q)) \in BlockedIn(q) /\ \A i \in BlockedIn(q) : Min(BlockedIn(q)) <= i
    BY <1>1, <1>3, <1>4, LeastOf
  <2>2. BlockedIn(r) # {} /\ n + 1 \in Nat
    BY <1>1, <1>2, <1>4
  <2>3. Min(BlockedIn(r)) \in BlockedIn(r) /\ \A i \in BlockedIn(r) : Min(BlockedIn(r)) <= i
    BY <1>3, <2>2, LeastOf
  <2>4. Min(BlockedIn(r)) = Min(BlockedIn(q))
    <3> DEFINE a == Min(BlockedIn(q))
               b == Min(BlockedIn(r))
    <3>1. a \in 1..n /\ a \in BlockedIn(r) /\ b \in 1..(n + 1)
      BY <1>2, <1>3, <2>1, <2>3
    <3>2. b <= a
      BY <2>3, <3>1
    <3>3. b \in BlockedIn(q)
      BY <1>1, <1>2, <2>3, <3>1, <3>2
    <3>4. a <= b
      BY <2>1, <3>3
    <3> HIDE DEF a, b
    <3>5. a = b
      BY <1>1, <3>1, <3>2, <3>4
    <3> QED
      BY <3>5 DEF a, b
  <2>5. r[Min(BlockedIn(r))] = q[Min(BlockedIn(q))]
    BY <1>1, <1>3, <2>1, <2>4
  <2> QED
    BY <1>2, <1>4, <2>2, <2>5 DEF FirstBlocked, r, n
<1>5. CASE BlockedIn(q) = {} /\ t.verdict # "allow"
  <2>1. BlockedIn(r) = {n + 1} /\ n + 1 \in Nat
    BY <1>1, <1>2, <1>5
  <2>2. Min(BlockedIn(r)) \in BlockedIn(r)
    BY <1>3, <2>1, LeastOf
  <2> QED
    BY <1>1, <1>2, <1>5, <2>1, <2>2 DEF FirstBlocked, r, n
<1>6. CASE BlockedIn(q) = {} /\ t.verdict = "allow"
  BY <1>2, <1>6 DEF FirstBlocked, r, n
<1> QED
  BY <1>4, <1>5, <1>6

\* The gate's events have the stops of its decisions.
LEMMA StopsHappened ==
  ASSUME NEW q \in Seq(Decided)
  PROVE  /\ IsFiniteSet(BlockedIn(q))
         /\ Stops(Happened(q)) = [denials |-> Cardinality(BlockedIn(q)),
                                  first   |-> FirstBlocked(q)]
<1> DEFINE Counted(r) == /\ IsFiniteSet(BlockedIn(r))
                        /\ (BlockedIn(r) # {} => FirstBlocked(r) # 0)
                        /\ Stops(Happened(r)) = [denials |-> Cardinality(BlockedIn(r)),
                                                 first   |-> FirstBlocked(r)]
           U == {r \in Seq(Decided) : Counted(r)}
<1>1. <<>> \in U
  <2>1. BlockedIn(<<>>) = {}
    BY DEF BlockedIn
  <2>2. IsFiniteSet(BlockedIn(<<>>)) /\ Cardinality(BlockedIn(<<>>)) = 0
    BY <2>1, FS_EmptySet
  <2> QED
    BY <2>1, <2>2, HappenedGrows, StopsGrow DEF Never, FirstBlocked
<1>2. ASSUME NEW r \in Seq(Decided), NEW t \in Decided, r \in U PROVE Append(r, t) \in U
  <2> DEFINE e == Ev("OfinVerdict", t.turn, t.verdict, t.rule)
             n == Cardinality(BlockedIn(r))
  <2>1. Counted(r) /\ Append(r, t) \in Seq(Decided)
    BY <1>2
  <2>2. Stops(Happened(Append(r, t))) = Stopped(Stops(Happened(r)), e)
    BY HappenedGrows, StopsOfAudit
  <2>3. t.turn # 0 /\ e.turn = t.turn /\ (Blocks(e) <=> t.verdict # "allow")
    BY ConstantsTyped DEF Ev, Blocks, Decided
  <2> HIDE DEF e
  <2>4. CASE t.verdict = "allow"
    <3>1. BlockedIn(Append(r, t)) = BlockedIn(r) /\ FirstBlocked(Append(r, t)) = FirstBlocked(r)
      BY <2>4, BlockedGrow
    <3>2. Stops(Happened(Append(r, t))) = Stops(Happened(r))
      BY <2>2, <2>3, <2>4 DEF Stopped
    <3> QED
      BY <2>1, <3>1, <3>2
  <2>5. CASE t.verdict # "allow"
    <3>1. /\ BlockedIn(Append(r, t)) = BlockedIn(r) \cup {Len(r) + 1}
          /\ FirstBlocked(Append(r, t)) = IF BlockedIn(r) = {} THEN t.turn ELSE FirstBlocked(r)
      BY <2>5, BlockedGrow
    <3>2. Len(r) + 1 \notin BlockedIn(r)
      BY DEF BlockedIn
    <3>3. /\ IsFiniteSet(BlockedIn(Append(r, t)))
          /\ Cardinality(BlockedIn(Append(r, t))) = n + 1
      BY <2>1, <3>1, <3>2, FS_AddElement
    <3>4. Stops(Happened(Append(r, t))) =
            [denials |-> n + 1, first |-> IF FirstBlocked(r) = 0 THEN t.turn ELSE FirstBlocked(r)]
      BY <2>1, <2>2, <2>3, <2>5 DEF Stopped
    <3>5. FirstBlocked(r) = 0 <=> BlockedIn(r) = {}
      BY <2>1 DEF FirstBlocked
    <3>6. Stops(Happened(Append(r, t))) = [denials |-> Cardinality(BlockedIn(Append(r, t))),
                                           first   |-> FirstBlocked(Append(r, t))]
      BY <3>1, <3>3, <3>4, <3>5
    <3>7. FirstBlocked(Append(r, t)) # 0
      BY <2>3, <3>1, <3>5
    <3> QED
      BY <2>1, <3>3, <3>6, <3>7
  <2> QED
    BY <2>4, <2>5
<1> HIDE DEF U
<1>3. q \in U
  BY <1>1, <1>2, Stopping!SeqSetInduction
<1> QED
  BY <1>3 DEF U
-----------------------------------------------------------------------------
(* What readSummary makes of any lines *)

Line == [event : Event, detail : Seq(StopKind)]

EventsOf(q) == [i \in DOMAIN q |-> q[i].event]

Row == [turns : Nat, denials : Nat, first : Nat, stalled : BOOLEAN,
        completed : BOOLEAN, costed : BOOLEAN]

SummaryOf(q) == FoldLeft(Summed, Blank, q)

\* The lines that complete a run, that name its cost, and that stall it.
Completing == {l \in Line : l.event.kind = "TurnState" /\ l.event.what = "DONE"}

Costing == {l \in Line : /\ l.event.kind = "TurnState" /\ l.event.what \in Closing
                         /\ l.detail # <<>>}

Stalling == {l \in Line : /\ l.event.kind = "TurnState" /\ l.event.what \in Closing
                          /\ l.detail \in {<<"turn_limit">>, <<"error">>}}

Summing == INSTANCE Folding WITH Op <- Summed

LEMMA SummaryFolded ==
  ASSUME NEW q
  PROVE  SummaryOf(q) = Summing!Fold(Blank, q)
BY DEF SummaryOf, Summing!Fold, Summing!FoldLeft, FoldLeft, Summing!MapThenFoldSet,
       MapThenFoldSet, Summing!Max, Max

LEMMA SummedFields ==
  ASSUME NEW s \in Row, NEW l \in Line
  PROVE  LET e == l.event
             t == Summed(s, l)
         IN  /\ t \in Row
             /\ t.turns = IF e.kind = "TurnState" THEN Later(s.turns, e.turn) ELSE s.turns
             /\ t.denials = IF Blocks(e) THEN s.denials + 1 ELSE s.denials
             /\ t.first = IF Blocks(e) /\ s.first = 0 THEN s.turns ELSE s.first
             /\ t.completed <=> s.completed \/ l \in Completing
             /\ t.costed <=> s.costed \/ l \in Costing
             /\ t.stalled <=> s.stalled \/ l \in Stalling
<1> DEFINE e == l.event
           t == Summed(s, l)
<1>1. e \in Event /\ l.detail \in Seq(StopKind) /\ e.turn \in Nat
  BY EventTurns DEF Line
<1>2. CASE Blocks(e)
  <2>1. e.kind = "OfinVerdict" /\ e.what # "allow"
    BY <1>2 DEF Blocks
  <2>2. t = [s EXCEPT !.denials = @ + 1, !.first = FirstDenial(s, s.turns)]
    BY <2>1 DEF Summed
  <2>3. l \notin Completing /\ l \notin Costing /\ l \notin Stalling /\ e.kind # "TurnState"
    BY <2>1 DEF Completing, Costing, Stalling
  <2> DEFINE f == FirstDenial(s, s.turns)
             n == s.denials + 1
  <2>4. f = (IF s.first = 0 THEN s.turns ELSE s.first) /\ f \in Nat /\ n \in Nat
    BY DEF Row, FirstDenial
  <2>5. t = [s EXCEPT !.denials = n, !.first = f]
    BY <2>2
  <2> HIDE DEF e, t, f, n
  <2>6. /\ t \in Row /\ t.turns = s.turns /\ t.denials = n /\ t.first = f
        /\ t.completed = s.completed /\ t.costed = s.costed /\ t.stalled = s.stalled
    BY <2>4, <2>5 DEF Row
  <2> QED
    BY <1>2, <2>3, <2>4, <2>6 DEF e, t, n
<1>3. CASE ~Blocks(e) /\ e.kind # "TurnState"
  <2>1. t = s
    BY <1>3 DEF Summed, Blocks
  <2>2. l \notin Completing /\ l \notin Costing /\ l \notin Stalling
    BY <1>3 DEF Completing, Costing, Stalling
  <2> HIDE DEF e, t
  <2> QED
    BY <1>3, <2>1, <2>2 DEF Row, e, t
<1>4. CASE e.kind = "TurnState" /\ e.what \notin Closing
  <2>1. t = [s EXCEPT !.turns = Later(@, e.turn)] /\ ~Blocks(e)
    BY <1>4 DEF Summed, Blocks
  <2>2. l \notin Completing /\ l \notin Costing /\ l \notin Stalling
    BY <1>4 DEF Completing, Costing, Stalling, Closing
  <2> HIDE DEF e, t
  <2> QED
    BY <1>1, <1>4, <2>1, <2>2 DEF Row, Later, e, t
<1>5. CASE e.kind = "TurnState" /\ e.what \in Closing
  <2> DEFINE u == [s EXCEPT !.turns = Later(@, e.turn)]
             v == [u EXCEPT !.completed = @ \/ Completes(e.what)]
  <2>1. t = parseDetail(v, l.detail) /\ ~Blocks(e)
    BY <1>5 DEF Summed, Blocks
  <2>2. /\ l \in Completing <=> e.what = "DONE"
        /\ l \in Costing <=> l.detail # <<>>
        /\ l \in Stalling <=> l.detail \in {<<"turn_limit">>, <<"error">>}
    BY <1>5 DEF Completing, Costing, Stalling
  <2>3. /\ u \in Row /\ u.turns = Later(s.turns, e.turn) /\ u.denials = s.denials
        /\ u.first = s.first /\ u.completed = s.completed /\ u.costed = s.costed
        /\ u.stalled = s.stalled
    BY <1>1 DEF Row, Later
  <2> HIDE DEF u
  <2>4. /\ v \in Row /\ v.turns = u.turns /\ v.denials = u.denials
        /\ v.first = u.first /\ v.costed = u.costed /\ v.stalled = u.stalled
        /\ v.completed <=> u.completed \/ e.what = "DONE"
    BY <2>3 DEF Row, Completes
  <2> HIDE DEF v
  <2>5. /\ t \in Row /\ t.turns = v.turns /\ t.denials = v.denials
        /\ t.first = v.first /\ t.completed = v.completed
        /\ t.costed <=> v.costed \/ l.detail # <<>>
        /\ t.stalled <=> v.stalled \/ l.detail \in {<<"turn_limit">>, <<"error">>}
    BY <2>1, <2>4 DEF Row, parseDetail
  <2> HIDE DEF t
  <2> QED
    BY <1>5, <2>1, <2>2, <2>3, <2>4, <2>5 DEF t
<1> QED
  BY <1>2, <1>3, <1>4, <1>5
LEMMA SummaryGrows ==
  /\ SummaryOf(<<>>) = Blank
  /\ \A q \in Seq(Line) : SummaryOf(q) \in Row
  /\ \A q \in Seq(Line), l \in Line : SummaryOf(Append(q, l)) = Summed(SummaryOf(q), l)
<1>1. SummaryOf(<<>>) = Blank
  BY SummaryFolded, Summing!FoldEmpty
<1>2. ASSUME NEW q \in Seq(Line), NEW l \in Line
      PROVE  SummaryOf(Append(q, l)) = Summed(SummaryOf(q), l)
  BY SummaryFolded, Summing!FoldAppend
<1>3. \A s \in Row, l \in Line : Summed(s, l) \in Row
  BY SummedFields
<1>4. Blank \in Row
  BY DEF Blank, Row
<1>5. ASSUME NEW q \in Seq(Line) PROVE SummaryOf(q) \in Row
  <2>1. Summing!Fold(Blank, q) \in Row
    BY <1>3, <1>4, Summing!FoldType
  <2> QED
    BY <2>1, SummaryFolded
<1> QED
  BY <1>1, <1>2, <1>5

LEMMA EventsOfGrow ==
  /\ EventsOf(<<>>) = <<>>
  /\ \A q \in Seq(Line) : EventsOf(q) \in Seq(Event)
  /\ \A q \in Seq(Line), l \in Line : EventsOf(Append(q, l)) = Append(EventsOf(q), l.event)
<1>1. EventsOf(<<>>) = <<>>
  BY DEF EventsOf
<1>2. ASSUME NEW q \in Seq(Line)
      PROVE  EventsOf(q) \in Seq(Event) /\ Len(EventsOf(q)) = Len(q)
             /\ \A i \in 1..Len(q) : EventsOf(q)[i] = q[i].event
  <2>1. Len(q) \in Nat /\ DOMAIN q = 1..Len(q)
    OBVIOUS
  <2>2. \A i \in 1..Len(q) : q[i].event \in Event
    <3> SUFFICES ASSUME NEW i \in 1..Len(q) PROVE q[i].event \in Event
      OBVIOUS
    <3>1. q[i] \in Line
      BY ElementOfSeq
    <3> QED
      BY <3>1 DEF Line
  <2>3. EventsOf(q) \in [1..Len(q) -> Event] /\ \A i \in 1..Len(q) : EventsOf(q)[i] = q[i].event
    BY <2>1, <2>2 DEF EventsOf
  <2> HIDE DEF EventsOf
  <2>4. EventsOf(q) \in Seq(Event)
    BY <2>1, <2>3, IsASeq
  <2> QED
    BY <2>1, <2>3, <2>4
<1>3. ASSUME NEW q \in Seq(Line), NEW l \in Line
      PROVE  EventsOf(Append(q, l)) = Append(EventsOf(q), l.event)
  <2> DEFINE r == Append(q, l)
             x == Append(EventsOf(q), l.event)
             n == Len(q)
  <2>1. /\ n \in Nat /\ r \in Seq(Line) /\ Len(r) = n + 1 /\ r[n + 1] = l
        /\ \A i \in 1..n : r[i] = q[i]
    OBVIOUS
  <2>2. l.event \in Event
    BY DEF Line
  <2> HIDE DEF r, n
  <2>3. /\ EventsOf(q) \in Seq(Event) /\ Len(EventsOf(q)) = n
        /\ \A i \in 1..n : EventsOf(q)[i] = q[i].event
    BY <1>2 DEF n
  <2>4. /\ EventsOf(r) \in Seq(Event) /\ Len(EventsOf(r)) = n + 1
        /\ \A i \in 1..(n + 1) : EventsOf(r)[i] = r[i].event
    BY <1>2, <2>1
  <2>5. /\ x \in Seq(Event) /\ Len(x) = n + 1 /\ x[n + 1] = l.event
        /\ \A i \in 1..n : x[i] = EventsOf(q)[i]
    BY <2>2, <2>3, AppendProperties
  <2> HIDE DEF x
  <2>6. ASSUME NEW i \in 1..(n + 1) PROVE EventsOf(r)[i] = x[i]
    <3>1. CASE i = n + 1
      BY <2>1, <2>4, <2>5, <3>1
    <3>2. CASE i # n + 1
      <4>1. i \in 1..n
        BY <2>1, <3>2
      <4> QED
        BY <2>1, <2>3, <2>4, <2>5, <4>1
    <3> QED
      BY <3>1, <3>2
  <2>7. EventsOf(r) = x
    BY <2>4, <2>5, <2>6, SeqEqual
  <2> QED
    BY <2>7 DEF r, x
<1> QED
  BY <1>1, <1>2, <1>3

\* The row's turns and denials are the clock's and the gate's, and so is the
\* turn of its first denial when every verdict was logged in its turn.
LEMMA SummaryCounts ==
  ASSUME NEW q \in Seq(Line)
  PROVE  /\ SummaryOf(q).turns = Clocked(EventsOf(q)).turns
         /\ SummaryOf(q).denials = Stops(EventsOf(q)).denials
         /\ Clocked(EventsOf(q)).off = 0 => SummaryOf(q).first = Stops(EventsOf(q)).first
<1> DEFINE Same(r) ==
             /\ SummaryOf(r).turns = Clocked(EventsOf(r)).turns
             /\ SummaryOf(r).denials = Stops(EventsOf(r)).denials
             /\ Clocked(EventsOf(r)).off = 0 => SummaryOf(r).first = Stops(EventsOf(r)).first
           U == {r \in Seq(Line) : Same(r)}
<1>1. <<>> \in U
  BY SummaryGrows, EventsOfGrow, ClockGrows, StopsGrow DEF Blank, Midnight, Never
<1>2. ASSUME NEW r \in Seq(Line), NEW l \in Line, r \in U PROVE Append(r, l) \in U
  <2> DEFINE e == l.event
             s == SummaryOf(r)
             c == Clocked(EventsOf(r))
             d == Stops(EventsOf(r))
             s1 == SummaryOf(Append(r, l))
             c1 == Clocked(EventsOf(Append(r, l)))
             d1 == Stops(EventsOf(Append(r, l)))
  <2>1. e \in Event /\ EventsOf(r) \in Seq(Event) /\ Append(r, l) \in Seq(Line)
    <3>1. e \in Event
      BY DEF Line
    <3>2. EventsOf(r) \in Seq(Event)
      BY EventsOfGrow
    <3> QED
      BY <3>1, <3>2
  <2>2. s \in Row /\ c \in Clock /\ d \in StopCount
    BY <2>1, SummaryGrows, ClockGrows, StopsGrow
  <2>3. s1 = Summed(s, l) /\ c1 = Timed(c, e) /\ d1 = Stopped(d, e)
    BY <2>1, SummaryGrows, EventsOfGrow, ClockGrows, StopsGrow
  <2>4. s.turns = c.turns /\ s.denials = d.denials /\ (c.off = 0 => s.first = d.first)
    BY <1>2
  <2>5. /\ s1.turns = IF e.kind = "TurnState" THEN Later(s.turns, e.turn) ELSE s.turns
        /\ s1.denials = IF Blocks(e) THEN s.denials + 1 ELSE s.denials
        /\ s1.first = IF Blocks(e) /\ s.first = 0 THEN s.turns ELSE s.first
    BY <2>2, <2>3, SummedFields
  <2> SUFFICES s1.turns = c1.turns /\ s1.denials = d1.denials /\ (c1.off = 0 => s1.first = d1.first)
    BY <2>1
  <2> HIDE DEF s, c, d, s1, c1, d1
  <2>6. /\ c1.turns = IF e.kind = "TurnState" THEN Later(c.turns, e.turn) ELSE c.turns
        /\ c1.off = IF e.kind = "OfinVerdict" /\ e.turn # c.turns THEN c.off + 1 ELSE c.off
    BY <2>3 DEF Timed
  <2>7. /\ d1.denials = IF Blocks(e) THEN d.denials + 1 ELSE d.denials
        /\ d1.first = IF Blocks(e) /\ d.first = 0 THEN e.turn ELSE d.first
    BY <2>3 DEF Stopped
  <2>8. c1.off = 0 => c.off = 0 /\ (Blocks(e) => e.turn = c.turns)
    BY <2>2, <2>6 DEF Clock, Blocks
  <2> QED
    BY <2>4, <2>5, <2>6, <2>7, <2>8
<1> HIDE DEF U
<1>3. q \in U
  BY <1>1, <1>2, Summing!SeqSetInduction
<1> QED
  BY <1>3 DEF U

LEMMA SomeOfAppend ==
  ASSUME NEW q \in Seq(Line), NEW l \in Line, NEW A
  PROVE  (\E i \in DOMAIN Append(q, l) : Append(q, l)[i] \in A)
           <=> (\E i \in DOMAIN q : q[i] \in A) \/ l \in A
<1>1. /\ Len(q) \in Nat /\ DOMAIN Append(q, l) = 1..(Len(q) + 1) /\ DOMAIN q = 1..Len(q)
      /\ Append(q, l)[Len(q) + 1] = l /\ \A i \in 1..Len(q) : Append(q, l)[i] = q[i]
  OBVIOUS
<1>2. \A i \in 1..(Len(q) + 1) : i \in 1..Len(q) \/ i = Len(q) + 1
  BY <1>1
<1> QED
  BY <1>1, <1>2

\* The row says completed, costed and stalled when a line does.
LEMMA SummaryFlags ==
  ASSUME NEW q \in Seq(Line)
  PROVE  /\ SummaryOf(q).completed <=> \E i \in DOMAIN q : q[i] \in Completing
         /\ SummaryOf(q).costed <=> \E i \in DOMAIN q : q[i] \in Costing
         /\ SummaryOf(q).stalled <=> \E i \in DOMAIN q : q[i] \in Stalling
<1> DEFINE Says(r) == /\ SummaryOf(r).completed <=> \E i \in DOMAIN r : r[i] \in Completing
                      /\ SummaryOf(r).costed <=> \E i \in DOMAIN r : r[i] \in Costing
                      /\ SummaryOf(r).stalled <=> \E i \in DOMAIN r : r[i] \in Stalling
           U == {r \in Seq(Line) : Says(r)}
<1>1. <<>> \in U
  BY SummaryGrows DEF Blank
<1>2. ASSUME NEW r \in Seq(Line), NEW l \in Line, r \in U PROVE Append(r, l) \in U
  <2> DEFINE s == SummaryOf(r)
             t == SummaryOf(Append(r, l))
  <2>1. Append(r, l) \in Seq(Line) /\ s \in Row /\ t = Summed(s, l)
    BY SummaryGrows
  <2>2. Says(r)
    BY <1>2
  <2>3. /\ t.completed <=> s.completed \/ l \in Completing
        /\ t.costed <=> s.costed \/ l \in Costing
        /\ t.stalled <=> s.stalled \/ l \in Stalling
    BY <2>1, SummedFields
  <2>4. Says(Append(r, l))
    <3> DEFINE Has(v, A) == \E i \in DOMAIN v : v[i] \in A
    <3>1. \A A : Has(Append(r, l), A) <=> Has(r, A) \/ l \in A
      BY SomeOfAppend
    <3>2. /\ s.completed <=> Has(r, Completing)
          /\ s.costed <=> Has(r, Costing)
          /\ s.stalled <=> Has(r, Stalling)
      BY <2>2
    <3>3. SUFFICES /\ t.completed <=> Has(Append(r, l), Completing)
                   /\ t.costed <=> Has(Append(r, l), Costing)
                   /\ t.stalled <=> Has(Append(r, l), Stalling)
      OBVIOUS
    <3> HIDE DEF Has, s, t
    <3> QED
      BY <2>3, <3>1, <3>2
  <2> QED
    BY <2>1, <2>4
<1> HIDE DEF U
<1>3. q \in U
  BY <1>1, <1>2, Summing!SeqSetInduction
<1> QED
  BY <1>3 DEF U
-----------------------------------------------------------------------------
(* What the log has come to *)

\* No write failed, and the run is not one that ended at boot.
Whole == ~logErr /\ (pc = "exited" => log # <<>>)

\* Verdicts are logged in the turn the log has come to, which is the run's.
ClockInv == /\ Clocked(Events).off = 0
            /\ Whole => Clocked(Events).turns = Now

TurnsInv == /\ \A i \in DOMAIN Events : Events[i].turn <= LastTurn
            /\ \A i \in DOMAIN trail : trail[i].turn <= LastTurn

\* Only a run that is done has logged so, and the last event of one that is
\* over is the state of its StopKind in its last turn.
EndInv == /\ \A i \in DOMAIN Events : Events[i].what = "DONE" => Over /\ out.stop = "done"
          /\ Whole /\ Over => /\ log # <<>>
                              /\ Events[Len(log)] = ClosingState(LastTurn, out.stop)

LEMMA Turns ==
  LoopInv => /\ turn \in Nat /\ MaxTurns \in Nat /\ LastTurn \in 1..MaxTurns
             /\ Now \in Nat /\ Now <= LastTurn
BY ConstantsTyped DEF LoopInv, TypeOK, Now, LastTurn

LEMMA TurnSteps ==
  ASSUME LoopInv, Began, [Next]_vars
  PROVE  /\ turn' \in {turn, turn + 1}
         /\ Over => UNCHANGED <<turn, out>> /\ Over'
         /\ Over' => Over \/ pc' = "finished" \/ log' = <<>>
         /\ ~Planning => Now' = Now \/ (pc' = "exited" /\ log' = <<>>)
<1>1. CASE Boot
  BY <1>1 DEF Boot, Began, Over, Now
<1>2. CASE Planning
  BY <1>2 DEF Planning, Over
<1>3. CASE TurnLimit
  <2>1. /\ pc = "plan" /\ pc' = "finished" /\ turn' = turn /\ turn > MaxTurns
        /\ turn \in 1..(MaxTurns + 1) /\ MaxTurns \in Nat
    BY <1>3, ConstantsTyped DEF TurnLimit, InLimit, LoopInv, TypeOK
  <2> QED
    BY <2>1 DEF Over, Now, LastTurn
<1>4. CASE Complete \/ CompleteFails \/ Suspend \/ Observe
  <2>1. /\ UNCHANGED turn /\ ~Over /\ pc \notin {"boot", "plan"}
        /\ pc' \in {"finished", "gate"}
    BY <1>4 DEF Complete, CompleteFails, Refused, Answered, Finish, Suspend, Observe, Over
  <2> QED
    BY <2>1 DEF Now, LastTurn, Over
<1>5. CASE EndTurn
  <2>1. /\ pc = "gate" /\ pc' = "plan" /\ turn' = turn + 1 /\ turn <= MaxTurns
        /\ turn \in 1..(MaxTurns + 1) /\ MaxTurns \in Nat
    BY <1>5, ConstantsTyped DEF EndTurn, LoopInv, TypeOK
  <2> QED
    BY <2>1 DEF Over, Now, LastTurn
<1>6. CASE Execute \/ Exit
  BY <1>6 DEF Execute, Exit, Over, Now, LastTurn
<1>7. CASE Cancel \/ Kill \/ UNCHANGED vars
  BY <1>7 DEF Cancel, Kill, vars, Over, Now, LastTurn
<1> QED
  BY <1>1, <1>2, <1>3, <1>4, <1>5, <1>6, <1>7 DEF Next, Step

LEMMA EventsPrimed ==
  ASSUME LoopInv'
  PROVE  Events' \in Seq(Event) /\ Len(Events') = Len(log')
<1>1. LoopInv' => (Events \in Seq(Event) /\ Len(Events) = Len(log))'
  BY EventsTyped, PTL
<1> QED
  BY <1>1

\* What the log has after a step it had before, or the step logged it.
LEMMA OldOrNew ==
  ASSUME LoopInv, LoopInv', NEW evs \in Seq(Event), append(evs)
  PROVE  \A i \in DOMAIN Events' : \/ i \in DOMAIN Events /\ Events'[i] = Events[i]
                                   \/ \E j \in DOMAIN evs : Events'[i] = evs[j]
<1>1. Events \in Seq(Event) /\ Events' \in Seq(Event)
  BY EventsTyped, EventsPrimed
<1>2. CASE logErr
  <2>1. Events' = Events
    BY <1>2, EventsGrow
  <2> QED
    BY <2>1
<1>3. CASE ~logErr
  <2>1. PICK n \in 0..Len(evs) : Events' = Events \o SubSeq(evs, 1, n)
    BY <1>3, EventsGrow
  <2> DEFINE new == SubSeq(evs, 1, n)
             old == Events
  <2>2. new \in Seq(Event) /\ Len(new) = n /\ \A i \in 1..n : new[i] = evs[i] /\ i \in DOMAIN evs
    OBVIOUS
  <2>3. old \in Seq(Event) /\ DOMAIN old = 1..Len(old) /\ Len(old) \in Nat
    BY <1>1
  <2> HIDE DEF new, old
  <2>4. /\ DOMAIN Events' = 1..(Len(old) + n)
        /\ \A i \in 1..(Len(old) + n) :
             Events'[i] = IF i <= Len(old) THEN old[i] ELSE new[i - Len(old)]
    <3>1. /\ old \o new \in Seq(Event) /\ Len(old \o new) = Len(old) + Len(new)
          /\ \A i \in 1..(Len(old) + Len(new)) :
               (old \o new)[i] = IF i <= Len(old) THEN old[i] ELSE new[i - Len(old)]
      BY <2>2, <2>3, ConcatLaws, Zenon
    <3>2. Events' = old \o new
      BY <2>1 DEF old, new
    <3>3. DOMAIN Events' = 1..Len(Events')
      BY <1>1
    <3> QED
      BY <2>2, <3>1, <3>2, <3>3
  <2>5. ASSUME NEW i \in 1..(Len(old) + n)
        PROVE  \/ i \in DOMAIN old /\ Events'[i] = old[i]
               \/ \E j \in DOMAIN evs : Events'[i] = evs[j]
    <3>1. CASE i <= Len(old)
      BY <2>3, <2>4, <3>1
    <3>2. CASE ~(i <= Len(old))
      <4>1. i - Len(old) \in 1..n
        BY <2>3, <3>2
      <4>2. Events'[i] = evs[i - Len(old)] /\ i - Len(old) \in DOMAIN evs
        BY <2>2, <2>4, <3>2, <4>1
      <4> QED
        BY <4>2
    <3> QED
      BY <3>1, <3>2
  <2> QED
    BY <2>4, <2>5 DEF old
<1> QED
  BY <1>2, <1>3

LEMMA ClosingTyped ==
  ASSUME NEW t \in 0..MaxTurns, NEW kind
  PROVE  ClosingState(t, kind) \in Event /\ ClosingState(t, kind).turn = t
<1>1. "TurnState" \in EventKind /\ StopState(kind) \in What /\ 0 \in Nat
  BY DEF EventKind, What, StopState
<1>2. ClosingState(t, kind) \in Event
  BY <1>1, EvTyped DEF ClosingState
<1> QED
  BY <1>2 DEF ClosingState, Ev

LEMMA TurnsNext ==
  ASSUME LoopInv, LoopInv', Began, TurnsInv, [Next]_vars
  PROVE  TurnsInv'
<1>1. /\ LastTurn \in Nat /\ LastTurn' \in Nat /\ LastTurn <= LastTurn'
      /\ Now' \in Nat /\ Now' <= LastTurn'
  <2>1. turn \in Nat /\ turn' \in {turn, turn + 1} /\ LastTurn \in Nat /\ MaxTurns \in Nat
    BY Turns, TurnSteps
  <2>2. LoopInv' => (LastTurn \in 1..MaxTurns /\ Now \in Nat /\ Now <= LastTurn)'
    BY Turns, PTL
  <2> QED
    BY <2>1, <2>2 DEF LastTurn
<1>2. \A i \in DOMAIN Events' : Events'[i].turn <= LastTurn'
  <2>1. \A i \in DOMAIN Events : Events[i].turn <= LastTurn'
    <3>1. ASSUME NEW i \in DOMAIN Events PROVE Events[i].turn <= LastTurn'
      <4>1. Events[i] \in Event
        BY EventsTyped, ElementOfSeq
      <4>2. Events[i].turn \in Nat /\ Events[i].turn <= LastTurn
        BY <4>1, EventTurns DEF TurnsInv
      <4> QED
        BY <1>1, <4>2
    <3> QED
      BY <3>1
  <2>2. CASE Quiet
    BY <2>1, <2>2 DEF Quiet, Events
  <2>3. CASE Goes
    <3>1. PICK evs \in Seq(Event) : Plain(evs, Now') /\ append(evs)
      BY <2>3 DEF Goes
    <3>2. \A j \in DOMAIN evs : evs[j].turn <= LastTurn'
      BY <1>1, <3>1 DEF Plain
    <3> QED
      BY <2>1, <3>1, <3>2, OldOrNew
  <2>4. CASE Ends
    <3>1. PICK evs \in Seq(Event) :
            Plain(evs, Now') /\ append(Append(evs, ClosingState(Now', out'.stop)))
      BY <2>4 DEF Ends
    <3> DEFINE all == Append(evs, ClosingState(Now', out'.stop))
    <3>2. all \in Seq(Event) /\ \A j \in DOMAIN all : all[j].turn = Now'
      <4>1. Now' \in 0..MaxTurns
        BY <2>4 DEF Ends
      <4> QED
        BY <3>1, <4>1, ClosingTyped, AppendProperties DEF Plain
    <3>3. append(all)
      BY <3>1
    <3> HIDE DEF all
    <3>4. \A j \in DOMAIN all : all[j].turn <= LastTurn'
      BY <1>1, <3>2
    <3> QED
      BY <2>1, <3>2, <3>3, <3>4, OldOrNew
  <2> QED
    BY <2>2, <2>3, <2>4, StepLogs
<1>3. \A i \in DOMAIN trail' : trail'[i].turn <= LastTurn'
  <2>1. trail \in Seq(Decided) /\ \A i \in DOMAIN trail : trail[i].turn <= LastTurn'
    <3>1. trail \in Seq(Decided)
      BY DEF LoopInv, TypeOK
    <3>2. ASSUME NEW i \in DOMAIN trail PROVE trail[i].turn <= LastTurn'
      <4>1. trail[i] \in Decided
        BY <3>1, ElementOfSeq
      <4>2. trail[i].turn \in Nat /\ trail[i].turn <= LastTurn
        BY <4>1, ConstantsTyped DEF Decided, TurnsInv
      <4> QED
        BY <1>1, <4>2
    <3> QED
      BY <3>1, <3>2
  <2>2. CASE Execute
    <3> DEFINE t == [call |-> calls[k], turn |-> turn,
                     verdict |-> outcome'.decision.verdict,
                     rule |-> outcome'.decision.rule,
                     ran |-> outcome'.ran, isError |-> outcome'.result.isError]
    <3>1. trail' = Append(trail, t) /\ pc' = "observe" /\ UNCHANGED turn
      BY <2>2 DEF Execute
    <3>2. t.turn = turn
      OBVIOUS
    <3> HIDE DEF t
    <3>3. turn <= LastTurn'
      BY <3>1 DEF LoopInv, TypeOK, LastTurn
    <3>4. \A i \in DOMAIN trail' : trail'[i] = t \/ (i \in DOMAIN trail /\ trail'[i] = trail[i])
      BY <2>1, <3>1
    <3> QED
      BY <2>1, <3>2, <3>3, <3>4
  <2>3. CASE ~Execute
    <3>1. UNCHANGED trail
      BY <2>3 DEF Next, Step, vars, history, Boot, Planning, TurnLimit, Complete,
                  CompleteFails, Suspend, Observe, EndTurn, Exit, Cancel, Kill
    <3> QED
      BY <2>1, <3>1
  <2> QED
    BY <2>2, <2>3
<1> QED
  BY <1>2, <1>3 DEF TurnsInv
\* Events of the turn the log has come to do not move the clock.
LEMMA LevelStep ==
  ASSUME LoopInv, LoopInv', ClockInv, pc # "exited", Now' = Now,
         NEW evs \in Seq(Event), append(evs), \A i \in DOMAIN evs : evs[i].turn = Now
  PROVE  ClockInv'
<1>1. Events \in Seq(Event)
  BY EventsTyped
<1>2. CASE logErr
  BY <1>2, EventsGrow DEF ClockInv, Whole
<1>3. CASE ~logErr
  <2>1. PICK n \in 0..Len(evs) : Events' = Events \o SubSeq(evs, 1, n)
    BY <1>3, EventsGrow
  <2> DEFINE new == SubSeq(evs, 1, n)
  <2>2. new \in Seq(Event) /\ \A i \in DOMAIN new : new[i].turn = Now
    <3>1. new \in Seq(Event) /\ DOMAIN new = 1..n
          /\ \A i \in 1..n : new[i] = evs[i] /\ i \in DOMAIN evs
      OBVIOUS
    <3> QED
      BY <3>1
  <2>3. Clocked(Events).turns = Now
    BY <1>3 DEF ClockInv, Whole
  <2>4. Events' = Events \o new
    BY <2>1
  <2> HIDE DEF new
  <2>5. Clocked(Events \o new) = Clocked(Events)
    BY <1>1, <2>2, <2>3, LevelKeeps
  <2>6. Clocked(Events') = Clocked(Events)
    BY <2>4, <2>5
  <2> QED
    BY <2>3, <2>6 DEF ClockInv
<1> QED
  BY <1>2, <1>3

LEMMA ClockNext ==
  ASSUME LoopInv, LoopInv', Began, ClockInv, [Next]_vars
  PROVE  ClockInv'
<1>1. CASE Planning
  <2> DEFINE e == TurnState("PLANNING")
  <2>1. /\ pc = "plan" /\ pc' = "complete" /\ UNCHANGED turn /\ append(<<e>>)
        /\ turn \in 0..MaxTurns
    BY <1>1, ConstantsTyped DEF Planning, InLimit, LoopInv, TypeOK
  <2>2. e \in Event /\ e.kind = "TurnState" /\ e.turn = turn
    <3>1. "TurnState" \in EventKind /\ "PLANNING" \in What /\ 0 \in Nat
      BY DEF EventKind, What
    <3>2. e \in Event
      BY <2>1, <3>1, EvTyped DEF TurnState
    <3> QED
      BY <3>2 DEF TurnState, Ev
  <2>3. Now = turn - 1 /\ Now' = turn /\ turn \in Nat /\ Now \in Nat
    BY <2>1, Turns DEF Now, LastTurn
  <2> HIDE DEF e
  <2>4. <<e>> \in Seq(Event) /\ Len(<<e>>) = 1 /\ Events \in Seq(Event)
    BY <2>2, EventsTyped
  <2>5. CASE logErr
    BY <2>1, <2>4, <2>5, EventsGrow DEF ClockInv, Whole
  <2>6. CASE ~logErr
    <3>1. PICK n \in 0..1 : Events' = Events \o SubSeq(<<e>>, 1, n) /\ logErr' = (n < 1)
      BY <2>1, <2>4, <2>6, EventsGrow
    <3>2. Clocked(Events) \in Clock /\ Clocked(Events).off = 0 /\ Clocked(Events).turns = Now
      BY <2>1, <2>4, <2>6, ClockGrows DEF ClockInv, Whole
    <3>3. CASE n = 0
      <4>1. SubSeq(<<e>>, 1, n) = <<>>
        BY <2>4, <3>3
      <4>2. Events' = Events /\ logErr'
        <5>1. Events' = Events \o <<>>
          BY <3>1, <4>1, Zenon
        <5>2. Events \o <<>> = Events
          BY <2>4, ConcatEmptySeq
        <5>3. n < 1
          BY <3>3
        <5> QED
          BY <3>1, <5>1, <5>2, <5>3, Zenon
      <4> QED
        BY <3>2, <4>2 DEF ClockInv, Whole
    <3>4. CASE n = 1
      <4>1. SubSeq(<<e>>, 1, n) = <<e>>
        BY <2>2, <2>4, <3>4, PrefixOfSubSeq
      <4>2. Events' = Append(Events, e)
        BY <2>2, <2>4, <3>1, <4>1
      <4>3. Clocked(Events') = Timed(Clocked(Events), e)
        BY <2>2, <2>4, <4>2, ClockGrows
      <4>4. Clocked(Events').turns = turn /\ Clocked(Events').off = 0
        BY <2>2, <2>3, <3>2, <4>3 DEF Timed, Later
      <4> QED
        BY <2>3, <4>4 DEF ClockInv
    <3> QED
      BY <3>3, <3>4
  <2> QED
    BY <2>5, <2>6
<1>2. CASE ~Planning
  <2>1. Now' = Now \/ (pc' = "exited" /\ log' = <<>>)
    BY <1>2, TurnSteps
  <2>2. CASE Quiet
    <3>1. Events' = Events /\ logErr' = logErr /\ log' = log
      BY <2>2 DEF Quiet, Events
    <3>2. Whole' => Whole /\ Now' = Now
      <4>1. pc = "exited" => pc' = "exited"
        BY DEF Next, Step, vars, Boot, Planning, TurnLimit, Complete, CompleteFails,
               Execute, Suspend, Observe, EndTurn, Exit, Cancel, Kill
      <4> QED
        BY <2>1, <3>1, <4>1 DEF Whole
    <3> QED
      BY <3>1, <3>2 DEF ClockInv
  <2>3. CASE Goes
    <3>1. PICK evs \in Seq(Event) : Plain(evs, Now') /\ append(evs)
      BY <2>3 DEF Goes
    <3>2. Now' = Now /\ pc # "exited"
      BY <2>1, <2>3 DEF Goes, Over
    <3> QED
      BY <3>1, <3>2, LevelStep DEF Plain
  <2>4. CASE Ends
    <3>1. PICK evs \in Seq(Event) :
            Plain(evs, Now') /\ append(Append(evs, ClosingState(Now', out'.stop)))
      BY <2>4 DEF Ends
    <3> DEFINE all == Append(evs, ClosingState(Now', out'.stop))
    <3>2. Now' = Now /\ pc # "exited" /\ Now' \in 0..MaxTurns
      BY <2>1, <2>4 DEF Ends, Over
    <3>3. all \in Seq(Event) /\ \A j \in DOMAIN all : all[j].turn = Now
      BY <3>1, <3>2, ClosingTyped, AppendProperties DEF Plain
    <3>4. append(all)
      BY <3>1
    <3> HIDE DEF all
    <3> QED
      BY <3>2, <3>3, <3>4, LevelStep
  <2> QED
    BY <2>2, <2>3, <2>4, StepLogs
<1> QED
  BY <1>1, <1>2

LEMMA EndNext ==
  ASSUME LoopInv, LoopInv', Began, EndInv, [Next]_vars
  PROVE  EndInv'
<1>0. Events \in Seq(Event) /\ Len(Events) = Len(log)
      /\ Events' \in Seq(Event) /\ Len(Events') = Len(log')
  BY EventsTyped, EventsPrimed
<1>1. CASE Quiet
  <2>1. Events' = Events /\ logErr' = logErr /\ log' = log
    BY <1>1 DEF Quiet, Events
  <2>2. CASE Over
    <3>1. UNCHANGED <<turn, out>> /\ Over' /\ LastTurn' = LastTurn
      BY <2>2, TurnSteps DEF LastTurn
    <3>2. Whole' => Whole
      <4>1. pc = "exited" => pc' = "exited"
        BY DEF Next, Step, vars, Boot, Planning, TurnLimit, Complete, CompleteFails,
               Execute, Suspend, Observe, EndTurn, Exit, Cancel, Kill
      <4> QED
        BY <2>1, <4>1 DEF Whole
    <3> QED
      BY <2>1, <2>2, <3>1, <3>2 DEF EndInv, ClosingState
  <2>3. CASE ~Over
    <3>1. Over' => log' = <<>> /\ pc' = "exited"
      BY <1>1, <2>3, TurnSteps DEF Quiet, Over
    <3> QED
      BY <2>1, <2>3, <3>1 DEF EndInv, Whole
  <2> QED
    BY <2>2, <2>3
<1>2. CASE Goes
  <2>1. PICK evs \in Seq(Event) : Plain(evs, Now') /\ append(evs)
    BY <1>2 DEF Goes
  <2>2. \A j \in DOMAIN evs : evs[j].what # "DONE"
    BY <2>1 DEF Plain, Closes
  <2>3. \A i \in DOMAIN Events : Events[i].what # "DONE"
    BY <1>2 DEF EndInv, Goes
  <2>4. \A i \in DOMAIN Events' : Events'[i].what # "DONE"
    BY <2>1, <2>2, <2>3, OldOrNew
  <2> QED
    BY <1>2, <2>4 DEF EndInv, Goes
<1>3. CASE Ends
  <2>1. PICK evs \in Seq(Event) :
          Plain(evs, Now') /\ append(Append(evs, ClosingState(Now', out'.stop)))
    BY <1>3 DEF Ends
  <2> DEFINE last == ClosingState(Now', out'.stop)
             all == Append(evs, last)
  <2>2. Now' \in 0..MaxTurns /\ Now' = LastTurn' /\ Over' /\ ~Over
    BY <1>3 DEF Ends, Over, Now
  <2>3. last \in Event /\ (last.what = "DONE" => out'.stop = "done")
    BY <2>2, ClosingTyped DEF ClosingState, Ev, StopState
  <2>4. append(all)
    BY <2>1
  <2> HIDE DEF last
  <2>5. all \in Seq(Event) /\ Len(all) = Len(evs) + 1 /\ all[Len(all)] = last
        /\ \A j \in DOMAIN all : all[j] = last \/ (j \in DOMAIN evs /\ all[j] = evs[j])
    BY <2>3
  <2> HIDE DEF all
  <2>6. \A j \in DOMAIN all : all[j].what = "DONE" => out'.stop = "done"
    BY <2>1, <2>3, <2>5 DEF Plain, Closes
  <2>7. \A i \in DOMAIN Events : Events[i].what # "DONE"
    BY <2>2 DEF EndInv
  <2>8. \A i \in DOMAIN Events' : Events'[i].what = "DONE" => out'.stop = "done"
    BY <2>4, <2>5, <2>6, <2>7, OldOrNew
  <2>9. Whole' => log' # <<>> /\ Events'[Len(log')] = last
    <3>1. SUFFICES ASSUME ~logErr' PROVE log' # <<>> /\ Events'[Len(log')] = last
      BY DEF Whole
    <3>2. ~logErr
      BY <2>4, <2>5, <3>1, EventsGrow
    <3>3. PICK n \in 0..Len(all) : Events' = Events \o SubSeq(all, 1, n) /\ logErr' = (n < Len(all))
      BY <2>4, <2>5, <3>2, EventsGrow
    <3>4. n = Len(all) /\ Len(all) \in Nat /\ Len(all) # 0 /\ Len(Events) \in Nat
      <4>1. ~(n < Len(all))
        BY <3>1, <3>3
      <4>2. Len(evs) \in Nat /\ Len(all) = Len(evs) + 1
        BY <2>5
      <4> QED
        BY <1>0, <4>1, <4>2
    <3>5. Events' = Events \o all
      BY <2>5, <3>3, <3>4, PrefixOfSubSeq
    <3>6. /\ Len(Events \o all) = Len(Events) + Len(all)
          /\ \A i \in 1..(Len(Events) + Len(all)) :
               (Events \o all)[i] = IF i <= Len(Events) THEN Events[i] ELSE all[i - Len(Events)]
      BY <1>0, <2>5, ConcatLaws, Zenon
    <3>7. Len(log') = Len(Events) + Len(all) /\ Len(log') # 0
      BY <1>0, <3>4, <3>5, <3>6
    <3>8. Events'[Len(log')] = all[Len(all)]
      <4> DEFINE i == Len(log')
      <4>1. i \in 1..(Len(Events) + Len(all)) /\ ~(i <= Len(Events)) /\ i - Len(Events) = Len(all)
        BY <3>4, <3>7
      <4> HIDE DEF i
      <4>2. (Events \o all)[i] = all[Len(all)]
        BY <3>6, <4>1
      <4> QED
        BY <3>5, <4>2 DEF i
    <3> QED
      BY <2>5, <3>7, <3>8
  <2>10. Events'[Len(log')] = last => Events'[Len(log')] = ClosingState(LastTurn', out'.stop)
    BY <2>2 DEF last
  <2> QED
    BY <2>2, <2>8, <2>9, <2>10 DEF EndInv, ClosingState
<1> QED
  BY <1>1, <1>2, <1>3, StepLogs
\* The first n lines carry the first n events, and the last line of a run
\* that is over its StopKind.
LEMMA LinesTyped ==
  ASSUME LoopInv, NEW n \in 0..Len(log)
  PROVE  /\ Lines(n) \in Seq(Line) /\ DOMAIN Lines(n) = 1..n
         /\ \A i \in 1..n : /\ Lines(n)[i].event = Events[i]
                            /\ Lines(n)[i].detail = Detail(i)
         /\ EventsOf(Lines(n)) = SubSeq(Events, 1, n)
         /\ readSummary(n, FALSE) = SummaryOf(Lines(n))
<1>1. Events \in Seq(Event) /\ Len(Events) = Len(log) /\ Len(log) \in Nat /\ n \in Nat
      /\ out.stop \in StopKind /\ \A i \in 1..n : Events[i] = log[i].event
  BY EventsTyped DEF LoopInv, TypeOK, Events
<1>2. \A i \in 1..n : Events[i] \in Event
  BY <1>1, ElementOfSeq
<1>3. \A i : Detail(i) \in Seq(StopKind)
  BY <1>1 DEF Detail
<1>4. \A i \in 1..n : Lines(n)[i] = [event |-> Events[i], detail |-> Detail(i)]
  BY <1>1 DEF Lines
<1>5. Lines(n) \in [1..n -> Line]
  <2>1. \A i \in 1..n : [event |-> Events[i], detail |-> Detail(i)] \in Line
    BY <1>2, <1>3 DEF Line
  <2>2. Lines(n) = [i \in 1..n |-> [event |-> Events[i], detail |-> Detail(i)]]
    BY <1>1 DEF Lines
  <2> HIDE DEF Lines
  <2> QED
    BY <2>1, <2>2
<1> HIDE DEF Lines
<1>6. Lines(n) \in Seq(Line) /\ DOMAIN Lines(n) = 1..n
  BY <1>1, <1>5, IsASeq
<1>7. \A i \in 1..n : Lines(n)[i].event = Events[i] /\ Lines(n)[i].detail = Detail(i)
  <2> SUFFICES ASSUME NEW i \in 1..n
               PROVE  Lines(n)[i].event = Events[i] /\ Lines(n)[i].detail = Detail(i)
    OBVIOUS
  <2>1. Lines(n)[i] = [event |-> Events[i], detail |-> Detail(i)]
    BY <1>4
  <2> QED
    BY <2>1
<1>8. EventsOf(Lines(n)) = SubSeq(Events, 1, n)
  <2> DEFINE a == EventsOf(Lines(n))
             b == SubSeq(Events, 1, n)
  <2>1. a = [i \in 1..n |-> Events[i]]
    BY <1>6, <1>7 DEF EventsOf
  <2>2. a \in Seq(Event) /\ Len(a) = n /\ \A i \in 1..n : a[i] = Events[i]
    <3> HIDE DEF a
    <3>1. a \in [1..n -> Event] /\ \A i \in 1..n : a[i] = Events[i]
      BY <1>2, <2>1
    <3>2. a \in Seq(Event) /\ Len(a) = n
      BY <1>1, <3>1, IsASeq
    <3> QED
      BY <3>1, <3>2
  <2>3. b \in Seq(Event) /\ Len(b) = n /\ \A i \in 1..n : b[i] = Events[i]
    BY <1>1
  <2> HIDE DEF a, b
  <2>4. a = b
    BY <2>2, <2>3, SeqEqual
  <2> QED
    BY <2>4 DEF a, b
<1>9. readSummary(n, FALSE) = SummaryOf(Lines(n))
  <2>1. [Blank EXCEPT !.stalled = FALSE] = Blank
    <3>1. Blank \in Row /\ Blank.stalled = FALSE
      BY DEF Blank, Row
    <3> QED
      BY <3>1 DEF Row
  <2> QED
    BY <2>1 DEF readSummary, SummaryOf
<1> QED
  BY <1>6, <1>7, <1>8, <1>9

\* What was logged was decided: no more stops than the gate made, and once the
\* run is over with its log intact, those very stops.
LEMMA LogStops ==
  ASSUME LoopInv, AuditTrail
  PROVE  /\ Stops(Events).denials <= Cardinality(Blocked)
         /\ Cardinality(Blocked) \in Nat
         /\ pc \in {"finished", "exited"} /\ ~logErr =>
              Stops(Events) = [denials |-> Cardinality(Blocked), first |-> FirstBlocked(trail)]
<1>1. /\ trail \in Seq(Decided) /\ Happened(trail) \in Seq(Event)
      /\ Events \in Seq(Event) /\ Logged(Events) \in Seq(Event)
  BY EventsTyped, LoggedGrows, HappenedGrows DEF LoopInv, TypeOK
<1>2. Blocked = BlockedIn(trail)
  BY DEF Blocked, BlockedIn
<1>3. /\ Stops(Happened(trail)) = [denials |-> Cardinality(Blocked), first |-> FirstBlocked(trail)]
      /\ Cardinality(Blocked) \in Nat
  BY <1>1, <1>2, StopsHappened, FS_CardinalityType
<1>4. Stops(Logged(Events)) = Stops(Events)
  BY <1>1, StopsLogged
<1>5. Stops(Events).denials <= Cardinality(Blocked)
  <2>1. IsPrefix(Logged(Events), Happened(trail))
    BY DEF AuditTrail, Logged, Happened
  <2>2. PICK r \in Seq(Event) : Happened(trail) = Logged(Events) \o r
    BY <1>1, <2>1, PrefixExtends
  <2>3. Stops(Logged(Events)).denials <= Stops(Logged(Events) \o r).denials
    BY <1>1, StopsMonotone
  <2> QED
    BY <1>3, <1>4, <2>2, <2>3
<1>6. pc \in {"finished", "exited"} /\ ~logErr => Logged(Events) = Happened(trail)
  BY DEF AuditTrail, Logged, Happened
<1> QED
  BY <1>3, <1>4, <1>5, <1>6

SumInv == ClockInv /\ TurnsInv /\ EndInv

LEMMA SumAgrees == LoopInv /\ AuditTrail /\ SumInv => SummaryAgrees
<1> SUFFICES ASSUME LoopInv, AuditTrail, SumInv, pc = "exited", ~logErr, log # <<>>
             PROVE  LET s == readSummary(Len(log), FALSE)
                    IN  /\ s.turns = LastTurn
                        /\ s.denials = Cardinality(Blocked)
                        /\ s.completed <=> out.stop = "done"
                        /\ s.stalled <=> out.stop \in {"turn_limit", "error"}
                        /\ s.costed
                        /\ turnsToRecover(s) =
                             (IF Blocked = {} THEN 0 ELSE LastTurn - trail[Min(Blocked)].turn)
  BY DEF SummaryAgrees
<1> DEFINE n == Len(log)
           q == Lines(n)
           s == readSummary(n, FALSE)
           last == q[n]
<1>1. /\ n \in Nat /\ n # 0 /\ n \in 0..n /\ n \in 1..n
      /\ Events \in Seq(Event) /\ Len(Events) = n
  BY EventsTyped, EmptySeq DEF LoopInv, TypeOK
<1>2. /\ q \in Seq(Line) /\ DOMAIN q = 1..n
      /\ \A i \in 1..n : q[i].event = Events[i] /\ q[i].detail = Detail(i)
      /\ EventsOf(q) = SubSeq(Events, 1, n) /\ s = SummaryOf(q)
  BY <1>1, LinesTyped
<1>3. EventsOf(q) = Events
  BY <1>1, <1>2, PrefixOfSubSeq
<1>4. /\ Clocked(Events).off = 0 /\ Clocked(Events).turns = LastTurn
      /\ Events[n] = ClosingState(LastTurn, out.stop)
      /\ \A i \in 1..n : Events[i].what = "DONE" => out.stop = "done"
  BY <1>1 DEF SumInv, ClockInv, EndInv, Whole, Now, Over
<1>5. Stops(Events) = [denials |-> Cardinality(Blocked), first |-> FirstBlocked(trail)]
  BY LogStops
<1> HIDE DEF s, q
<1>6. s.turns = LastTurn /\ s.denials = Cardinality(Blocked) /\ s.first = FirstBlocked(trail)
  BY <1>2, <1>3, <1>4, <1>5, SummaryCounts
<1>7. /\ s.completed <=> \E i \in 1..n : q[i] \in Completing
      /\ s.costed <=> \E i \in 1..n : q[i] \in Costing
      /\ s.stalled <=> \E i \in 1..n : q[i] \in Stalling
  BY <1>2, SummaryFlags
<1>8. /\ last \in Line /\ last.event = ClosingState(LastTurn, out.stop)
      /\ last.detail = <<out.stop>> /\ out.stop \in StopKind
  <2>1. last \in Line
    BY <1>1, <1>2, ElementOfSeq
  <2>2. Detail(n) = <<out.stop>>
    BY DEF Detail
  <2> QED
    BY <1>1, <1>2, <1>4, <2>1, <2>2 DEF LoopInv, TypeOK
<1>9. /\ last.event.kind = "TurnState" /\ last.event.what \in Closing
      /\ out.stop = "done" => last.event.what = "DONE"
  BY <1>8 DEF ClosingState, Ev, StopState, Closing
<1>10. s.completed <=> out.stop = "done"
  <2>1. ASSUME out.stop = "done" PROVE s.completed
    <3>1. q[n] \in Completing
      BY <1>8, <1>9, <2>1 DEF Completing
    <3> QED
      BY <1>1, <1>7, <3>1
  <2>2. ASSUME NEW i \in 1..n, q[i] \in Completing PROVE out.stop = "done"
    BY <1>2, <1>4, <2>2 DEF Completing
  <2> QED
    BY <1>7, <2>1, <2>2
<1>11. s.costed
  <2>1. q[n] \in Costing
    BY <1>8, <1>9 DEF Costing
  <2> QED
    BY <1>1, <1>7, <2>1
<1>12. s.stalled <=> out.stop \in {"turn_limit", "error"}
  <2>1. ASSUME out.stop \in {"turn_limit", "error"} PROVE s.stalled
    <3>1. q[n] \in Stalling
      BY <1>8, <1>9, <2>1 DEF Stalling
    <3> QED
      BY <1>1, <1>7, <3>1
  <2>2. ASSUME NEW i \in 1..n, q[i] \in Stalling PROVE out.stop \in {"turn_limit", "error"}
    <3>1. Detail(i) \in {<<"turn_limit">>, <<"error">>}
      BY <1>2, <2>2 DEF Stalling
    <3>2. Detail(i) = <<out.stop>>
      BY <3>1 DEF Detail
    <3>3. <<out.stop>>[1] = out.stop /\ <<"turn_limit">>[1] = "turn_limit" /\ <<"error">>[1] = "error"
      OBVIOUS
    <3> QED
      BY <3>1, <3>2, <3>3
  <2> QED
    BY <1>7, <2>1, <2>2
<1>13. turnsToRecover(s) = (IF Blocked = {} THEN 0 ELSE LastTurn - trail[Min(Blocked)].turn)
  <2>1. Blocked = BlockedIn(trail) /\ LastTurn \in Nat
    BY Turns DEF Blocked, BlockedIn
  <2>2. CASE Blocked = {}
    BY <1>6, <2>1, <2>2 DEF turnsToRecover, FirstBlocked
  <2>3. CASE Blocked # {}
    <3> DEFINE m == Min(Blocked)
    <3>1. trail \in Seq(Decided) /\ Len(trail) \in Nat /\ Blocked \in SUBSET (1..Len(trail))
      BY DEF LoopInv, TypeOK, Blocked
    <3>2. m \in 1..Len(trail)
      BY <2>3, <3>1, LeastOf
    <3> HIDE DEF m
    <3>3. trail[m] \in Decided
      BY <3>1, <3>2, ElementOfSeq
    <3>4. trail[m].turn \in Nat /\ trail[m].turn # 0 /\ trail[m].turn <= LastTurn
      BY <3>1, <3>2, <3>3, ConstantsTyped DEF Decided, SumInv, TurnsInv
    <3>5. s.first = trail[m].turn
      BY <1>6, <2>1, <2>3 DEF FirstBlocked, m
    <3> QED
      BY <1>6, <2>1, <2>3, <3>4, <3>5 DEF turnsToRecover, m
  <2> QED
    BY <2>2, <2>3
<1> QED
  BY <1>6, <1>10, <1>11, <1>12, <1>13 DEF s

LEMMA SumNeverOverstates == LoopInv /\ AuditTrail /\ SumInv => NeverOverstates
<1> SUFFICES ASSUME LoopInv, AuditTrail, SumInv, NEW n \in 0..Len(log)
             PROVE  LET s == readSummary(n, FALSE)
                    IN  /\ s.completed => out.stop = "done" /\ pc \in {"finished", "exited"}
                        /\ s.denials <= Cardinality(Blocked)
                        /\ s.turns <= LastTurn
                        /\ s.costed => pc \in {"finished", "exited"}
                        /\ turnsToRecover(s) < LastTurn
  BY DEF NeverOverstates
<1> DEFINE q == Lines(n)
           s == readSummary(n, FALSE)
           e == SubSeq(Events, 1, n)
<1>1. /\ n \in Nat /\ Len(log) \in Nat /\ Events \in Seq(Event) /\ Len(Events) = Len(log)
      /\ DOMAIN Events = 1..Len(log) /\ \A i \in 1..n : i \in DOMAIN Events
  BY EventsTyped DEF LoopInv, TypeOK
<1>2. /\ q \in Seq(Line) /\ DOMAIN q = 1..n
      /\ \A i \in 1..n : q[i].event = Events[i] /\ q[i].detail = Detail(i)
      /\ EventsOf(q) = e /\ s = SummaryOf(q)
  BY LinesTyped
<1>3. /\ e \in Seq(Event) /\ DOMAIN e = 1..n /\ \A i \in 1..n : e[i] = Events[i]
      /\ IsPrefix(e, Events)
  BY <1>1, PrefixOfSubSeq
<1> HIDE DEF s, q, e
<1>4. s \in Row
  BY <1>2, SummaryGrows
<1>5. s.turns <= LastTurn /\ LastTurn \in Nat /\ LastTurn # 0
  <2>1. LastTurn \in Nat /\ LastTurn # 0 /\ \A i \in DOMAIN e : e[i].turn <= LastTurn
    BY <1>1, <1>3, Turns DEF SumInv, TurnsInv
  <2>2. Clocked(e).turns <= LastTurn
    BY <1>3, <2>1, ClockBounded
  <2> QED
    BY <1>2, <2>1, <2>2, SummaryCounts
<1>6. s.denials <= Cardinality(Blocked)
  <2>1. PICK r \in Seq(Event) : Events = e \o r
    BY <1>1, <1>3, PrefixExtends
  <2>2. Stops(e).denials <= Stops(Events).denials
    BY <1>3, <2>1, StopsMonotone
  <2>3. Stops(Events).denials <= Cardinality(Blocked) /\ Cardinality(Blocked) \in Nat
    BY LogStops
  <2>4. Stops(Events).denials \in Nat /\ Stops(e).denials \in Nat
    BY <1>1, <1>3, StopsGrow DEF StopCount
  <2>5. s.denials = Stops(e).denials
    BY <1>2, SummaryCounts
  <2> QED
    BY <2>2, <2>3, <2>4, <2>5
<1>7. s.completed => out.stop = "done" /\ Over
  <2>1. s.completed => \E i \in 1..n : q[i] \in Completing
    BY <1>2, SummaryFlags
  <2>2. ASSUME NEW i \in 1..n, q[i] \in Completing PROVE out.stop = "done" /\ Over
    <3>1. i \in DOMAIN Events /\ Events[i].what = "DONE"
      BY <1>1, <1>2, <2>2 DEF Completing
    <3> QED
      BY <3>1 DEF SumInv, EndInv
  <2> QED
    BY <2>1, <2>2
<1>8. s.costed => Over
  <2>1. s.costed => \E i \in 1..n : q[i] \in Costing
    BY <1>2, SummaryFlags
  <2>2. ASSUME NEW i \in 1..n, q[i] \in Costing PROVE Over
    <3>1. Detail(i) # <<>>
      BY <1>2, <2>2 DEF Costing
    <3> QED
      BY <3>1 DEF Detail, Over
  <2> QED
    BY <2>1, <2>2
<1>9. turnsToRecover(s) < LastTurn
  BY <1>4, <1>5 DEF turnsToRecover, Row
<1> QED
  BY <1>5, <1>6, <1>7, <1>8, <1>9 DEF s, Over

LEMMA SumHolds == Spec => []SumInv
<1>1. Init => SumInv
  <2> SUFFICES ASSUME Init PROVE SumInv
    OBVIOUS
  <2>1. log = <<>> /\ trail = <<>> /\ pc = "boot" /\ Events = <<>>
    BY DEF Init, Events
  <2> QED
    BY <2>1, ClockGrows DEF SumInv, ClockInv, TurnsInv, EndInv, Midnight, Now, Over
<1>2. LoopInv /\ LoopInv' /\ Began /\ SumInv /\ [Next]_vars => SumInv'
  BY ClockNext, TurnsNext, EndNext DEF SumInv
<1> QED
  BY <1>1, <1>2, BeganHolds, InvariantHolds, PTL DEF Spec

\* The row of a run that ended with its log intact says what happened in it:
\* its turns, its stops, whether it completed or stalled, its cost and how
\* many turns it went on for after the gate first stopped it
\* (summary.go:23-66).
THEOREM SummariesAgree == Spec => []SummaryAgrees
<1> QED
  BY SumAgrees, SumHolds, AuditTrailIsTrue, InvariantHolds, PTL

\* A row read from any part of a log, cut anywhere, of a run in any state,
\* claims no completion, verdict, cost or turn that was not (summary.go:23-66).
THEOREM SummariesNeverOverstate == Spec => []NeverOverstates
<1> QED
  BY SumNeverOverstates, SumHolds, AuditTrailIsTrue, InvariantHolds, PTL
=============================================================================
