---------------------------- MODULE GovernedLoop ----------------------------
(***************************************************************************)
(* What the agent loop promises, without models, logs or conversations:    *)
(* proposed calls are decided one at a time and in order by a policy fixed *)
(* at boot, a call has an effect only if the policy allows it, and a call  *)
(* that needs a person ends the run with nothing after it decided.         *)
(***************************************************************************)
EXTENDS Sequences

CONSTANT Call

Verdict == {"allow", "deny", "require_human"}

VARIABLES phase,   \* idle, deciding, acting, held or over
          policy,  \* the verdict on every call
          pending, \* proposed calls not yet decided, in order
          effects  \* calls that acted on the workspace, in order

vars == <<phase, policy, pending, effects>>

Init == /\ phase = "idle"
        /\ policy \in [Call -> Verdict]
        /\ pending = <<>>
        /\ effects = <<>>

Adopt == /\ phase = "idle"
         /\ phase' \in {"deciding", "over"}
         /\ policy' \in [Call -> Verdict]
         /\ UNCHANGED <<pending, effects>>

Propose == /\ phase = "deciding"
           /\ phase' = "acting"
           /\ pending' \in Seq(Call) \ {<<>>}
           /\ UNCHANGED <<policy, effects>>

Decide(v) == /\ phase = "acting"
             /\ pending # <<>>
             /\ policy[Head(pending)] = v
             /\ pending' = Tail(pending)
             /\ UNCHANGED policy

\* An allowed call may still have no effect: no tool has its name.
Act == /\ Decide("allow")
       /\ effects' \in {effects, Append(effects, Head(pending))}
       /\ UNCHANGED phase

Refuse == Decide("deny") /\ UNCHANGED <<phase, effects>>

Hold == Decide("require_human") /\ phase' = "held" /\ UNCHANGED effects

Observe == /\ phase = "acting"
           /\ pending = <<>>
           /\ phase' = "deciding"
           /\ UNCHANGED <<policy, pending, effects>>

Stop == /\ phase = "deciding"
        /\ phase' = "over"
        /\ UNCHANGED <<policy, pending, effects>>

Next == Adopt \/ Propose \/ Act \/ Refuse \/ Hold \/ Observe \/ Stop

Spec == Init /\ [][Next]_vars
=============================================================================
