---------------------------- MODULE MCTranscript ----------------------------
(***************************************************************************)
(* Transcript over one rule file in which a is allowed, b denied and c     *)
(* held.                                                                   *)
(***************************************************************************)
EXTENDS Transcript

rule(id, match, verdict) ==
  [id |-> id, tool |-> "bash", match |-> match, verdict |-> verdict,
   rationale |-> verdict # "allow", complete |-> TRUE]

OneFile == {<<rule(1, {"b"}, "deny"), rule(2, {"c"}, "require_human")>>}
=============================================================================
