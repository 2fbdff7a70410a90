-------------------------- MODULE RunRecordProofs ---------------------------
(***************************************************************************)
(* What a client makes of the log a run leaves, for every rule file, model *)
(* and write that fails: what it shows on the way, and at the end.         *)
(***************************************************************************)
EXTENDS AgentLoopProofs, Transcript

-----------------------------------------------------------------------------
(* What a client has on its shelves *)

StateFields ==
  {"blocks", "refs", "order", "rev", "proposed", "outcome", "nextID", "dropped",
   "state", "tone", "turn", "loading", "mode", "dirty", "approval", "command",
   "cwd", "branch", "model", "ctxLimit", "percent", "label", "cost", "forked",
   "forks", "usage", "rules", "inScope", "goals", "server", "diagnostics", "sandbox"}

BlockFields == {"id", "tag", "tone", "meta", "lines", "rev"}

AreBlocks(q) == /\ \E S : q \in Seq(S)
                /\ \A i \in 1..Len(q) : q[i] = [f \in BlockFields |-> q[i][f]]

\* A folded state: every reference has a block of its own.
Shelved(s) ==
  /\ s = [f \in StateFields |-> s[f]]
  /\ AreBlocks(s.blocks)
  /\ \A r \in DOMAIN s.order : s.order[r] \in 1..Len(s.blocks)
  /\ \A q, r \in DOMAIN s.order : s.order[q] = s.order[r] => q = r

TagOf(s, ref) == IF ref \in DOMAIN s.order THEN s.blocks[s.order[ref]].tag ELSE "nothing"

\* From s to t the blocks keep their tags and places, and the question stays.
Keeps(s, t) == /\ Shelved(t)
               /\ t.order = s.order /\ t.approval = s.approval
               /\ \A r \in DOMAIN s.order : t.blocks[t.order[r]].tag = s.blocks[s.order[r]].tag

\* From s to t a block of the tag is put under ref unless there is one.
Opens(s, t, ref, tag) ==
  /\ Shelved(t) /\ ref \in DOMAIN t.order /\ t.approval = s.approval
  /\ \A r : TagOf(t, r) = IF r = ref /\ r \notin DOMAIN s.order THEN tag ELSE TagOf(s, r)

LEMMA NewIsShelved ==
  Shelved(Client!New) /\ DOMAIN Client!New.order = {} /\ Client!New.approval = <<>>
<1>1. /\ Client!New = [f \in StateFields |-> Client!New[f]]
      /\ Client!New.blocks = <<>> /\ Client!New.order = <<>> /\ Client!New.approval = <<>>
  BY DEF Client!New, StateFields
<1>2. DOMAIN <<>> = {} /\ Len(<<>>) = 0 /\ <<>> \in Seq({})
  OBVIOUS
<1>3. \E S : Client!New.blocks \in Seq(S)
  BY <1>1, <1>2
<1> QED
  BY <1>1, <1>2, <1>3 DEF Shelved, AreBlocks

LEMMA KeepsTags ==
  ASSUME NEW s, NEW t, Keeps(s, t)
  PROVE  \A r : TagOf(t, r) = TagOf(s, r)
BY DEF Keeps, TagOf

LEMMA KeepsThrough ==
  ASSUME NEW s, NEW t, NEW u, Keeps(s, t), Keeps(t, u)
  PROVE  Keeps(s, u)
BY DEF Keeps

LEMMA KeepsSelf ==
  ASSUME NEW s, Shelved(s)
  PROVE  Keeps(s, s)
BY DEF Keeps

\* The blocks of t are those of s with another tag for the i-th, say, or none.
LEMMA OtherBlocks ==
  ASSUME NEW s, Shelved(s), NEW i \in 1..Len(s.blocks), NEW b,
         b = [f \in BlockFields |-> b[f]],
         NEW t, t = [s EXCEPT !.blocks = [s.blocks EXCEPT ![i] = b]]
  PROVE  /\ Shelved(t) /\ t.order = s.order /\ t.approval = s.approval
         /\ \A j \in 1..Len(s.blocks) : t.blocks[j] = IF j = i THEN b ELSE s.blocks[j]
<1> DEFINE q == [s.blocks EXCEPT ![i] = b]
<1>1. PICK S : s.blocks \in Seq(S)
  BY DEF Shelved, AreBlocks
<1>2. s.blocks \in Seq(S \cup {b})
  BY <1>1
<1>3. /\ q \in Seq(S \cup {b}) /\ Len(q) = Len(s.blocks)
      /\ \A j \in 1..Len(s.blocks) : q[j] = IF j = i THEN b ELSE s.blocks[j]
  BY <1>2
<1> HIDE DEF q
<1>4. t = [s EXCEPT !.blocks = q]
  BY DEF q
<1>5. /\ t = [f \in StateFields |-> t[f]]
      /\ t.blocks = q /\ t.order = s.order /\ t.approval = s.approval
  BY <1>4 DEF Shelved, StateFields
<1>6. \A j \in 1..Len(s.blocks) : s.blocks[j] = [f \in BlockFields |-> s.blocks[j][f]]
  BY DEF Shelved, AreBlocks
<1>7. \A j \in 1..Len(q) : q[j] = [f \in BlockFields |-> q[j][f]]
  BY <1>3, <1>6
<1>8. /\ \A r \in DOMAIN s.order : s.order[r] \in 1..Len(s.blocks)
      /\ \A p, r \in DOMAIN s.order : s.order[p] = s.order[r] => p = r
  BY DEF Shelved, AreBlocks
<1>9. Shelved(t)
  <2> HIDE DEF Shelved
  <2>0. t.blocks = q
    BY <1>5
  <2>1. AreBlocks(t.blocks)
    <3>1. AreBlocks(q)
      BY <1>3, <1>7 DEF AreBlocks
    <3> QED
      BY <2>0, <3>1, Zenon
  <2>2. /\ \A r \in DOMAIN t.order : t.order[r] \in 1..Len(t.blocks)
        /\ \A p, r \in DOMAIN t.order : t.order[p] = t.order[r] => p = r
    BY <1>3, <1>5, <1>8
  <2>3. t = [f \in StateFields |-> t[f]]
    BY <1>5
  <2> QED
    BY <2>1, <2>2, <2>3 DEF Shelved
<1> QED
  BY <1>3, <1>5, <1>9

LEMMA EditKeeps ==
  ASSUME NEW s, Shelved(s), NEW ref \in DOMAIN s.order, NEW v
  PROVE  /\ Keeps(s, [s EXCEPT !.blocks[s.order[ref]].rev = v])
         /\ Keeps(s, [s EXCEPT !.blocks[s.order[ref]].meta = v])
         /\ Keeps(s, [s EXCEPT !.blocks[s.order[ref]].lines = v])
         /\ Keeps(s, [s EXCEPT !.blocks[s.order[ref]].tone = v])
<1> DEFINE i == s.order[ref]
           b == s.blocks[i]
<1>1. /\ i \in 1..Len(s.blocks) /\ b = [f \in BlockFields |-> b[f]]
      /\ \A r \in DOMAIN s.order : s.order[r] \in 1..Len(s.blocks)
  BY DEF Shelved, AreBlocks
<1>2. ASSUME NEW c, c = [f \in BlockFields |-> c[f]], c.tag = b.tag
      PROVE  Keeps(s, [s EXCEPT !.blocks = [s.blocks EXCEPT ![i] = c]])
  <2> DEFINE t == [s EXCEPT !.blocks = [s.blocks EXCEPT ![i] = c]]
  <2>1. /\ Shelved(t) /\ t.order = s.order /\ t.approval = s.approval
        /\ \A j \in 1..Len(s.blocks) : t.blocks[j] = IF j = i THEN c ELSE s.blocks[j]
    BY <1>1, <1>2, OtherBlocks
  <2> HIDE DEF t, i
  <2> QED
    BY <1>1, <1>2, <2>1 DEF Keeps, t
<1>3. /\ [b EXCEPT !.rev = v] = [f \in BlockFields |-> [b EXCEPT !.rev = v][f]]
      /\ [b EXCEPT !.meta = v] = [f \in BlockFields |-> [b EXCEPT !.meta = v][f]]
      /\ [b EXCEPT !.lines = v] = [f \in BlockFields |-> [b EXCEPT !.lines = v][f]]
      /\ [b EXCEPT !.tone = v] = [f \in BlockFields |-> [b EXCEPT !.tone = v][f]]
      /\ [b EXCEPT !.rev = v].tag = b.tag /\ [b EXCEPT !.meta = v].tag = b.tag
      /\ [b EXCEPT !.lines = v].tag = b.tag /\ [b EXCEPT !.tone = v].tag = b.tag
  <2> HIDE DEF b
  <2> QED
    BY <1>1 DEF BlockFields
<1>4. /\ [s EXCEPT !.blocks[i].rev = v] = [s EXCEPT !.blocks = [s.blocks EXCEPT ![i] = [b EXCEPT !.rev = v]]]
      /\ [s EXCEPT !.blocks[i].meta = v] = [s EXCEPT !.blocks = [s.blocks EXCEPT ![i] = [b EXCEPT !.meta = v]]]
      /\ [s EXCEPT !.blocks[i].lines = v] = [s EXCEPT !.blocks = [s.blocks EXCEPT ![i] = [b EXCEPT !.lines = v]]]
      /\ [s EXCEPT !.blocks[i].tone = v] = [s EXCEPT !.blocks = [s.blocks EXCEPT ![i] = [b EXCEPT !.tone = v]]]
  OBVIOUS
<1>5. /\ Keeps(s, [s EXCEPT !.blocks = [s.blocks EXCEPT ![i] = [b EXCEPT !.rev = v]]])
      /\ Keeps(s, [s EXCEPT !.blocks = [s.blocks EXCEPT ![i] = [b EXCEPT !.meta = v]]])
      /\ Keeps(s, [s EXCEPT !.blocks = [s.blocks EXCEPT ![i] = [b EXCEPT !.lines = v]]])
      /\ Keeps(s, [s EXCEPT !.blocks = [s.blocks EXCEPT ![i] = [b EXCEPT !.tone = v]]])
  <2> HIDE DEF b, i
  <2> QED
    BY <1>2, <1>3
<1> QED
  BY <1>4, <1>5

\* Any change of the fields that file nothing and ask nothing.
LEMMA AsideKeeps ==
  ASSUME NEW s, Shelved(s), NEW t, t = [f \in StateFields |-> t[f]],
         t.blocks = s.blocks, t.order = s.order, t.approval = s.approval
  PROVE  Keeps(s, t)
BY DEF Shelved, Keeps

LEMMA TouchKeeps ==
  ASSUME NEW s, Shelved(s), NEW ref
  PROVE  Keeps(s, Client!touch(s, ref))
<1>1. CASE ref \notin DOMAIN s.order
  BY <1>1, KeepsSelf DEF Client!touch
<1>2. CASE ref \in DOMAIN s.order
  <2> DEFINE n == Client!Get(s.rev, ref, 0) + 1
             m == Client!With(s.rev, ref, n)
             i == s.order[ref]
             u == [s EXCEPT !.blocks[i].rev = n]
             t == [u EXCEPT !.rev = m]
  <2>1. Client!touch(s, ref) = [s EXCEPT !.rev = m, !.blocks[i].rev = n]
    BY <1>2 DEF Client!touch
  <2>2. Keeps(s, u)
    BY <1>2, EditKeeps
  <2> HIDE DEF n, m, i
  <2>3. [s EXCEPT !.rev = m, !.blocks[i].rev = n] = t
    BY DEF Shelved, StateFields
  <2> HIDE DEF u
  <2>4. /\ Shelved(u) /\ t = [f \in StateFields |-> t[f]]
        /\ t.blocks = u.blocks /\ t.order = u.order /\ t.approval = u.approval
    BY <2>2 DEF Keeps, Shelved, StateFields
  <2>5. Keeps(u, t)
    <3> HIDE DEF t
    <3> QED
      BY <2>4, AsideKeeps
  <2> QED
    BY <2>1, <2>2, <2>3, <2>5, KeepsThrough
<1> QED
  BY <1>1, <1>2

LEMMA RewriteKeeps ==
  ASSUME NEW s, Shelved(s), NEW ref \in DOMAIN s.order, NEW lines
  PROVE  Keeps(s, Client!Rewrite(s, ref, lines))
<1> DEFINE t == [s EXCEPT !.blocks[s.order[ref]].lines = lines]
<1>1. Keeps(s, t)
  BY EditKeeps
<1>2. Client!Rewrite(s, ref, lines) = Client!touch(t, ref)
  BY DEF Client!Rewrite
<1> HIDE DEF t
<1>3. Keeps(t, Client!touch(t, ref))
  BY <1>1, TouchKeeps DEF Keeps
<1> QED
  BY <1>1, <1>2, <1>3, KeepsThrough

LEMMA BlockOpens ==
  ASSUME NEW s, Shelved(s), NEW ref, NEW tag, NEW tone, NEW meta
  PROVE  Opens(s, Client!block(s, ref, tag, tone, meta), ref, tag)
<1>1. CASE ref \in DOMAIN s.order
  BY <1>1 DEF Client!block, Opens
<1>2. CASE ref \notin DOMAIN s.order
  <2> DEFINE n == Len(s.blocks) + 1
             b == [id |-> s.nextID + 1, tag |-> tag, tone |-> tone, meta |-> meta,
                   lines |-> <<>>, rev |-> 0]
             q == Append(s.blocks, b)
             order == Client!With(s.order, ref, n)
             refs == Append(s.refs, ref)
             id == s.nextID + 1
             t == Client!block(s, ref, tag, tone, meta)
  <2>1. t = [s EXCEPT !.nextID = id, !.blocks = q, !.refs = refs, !.order = order]
    BY <1>2 DEF Client!block, Client!trim, Client!NextID
  <2>2. PICK S : s.blocks \in Seq(S)
    BY DEF Shelved, AreBlocks
  <2>3. s.blocks \in Seq(S \cup {b})
    BY <2>2
  <2>4. b = [f \in BlockFields |-> b[f]] /\ b.tag = tag
    BY DEF BlockFields
  <2> HIDE DEF b
  <2>5. /\ q \in Seq(S \cup {b}) /\ Len(q) = n /\ n \in Nat /\ q[n] = b
        /\ \A i \in 1..Len(s.blocks) : q[i] = s.blocks[i]
        /\ \A i \in 1..n : i = n \/ i \in 1..Len(s.blocks)
        /\ n \notin 1..Len(s.blocks) /\ \A i \in 1..Len(s.blocks) : i \in 1..n
        /\ n \in 1..n
    BY <2>3
  <2>6. /\ DOMAIN order = DOMAIN s.order \cup {ref} /\ order[ref] = n
        /\ \A r \in DOMAIN s.order : order[r] = s.order[r]
    BY <1>2 DEF Client!With
  <2> HIDE DEF q, order, refs, id, t, n
  <2>7. /\ t = [f \in StateFields |-> t[f]]
        /\ t.blocks = q /\ t.order = order /\ t.approval = s.approval
    BY <2>1 DEF Shelved, StateFields
  <2>8. /\ \A i \in 1..Len(s.blocks) : s.blocks[i] = [f \in BlockFields |-> s.blocks[i][f]]
        /\ \A r \in DOMAIN s.order : s.order[r] \in 1..Len(s.blocks)
        /\ \A p, r \in DOMAIN s.order : s.order[p] = s.order[r] => p = r
    BY DEF Shelved, AreBlocks
  <2>9. \A i \in 1..n : q[i] = [f \in BlockFields |-> q[i][f]]
    BY <2>4, <2>5, <2>8
  <2>10. \A r \in DOMAIN order : order[r] \in 1..n
    BY <2>5, <2>6, <2>8
  <2>11. \A p, r \in DOMAIN order : order[p] = order[r] => p = r
    BY <2>5, <2>6, <2>8
  <2>12. Shelved(t)
    BY <2>5, <2>7, <2>9, <2>10, <2>11 DEF Shelved, AreBlocks
  <2>13. \A r : TagOf(t, r) = IF r = ref /\ r \notin DOMAIN s.order THEN tag ELSE TagOf(s, r)
    BY <1>2, <2>4, <2>5, <2>6, <2>7, <2>8 DEF TagOf
  <2> QED
    BY <2>6, <2>7, <2>12, <2>13 DEF Opens, t
<1> QED
  BY <1>1, <1>2

LEMMA OpenedKept ==
  ASSUME NEW s, NEW t, NEW u, NEW ref, NEW tag, Opens(s, t, ref, tag), Keeps(t, u)
  PROVE  Opens(s, u, ref, tag)
BY KeepsTags DEF Opens, Keeps
LEMMA KeptOpened ==
  ASSUME NEW s, NEW t, NEW u, NEW ref, NEW tag, Keeps(s, t), Opens(t, u, ref, tag)
  PROVE  Opens(s, u, ref, tag)
BY KeepsTags DEF Opens, Keeps

LEMMA OpenedRewritten ==
  ASSUME NEW s, NEW t, NEW ref, NEW tag, Opens(s, t, ref, tag), NEW lines, NEW meta
  PROVE  /\ Opens(s, Client!Rewrite(t, ref, lines), ref, tag)
         /\ Opens(s, Client!Meta(t, ref, meta), ref, tag)
<1>1. Shelved(t) /\ ref \in DOMAIN t.order
  BY DEF Opens
<1>2. Keeps(t, Client!Rewrite(t, ref, lines)) /\ Keeps(t, Client!Meta(t, ref, meta))
  BY <1>1, RewriteKeeps, EditKeeps DEF Client!Meta
<1> QED
  BY <1>2, OpenedKept

-----------------------------------------------------------------------------
(* What an event does to the shelves *)

LEMMA SessionStartedKeeps ==
  ASSUME NEW s, Shelved(s), NEW e
  PROVE  Keeps(s, Client!applySessionStarted(s, e))
<1> DEFINE t == [s EXCEPT !.command = e.sandbox, !.cwd = e.cwd, !.branch = e.branch,
                          !.model = e.model, !.ctxLimit = e.ctxLimit]
           v == Client!contextLabel(0, e.ctxLimit)
           u == [t EXCEPT !.label = v]
<1>1. Client!applySessionStarted(s, e) \in {t, u}
  BY DEF Client!applySessionStarted
<1> HIDE DEF v
<1>2. /\ t = [f \in StateFields |-> t[f]]
      /\ t.blocks = s.blocks /\ t.order = s.order /\ t.approval = s.approval
  BY DEF Shelved, StateFields
<1> HIDE DEF t
<1>3. /\ u = [f \in StateFields |-> u[f]]
      /\ u.blocks = s.blocks /\ u.order = s.order /\ u.approval = s.approval
  BY <1>2 DEF StateFields
<1> HIDE DEF u
<1>4. Keeps(s, t) /\ Keeps(s, u)
  BY <1>2, <1>3, AsideKeeps
<1> QED
  BY <1>1, <1>4

LEMMA TurnStateKeeps ==
  ASSUME NEW s, Shelved(s), NEW e
  PROVE  Keeps(s, Client!applyTurnState(s, e))
<1> DEFINE t == Client!applyTurnState(s, e)
<1>0. PICK tone, turned, dirty, mode :
        t = [s EXCEPT !.state = e.state, !.tone = tone, !.turn = turned,
                      !.loading = e.detail, !.dirty = dirty, !.mode = mode]
  BY Zenon DEF Client!applyTurnState
<1>1. /\ t = [f \in StateFields |-> t[f]]
      /\ t.blocks = s.blocks /\ t.order = s.order /\ t.approval = s.approval
  <2> HIDE DEF t
  <2> QED
    BY <1>0 DEF Shelved, StateFields
<1> HIDE DEF t
<1>2. Keeps(s, t)
  BY <1>1, AsideKeeps
<1> QED
  BY <1>2 DEF t

LEMMA HotRuleKeeps ==
  ASSUME NEW s, Shelved(s), NEW id, NEW hot
  PROVE  Keeps(s, Client!hotRule(s, id, hot))
<1> DEFINE rules == [i \in DOMAIN s.rules |-> [s.rules[i] EXCEPT !.hot = hot /\ s.rules[i].id = id]]
           t == [s EXCEPT !.rules = rules]
<1>1. Client!hotRule(s, id, hot) = t
  BY DEF Client!hotRule
<1> HIDE DEF rules
<1>2. /\ t = [f \in StateFields |-> t[f]]
      /\ t.blocks = s.blocks /\ t.order = s.order /\ t.approval = s.approval
  BY DEF Shelved, StateFields
<1> HIDE DEF t
<1> QED
  BY <1>1, <1>2, AsideKeeps

LEMMA AgentMessageOpens ==
  ASSUME NEW s, Shelved(s), NEW e
  PROVE  Opens(s, Client!applyAgentMessage(s, e), e.block, "AGENT")
<1> DEFINE t == Client!block(s, e.block, "AGENT", "agent", <<e.meta>>)
           u == IF e.meta = "" THEN t ELSE Client!Meta(t, e.block, <<e.meta>>)
           lines == Client!paragraphs(e.text)
<1>1. Opens(s, t, e.block, "AGENT")
  BY BlockOpens
<1>2. Opens(s, u, e.block, "AGENT")
  <2> HIDE DEF t
  <2> QED
    BY <1>1, OpenedRewritten
<1>3. Client!applyAgentMessage(s, e) = Client!Rewrite(u, e.block, lines)
  BY DEF Client!applyAgentMessage
<1> HIDE DEF u, lines
<1> QED
  BY <1>2, <1>3, OpenedRewritten

LEMMA ToolProposedOpens ==
  ASSUME NEW s, Shelved(s), NEW e
  PROVE  Opens(s, Client!applyToolProposed(s, e), e.block, "PROPOSED")
<1> DEFINE t == Client!block(s, e.block, "PROPOSED", "tool", <<"pending gate">>)
<1>1. Opens(s, t, e.block, "PROPOSED")
  BY BlockOpens
<1>2. PICK lines, m : Client!applyToolProposed(s, e)
                        = [Client!Rewrite(t, e.block, lines) EXCEPT !.proposed = m]
  BY Zenon DEF Client!applyToolProposed
<1> HIDE DEF t
<1> DEFINE u == Client!Rewrite(t, e.block, lines)
           v == [u EXCEPT !.proposed = m]
<1>3. Opens(s, u, e.block, "PROPOSED")
  BY <1>1, OpenedRewritten
<1> HIDE DEF u
<1>4. Shelved(u)
  BY <1>3 DEF Opens
<1>5. /\ v = [f \in StateFields |-> v[f]]
      /\ v.blocks = u.blocks /\ v.order = u.order /\ v.approval = u.approval
  BY <1>4 DEF Shelved, StateFields
<1> HIDE DEF v
<1>6. Opens(s, v, e.block, "PROPOSED")
  BY <1>3, <1>4, <1>5, AsideKeeps, OpenedKept
<1> QED
  BY <1>2, <1>6 DEF u, v

LEMMA OfinScopeOpens ==
  ASSUME NEW s, Shelved(s), NEW e, e.block # ""
  PROVE  Opens(s, Client!applyOfinScope(s, e), e.block, "OFIN")
<1> DEFINE meta == <<"scope", e.scope>>
<1>1. PICK total, rules, lines :
        Client!applyOfinScope(s, e)
          = Client!Rewrite(Client!Meta(Client!block([s EXCEPT !.inScope = total, !.rules = rules],
                                                    e.block, "OFIN", "agent", meta),
                                       e.block, meta), e.block, lines)
  BY Zenon DEF Client!applyOfinScope
<1> DEFINE t == [s EXCEPT !.inScope = total, !.rules = rules]
           u == Client!block(t, e.block, "OFIN", "agent", meta)
<1>2. /\ t = [f \in StateFields |-> t[f]]
      /\ t.blocks = s.blocks /\ t.order = s.order /\ t.approval = s.approval
  BY DEF Shelved, StateFields
<1> HIDE DEF t
<1>3. Keeps(s, t)
  BY <1>2, AsideKeeps
<1>4. Opens(s, u, e.block, "OFIN")
  BY <1>3, BlockOpens, KeptOpened DEF Keeps
<1> HIDE DEF u, meta
<1>5. Opens(s, Client!Meta(u, e.block, meta), e.block, "OFIN")
  BY <1>4, OpenedRewritten
<1>6. Opens(s, Client!Rewrite(Client!Meta(u, e.block, meta), e.block, lines), e.block, "OFIN")
  BY <1>5, OpenedRewritten
<1> QED
  BY <1>1, <1>6 DEF t, u

\* The block of the proposal that ran, or that did and was not proposed.
LEMMA ToolOutputOpens ==
  ASSUME NEW s, Shelved(s), NEW e
  PROVE  Opens(s, Client!applyToolOutput(s, e), e.block, "TOOL")
<1> DEFINE t == Client!block(s, e.block, "TOOL", "tool", <<>>)
           o == Client!Outcome(t, e.block, e.lines)
           u == [t EXCEPT !.outcome = o]
           tone == Client!toneFor(u, e.block)
           v == [u EXCEPT !.blocks[u.order[e.block]].tone = tone]
<1>1. Opens(s, t, e.block, "TOOL")
  BY BlockOpens
<1>2. PICK lines : Client!applyToolOutput(s, e) = Client!Rewrite(v, e.block, lines)
  BY Zenon DEF Client!applyToolOutput, Client!AddLines
<1> HIDE DEF t, o
<1>3. Shelved(t)
  BY <1>1 DEF Opens
<1>4. /\ u = [f \in StateFields |-> u[f]]
      /\ u.blocks = t.blocks /\ u.order = t.order /\ u.approval = t.approval
  BY <1>3 DEF Shelved, StateFields
<1> HIDE DEF u
<1>5. Opens(s, u, e.block, "TOOL")
  BY <1>1, <1>3, <1>4, AsideKeeps, OpenedKept
<1>6. Shelved(u) /\ e.block \in DOMAIN u.order
  BY <1>5 DEF Opens
<1>7. Keeps(u, v)
  <2> HIDE DEF tone
  <2> QED
    BY <1>6, EditKeeps
<1> HIDE DEF v
<1>8. Opens(s, v, e.block, "TOOL")
  BY <1>5, <1>7, OpenedKept
<1> QED
  BY <1>2, <1>8, OpenedRewritten

LEMMA ToolCompletedOpens ==
  ASSUME NEW s, Shelved(s), NEW e
  PROVE  Opens(s, Client!applyToolCompleted(s, e), e.block, "TOOL")
<1> DEFINE t == Client!block(s, e.block, "TOOL", "tool", <<>>)
           tone == IF e.status = "ok" THEN Client!toneFor(t, e.block) ELSE "deny"
           u == [t EXCEPT !.blocks[t.order[e.block]].tone = tone]
<1>1. Opens(s, t, e.block, "TOOL")
  BY BlockOpens
<1> DEFINE meta == Client!toolMeta(Client!Get(u.proposed, e.block, <<>>),
                                   Client!duration(e.duration))
           v == IF e.duration > 0 THEN Client!Meta(u, e.block, meta) ELSE u
<1> DEFINE row(c) == <<c.op, c.path>>
                     \o (IF c.summary # "" THEN <<c.summary>>
                         ELSE Client!signedChanges(c.added, c.removed))
           lines == Client!BlockOf(v, e.block).lines \o [i \in DOMAIN e.changes |-> row(e.changes[i])]
<1>2. Client!applyToolCompleted(s, e) = Client!Rewrite(v, e.block, lines)
  BY DEF Client!applyToolCompleted, Client!AddLines
<1> HIDE DEF lines
<1> HIDE DEF meta
<1> HIDE DEF t, tone
<1>3. Keeps(t, u)
  BY <1>1, EditKeeps DEF Opens
<1> HIDE DEF u
<1>4. Opens(s, u, e.block, "TOOL")
  BY <1>1, <1>3, OpenedKept
<1>5. Opens(s, v, e.block, "TOOL")
  BY <1>4, OpenedRewritten
<1> HIDE DEF v
<1> QED
  BY <1>2, <1>5, OpenedRewritten DEF v

\* The refusal of a call: what is asked of a person, if anything is.
LEMMA RefusedOpens ==
  ASSUME NEW s, Shelved(s), NEW e
  PROVE  /\ Shelved(Client!Refused(s, e))
         /\ Client!Asks(Client!Refused(s, e)) => e.verdict # "deny"
         /\ LET tag == IF e.verdict = "require_human" THEN "APPROVAL" ELSE "DENIED"
            IN  \A r : TagOf(Client!Refused(s, e), r)
                         = IF r = e.block /\ r \notin DOMAIN s.order THEN tag ELSE TagOf(s, r)
<1> DEFINE tag == IF e.verdict = "require_human" THEN "APPROVAL" ELSE "DENIED"
           tone == IF e.verdict = "require_human" THEN "human" ELSE "deny"
           meta == Client!verdictMeta(e)
           t == Client!block(s, e.block, tag, tone, meta)
           a == Client!ApprovalAfter(s, e)
           u == [t EXCEPT !.approval = a]
<1>1. Opens(s, t, e.block, tag)
  BY BlockOpens
<1>2. PICK lines : Client!Refused(s, e)
                     = Client!Rewrite(Client!Meta(u, e.block, meta), e.block, lines)
  BY Zenon DEF Client!Refused
<1>3. a # <<>> => e.verdict # "deny"
  BY DEF Client!ApprovalAfter
<1> HIDE DEF t, a, tag, tone, meta
<1>4. Shelved(t) /\ e.block \in DOMAIN t.order
  BY <1>1 DEF Opens
<1>5. /\ u = [f \in StateFields |-> u[f]]
      /\ u.blocks = t.blocks /\ u.order = t.order /\ u.approval = a
  BY <1>4 DEF Shelved, StateFields
<1> HIDE DEF u
<1>6. Shelved(u) /\ e.block \in DOMAIN u.order
  BY <1>4, <1>5 DEF Shelved
<1>7. Keeps(u, Client!Meta(u, e.block, meta))
  BY <1>6, EditKeeps DEF Client!Meta
<1> DEFINE v == Client!Meta(u, e.block, meta)
           w == Client!Rewrite(v, e.block, lines)
<1> HIDE DEF v
<1>8. Keeps(u, v) /\ Shelved(v) /\ e.block \in DOMAIN v.order
  BY <1>6, <1>7 DEF Keeps, v
<1>9. Keeps(u, w)
  BY <1>8, RewriteKeeps, KeepsThrough
<1> HIDE DEF w
<1>10. \A r : TagOf(w, r) = TagOf(u, r) /\ TagOf(u, r) = TagOf(t, r)
  BY <1>5, <1>9, KeepsTags DEF TagOf
<1>11. Client!Refused(s, e) = w
  BY <1>2 DEF v, w
<1>12. Shelved(w) /\ w.approval = a
  BY <1>5, <1>9 DEF Keeps
<1> QED
  BY <1>1, <1>3, <1>10, <1>11, <1>12 DEF Opens, tag, Client!Asks

\* An allowed proposal becomes the run.
LEMMA AllowedOpens ==
  ASSUME NEW s, Shelved(s), NEW ref
  PROVE  /\ Shelved(Client!Allowed(s, ref))
         /\ Client!Allowed(s, ref).approval = s.approval
         /\ \A r : TagOf(Client!Allowed(s, ref), r)
                     = IF r = ref /\ r \in DOMAIN s.order THEN "TOOL" ELSE TagOf(s, r)
<1>1. CASE ref \notin DOMAIN s.order
  BY <1>1 DEF Client!Allowed
<1>2. CASE ref \in DOMAIN s.order
  <2> DEFINE i == s.order[ref]
             b == [s.blocks[i] EXCEPT !.tag = "TOOL"]
             t == [s EXCEPT !.blocks = [s.blocks EXCEPT ![i] = b]]
             meta == Client!toolMeta(Client!Get(t.proposed, ref, <<>>), <<"running">>)
             u == Client!Meta(t, ref, meta)
             v == Client!Rewrite(u, ref, <<>>)
  <2>1. Client!Allowed(s, ref) = v
    <3>1. [s EXCEPT !.blocks[i].tag = "TOOL"] = t
      OBVIOUS
    <3> QED
      BY <1>2, <3>1 DEF Client!Allowed
  <2>2. /\ i \in 1..Len(s.blocks) /\ \A r \in DOMAIN s.order : s.order[r] \in 1..Len(s.blocks)
        /\ \A q, r \in DOMAIN s.order : s.order[q] = s.order[r] => q = r
        /\ s.blocks[i] = [f \in BlockFields |-> s.blocks[i][f]]
    BY <1>2 DEF Shelved, AreBlocks
  <2>3. b = [f \in BlockFields |-> b[f]] /\ b.tag = "TOOL"
    BY <2>2 DEF BlockFields
  <2> HIDE DEF b
  <2>4. /\ Shelved(t) /\ t.order = s.order /\ t.approval = s.approval
        /\ \A j \in 1..Len(s.blocks) : t.blocks[j] = IF j = i THEN b ELSE s.blocks[j]
    BY <2>2, <2>3, OtherBlocks
  <2> HIDE DEF t, meta
  <2>5. \A r : TagOf(t, r) = IF r = ref /\ r \in DOMAIN s.order THEN "TOOL" ELSE TagOf(s, r)
    BY <1>2, <2>2, <2>3, <2>4 DEF TagOf
  <2>6. Keeps(t, u)
    BY <1>2, <2>4, EditKeeps DEF Client!Meta
  <2> HIDE DEF u
  <2>7. Keeps(t, v)
    BY <1>2, <2>4, <2>6, RewriteKeeps, KeepsThrough DEF Keeps
  <2> HIDE DEF v
  <2> QED
    BY <2>1, <2>4, <2>5, <2>7, KeepsTags DEF Keeps
<1> QED
  BY <1>1, <1>2
-----------------------------------------------------------------------------
(* What the observer writes, and what a client makes of it *)

LEMMA WrittenIs ==
  ASSUME NEW e
  PROVE  /\ e.kind \in {"SessionStarted", "OfinScope", "TurnState", "AgentMessage",
                        "ToolProposed", "OfinVerdict", "ToolOutput", "ToolCompleted"}
              => Written(e).kind = e.kind
         /\ e.kind = "OfinScope" => Written(e).block = "ofin"
         /\ e.kind \in {"ToolOutput", "ToolCompleted"} =>
              Written(e).block = blockRef("tool", e.turn)
         /\ e.kind = "OfinVerdict" => /\ Written(e).block = blockRef("verdict", e.turn)
                                      /\ Written(e).proposal = blockRef("tool", e.turn)
                                      /\ Written(e).verdict = e.what
<1>1. /\ e.kind = "SessionStarted" => Written(e) = StartedLine
      /\ e.kind = "OfinScope" => Written(e) = ScopeLine
      /\ e.kind = "TurnState" => Written(e) = StateLine(e)
      /\ e.kind = "AgentMessage" => Written(e) = TextLine(e)
      /\ e.kind = "ToolProposed" => Written(e) = ProposedLine(e)
      /\ e.kind = "OfinVerdict" => Written(e) = VerdictLine(e)
      /\ e.kind = "ToolOutput" => Written(e) = OutputLine(e)
      /\ e.kind = "ToolCompleted" => Written(e) = CompletedLine(e)
  BY SMT DEF Written
<1>2. /\ StartedLine.kind = "SessionStarted"
      /\ ScopeLine.kind = "OfinScope" /\ ScopeLine.block = "ofin"
  BY DEF StartedLine, ScopeLine
<1>3. StateLine(e).kind = "TurnState" /\ TextLine(e).kind = "AgentMessage"
  BY DEF StateLine, TextLine
<1>4. ProposedLine(e).kind = "ToolProposed"
  BY DEF ProposedLine
<1>5. /\ VerdictLine(e).kind = "OfinVerdict"
      /\ VerdictLine(e).block = blockRef("verdict", e.turn)
      /\ VerdictLine(e).proposal = blockRef("tool", e.turn)
      /\ VerdictLine(e).verdict = e.what
  BY DEF VerdictLine
<1>6. /\ OutputLine(e).kind = "ToolOutput" /\ OutputLine(e).block = blockRef("tool", e.turn)
      /\ CompletedLine(e).kind = "ToolCompleted"
      /\ CompletedLine(e).block = blockRef("tool", e.turn)
  BY DEF OutputLine, CompletedLine
<1> QED
  BY <1>1, <1>2, <1>3, <1>4, <1>5, <1>6

LEMMA AppliedIs ==
  ASSUME NEW s, NEW e
  PROVE  /\ e.kind = "SessionStarted" => Client!Apply(s, e) = Client!applySessionStarted(s, e)
         /\ e.kind = "TurnState" => Client!Apply(s, e) = Client!applyTurnState(s, e)
         /\ e.kind = "AgentMessage" => Client!Apply(s, e) = Client!applyAgentMessage(s, e)
         /\ e.kind = "ToolProposed" => Client!Apply(s, e) = Client!applyToolProposed(s, e)
         /\ e.kind = "OfinScope" => Client!Apply(s, e) = Client!applyOfinScope(s, e)
         /\ e.kind = "OfinVerdict" => Client!Apply(s, e) = Client!applyOfinVerdict(s, e)
         /\ e.kind = "ToolOutput" => Client!Apply(s, e) = Client!applyToolOutput(s, e)
         /\ e.kind = "ToolCompleted" => Client!Apply(s, e) = Client!applyToolCompleted(s, e)
BY SMT DEF Client!Apply

\* Why an event puts the tag on the block of ref, for the tags that tell of a
\* decision.
Tells(e, ref, tag) ==
  /\ tag = "TOOL" => /\ ref = blockRef("tool", e.turn)
                     /\ \/ e.kind = "OfinVerdict" /\ e.what = "allow"
                        \/ e.kind \in {"ToolOutput", "ToolCompleted"}
  /\ tag = "DENIED" => /\ ref = blockRef("verdict", e.turn) /\ e.kind = "OfinVerdict"
                       /\ e.what \notin {"allow", "require_human"}
  /\ tag = "APPROVAL" => /\ ref = blockRef("verdict", e.turn)
                         /\ e.kind = "OfinVerdict" /\ e.what = "require_human"

\* A client learns of a decision from the event that tells it.
Learns(s, e, t) ==
  /\ Shelved(t)
  /\ \A r : TagOf(t, r) = TagOf(s, r) \/ Tells(e, r, TagOf(t, r))
  /\ Client!Asks(t) => Client!Asks(s) \/ (e.kind = "OfinVerdict" /\ e.what \notin {"allow", "deny"})

LEMMA KeptLearns ==
  ASSUME NEW s, NEW e, NEW t, Keeps(s, t)
  PROVE  Learns(s, e, t)
BY KeepsTags DEF Keeps, Learns, Client!Asks

LEMMA OpenedLearns ==
  ASSUME NEW s, NEW e, NEW t, NEW ref, NEW tag, Opens(s, t, ref, tag), Tells(e, ref, tag)
  PROVE  Learns(s, e, t)
BY DEF Opens, Learns, Client!Asks

LEMMA VerdictLearns ==
  ASSUME NEW s, Shelved(s), NEW e, e.kind = "OfinVerdict"
  PROVE  Learns(s, e, Client!Apply(s, Written(e)))
<1> DEFINE w == Written(e)
<1>1. /\ Client!Apply(s, w) = Client!applyOfinVerdict(s, w)
      /\ w.block = blockRef("verdict", e.turn) /\ w.proposal = blockRef("tool", e.turn)
      /\ w.verdict = e.what
  BY WrittenIs, AppliedIs
<1> HIDE DEF w
<1>2. CASE e.what = "allow"
  <2> DEFINE t == Client!Allowed(s, w.proposal)
             u == Client!hotRule(t, w.rule, FALSE)
  <2>1. Client!Apply(s, w) = u
    BY <1>1, <1>2 DEF Client!applyOfinVerdict
  <2>2. /\ Shelved(t) /\ t.approval = s.approval
        /\ \A r : TagOf(t, r) = IF r = w.proposal /\ r \in DOMAIN s.order THEN "TOOL"
                                ELSE TagOf(s, r)
    BY AllowedOpens
  <2> HIDE DEF t
  <2>3. Keeps(t, u)
    BY <2>2, HotRuleKeeps
  <2> HIDE DEF u
  <2>4. Shelved(u) /\ u.approval = s.approval /\ \A r : TagOf(u, r) = TagOf(t, r)
    BY <2>2, <2>3, KeepsTags DEF Keeps
  <2>5. Tells(e, w.proposal, "TOOL")
    BY <1>1, <1>2 DEF Tells
  <2>6. Learns(s, e, u)
    BY <2>2, <2>4, <2>5 DEF Learns, Client!Asks
  <2> QED
    BY <2>1, <2>6 DEF w
<1>3. CASE e.what # "allow"
  <2> DEFINE t == Client!Refused(s, w)
             u == Client!hotRule(t, w.rule, TRUE)
             tag == IF w.verdict = "require_human" THEN "APPROVAL" ELSE "DENIED"
  <2>1. Client!Apply(s, w) = u
    BY <1>1, <1>3 DEF Client!applyOfinVerdict
  <2>2. /\ Shelved(t) /\ (Client!Asks(t) => w.verdict # "deny")
        /\ \A r : TagOf(t, r) = IF r = w.block /\ r \notin DOMAIN s.order THEN tag
                                ELSE TagOf(s, r)
    BY RefusedOpens
  <2>3. Tells(e, w.block, tag)
    BY <1>1, <1>3 DEF Tells
  <2> HIDE DEF t, tag
  <2>4. Keeps(t, u)
    BY <2>2, HotRuleKeeps
  <2> HIDE DEF u
  <2>5. Shelved(u) /\ u.approval = t.approval /\ \A r : TagOf(u, r) = TagOf(t, r)
    BY <2>2, <2>4, KeepsTags DEF Keeps
  <2>6. Learns(s, e, u)
    BY <1>1, <1>3, <2>2, <2>3, <2>5 DEF Learns, Client!Asks
  <2> QED
    BY <2>1, <2>6 DEF w
<1> QED
  BY <1>2, <1>3

LEMMA EventLearns ==
  ASSUME NEW s, Shelved(s), NEW e \in Event
  PROVE  Learns(s, e, Client!Apply(s, Written(e)))
<1> DEFINE w == Written(e)
<1>1. e.kind \in EventKind
  BY DEF Event
<1>2. CASE e.kind \in {"SessionStarted", "TurnState"}
  <2>1. Keeps(s, Client!Apply(s, w))
    BY <1>2, WrittenIs, AppliedIs, SessionStartedKeeps, TurnStateKeeps
  <2> QED
    BY <2>1, KeptLearns
<1>3. CASE e.kind \in {"AgentMessage", "ToolProposed", "OfinScope"}
  <2>1. \A ref : \A tag \in {"AGENT", "PROPOSED", "OFIN"} : Tells(e, ref, tag)
    BY DEF Tells
  <2>2. e.kind = "OfinScope" => w.block # ""
    BY WrittenIs
  <2>3. w.kind = e.kind
    BY <1>3, WrittenIs
  <2> HIDE DEF w
  <2>4. \E tag \in {"AGENT", "PROPOSED", "OFIN"} : Opens(s, Client!Apply(s, w), w.block, tag)
    <3>1. CASE e.kind = "AgentMessage"
      BY <2>3, <3>1, AppliedIs, AgentMessageOpens
    <3>2. CASE e.kind = "ToolProposed"
      BY <2>3, <3>2, AppliedIs, ToolProposedOpens
    <3>3. CASE e.kind = "OfinScope"
      BY <2>2, <2>3, <3>3, AppliedIs, OfinScopeOpens
    <3> QED
      BY <1>3, <3>1, <3>2, <3>3
  <2> QED
    BY <2>1, <2>4, OpenedLearns DEF w
<1>4. CASE e.kind \in {"ToolOutput", "ToolCompleted"}
  <2>1. w.kind = e.kind /\ w.block = blockRef("tool", e.turn)
    BY <1>4, WrittenIs
  <2>2. Tells(e, w.block, "TOOL")
    BY <1>4, <2>1 DEF Tells
  <2> HIDE DEF w
  <2>3. Opens(s, Client!Apply(s, w), w.block, "TOOL")
    BY <1>4, <2>1, AppliedIs, ToolOutputOpens, ToolCompletedOpens
  <2> QED
    BY <2>2, <2>3, OpenedLearns DEF w
<1> QED
  BY <1>1, <1>2, <1>3, <1>4, VerdictLearns DEF EventKind

-----------------------------------------------------------------------------
(* What the log tells of the gate *)

\* A call that ran was allowed.
RanAllowed == \A i \in DOMAIN trail : trail[i].ran => trail[i].verdict = "allow"

LEMMA RanAllowedNext ==
  ASSUME LoopInv, Tied', RanAllowed, [Next]_vars
  PROVE  RanAllowed'
<1>1. CASE Execute
  <2> DEFINE t == [call |-> calls[k], turn |-> turn,
                   verdict |-> outcome'.decision.verdict,
                   rule |-> outcome'.decision.rule,
                   ran |-> outcome'.ran, isError |-> outcome'.result.isError]
  <2>1. trail \in Seq(Decided) /\ trail' = Append(trail, t) /\ pc' = "observe"
    BY <1>1 DEF Execute, LoopInv, TypeOK
  <2> HIDE DEF t
  <2>2. /\ DOMAIN trail' = 1..(Len(trail) + 1) /\ Len(trail') = Len(trail) + 1
        /\ Len(trail) \in Nat /\ DOMAIN trail = 1..Len(trail)
        /\ \A i \in 1..Len(trail) : trail'[i] = trail[i]
    BY <2>1
  <2>3. trail'[Len(trail')].ran => trail'[Len(trail')].verdict = "allow"
    BY <2>1 DEF Tied
  <2>4. ASSUME NEW i \in DOMAIN trail' PROVE trail'[i].ran => trail'[i].verdict = "allow"
    <3>1. i = Len(trail') \/ i \in DOMAIN trail
      BY <2>2
    <3> QED
      BY <2>2, <2>3, <3>1 DEF RanAllowed
  <2> QED
    BY <2>4 DEF RanAllowed
<1>2. CASE ~Execute
  <2>1. UNCHANGED trail
    BY <1>2 DEF Next, Step, vars, history, Boot, Planning, TurnLimit, CompleteFails,
                Complete, Suspend, Observe, EndTurn, Exit, Cancel, Kill
  <2> QED
    BY <2>1 DEF RanAllowed
<1> QED
  BY <1>1, <1>2

LEMMA RanAllowedHolds == Spec => []RanAllowed
<1>1. Init => RanAllowed
  BY DEF Init, RanAllowed
<1>2. LoopInv /\ Tied' /\ RanAllowed /\ [Next]_vars => RanAllowed'
  BY RanAllowedNext
<1> QED
  BY <1>1, <1>2, TiedHolds, InvariantHolds, PTL DEF Spec

\* A verdict that is logged is one of the decisions q, an output that of a
\* call among them that ran.
Stems(e, q) ==
  /\ e.kind = "OfinVerdict" =>
       \E i \in DOMAIN q : q[i].turn = e.turn /\ q[i].verdict = e.what
  /\ e.kind \in {"ToolOutput", "ToolCompleted"} =>
       \E i \in DOMAIN q : q[i].turn = e.turn /\ q[i].ran

LEMMA AuditEventsAre ==
  ASSUME NEW t \in Decided
  PROVE  LET a == Ev("OfinVerdict", t.turn, t.verdict, t.rule)
             b == Ev("ToolOutput", t.turn, Status(t.isError), 0)
             c == Ev("ToolCompleted", t.turn, Status(t.isError), 0)
         IN  AuditEvents(t) = IF t.ran THEN <<a, b, c>> ELSE <<a>>
<1>1. /\ t.turn \in 0..MaxTurns /\ t.rule \in Nat /\ t.verdict \in What
      /\ Status(t.isError) \in What /\ 0 \in Nat
      /\ "OfinVerdict" \in EventKind /\ "ToolOutput" \in EventKind /\ "ToolCompleted" \in EventKind
  BY ConstantsTyped DEF Decided, What, Verdicts, Status, EventKind
<1> DEFINE a == Ev("OfinVerdict", t.turn, t.verdict, t.rule)
           b == Ev("ToolOutput", t.turn, Status(t.isError), 0)
           c == Ev("ToolCompleted", t.turn, Status(t.isError), 0)
<1>2. a \in Event /\ b \in Event /\ c \in Event
  BY <1>1, EvTyped
<1>3. AuditEvents(t) = <<a>> \o (IF t.ran THEN <<b, c>> ELSE <<>>)
  BY DEF AuditEvents
<1> HIDE DEF a, b, c
<1>4. <<a>> \o <<>> = <<a>>
  BY <1>2
<1>5. <<a>> \o <<b, c>> = <<a, b, c>>
  <2> DEFINE p == <<a>>
             q == <<b, c>>
             r == <<a, b, c>>
  <2>1. /\ p \in Seq(Event) /\ q \in Seq(Event) /\ r \in Seq(Event)
        /\ Len(p) = 1 /\ Len(q) = 2 /\ Len(r) = 3
        /\ p[1] = a /\ q[1] = b /\ q[2] = c /\ r[1] = a /\ r[2] = b /\ r[3] = c
    BY <1>2
  <2> HIDE DEF p, q, r
  <2>2. p \o q \in Seq(Event) /\ Len(p \o q) = 3
        /\ \A i \in 1..3 : (p \o q)[i] = IF i <= 1 THEN p[i] ELSE q[i - 1]
    <3>1. /\ p \o q \in Seq(Event) /\ Len(p \o q) = Len(p) + Len(q)
          /\ \A i \in 1..(Len(p) + Len(q)) :
               (p \o q)[i] = IF i <= Len(p) THEN p[i] ELSE q[i - Len(p)]
      BY <2>1, ConcatProperties, Zenon
    <3> QED
      BY <2>1, <3>1
  <2>3. \A i \in 1..3 : (p \o q)[i] = r[i]
    BY <2>1, <2>2
  <2>4. p \o q = r
    BY <2>1, <2>2, <2>3, SeqEqual
  <2> QED
    BY <2>4 DEF p, q, r
<1>6. CASE t.ran
  BY <1>3, <1>5, <1>6 DEF a, b, c
<1>7. CASE ~t.ran
  BY <1>3, <1>4, <1>7 DEF a
<1> QED
  BY <1>6, <1>7

LEMMA AuditEventsStem ==
  ASSUME NEW t \in Decided, NEW q \in Seq(Decided)
  PROVE  \A j \in DOMAIN AuditEvents(t) : Stems(AuditEvents(t)[j], Append(q, t))
<1> DEFINE a == Ev("OfinVerdict", t.turn, t.verdict, t.rule)
           b == Ev("ToolOutput", t.turn, Status(t.isError), 0)
           c == Ev("ToolCompleted", t.turn, Status(t.isError), 0)
<1>1. Len(q) + 1 \in DOMAIN Append(q, t) /\ Append(q, t)[Len(q) + 1] = t
  OBVIOUS
<1>2. Stems(a, Append(q, t)) /\ (t.ran => Stems(b, Append(q, t)) /\ Stems(c, Append(q, t)))
  BY <1>1 DEF Stems, Ev
<1>3. AuditEvents(t) = IF t.ran THEN <<a, b, c>> ELSE <<a>>
  BY AuditEventsAre
<1> HIDE DEF a, b, c
<1> QED
  BY <1>2, <1>3

LEMMA HappenedStems ==
  ASSUME NEW q \in Seq(Decided)
  PROVE  \A j \in DOMAIN Happened(q) : Stems(Happened(q)[j], q)
<1> DEFINE U == {r \in Seq(Decided) : \A j \in DOMAIN Happened(r) : Stems(Happened(r)[j], r)}
<1>1. <<>> \in U
  BY HappenedGrows
<1>2. ASSUME NEW r \in Seq(Decided), NEW t \in Decided, r \in U PROVE Append(r, t) \in U
  <2> DEFINE h == Happened(r)
             a == AuditEvents(t)
             x == Append(r, t)
  <2>1. h \in Seq(Event) /\ a \in Seq(Event) /\ Happened(x) = h \o a
    BY HappenedGrows, AuditEventsTyped
  <2>2. x \in Seq(Decided) /\ \A i \in DOMAIN r : i \in DOMAIN x /\ x[i] = r[i]
    OBVIOUS
  <2>3. \A j \in DOMAIN a : Stems(a[j], x)
    BY AuditEventsStem
  <2>4. \A j \in DOMAIN h : Stems(h[j], x)
    BY <1>2, <2>2 DEF Stems
  <2> HIDE DEF h, a, x
  <2>5. /\ DOMAIN (h \o a) = 1..(Len(h) + Len(a)) /\ DOMAIN h = 1..Len(h) /\ DOMAIN a = 1..Len(a)
        /\ \A j \in 1..(Len(h) + Len(a)) :
             (h \o a)[j] = IF j <= Len(h) THEN h[j] ELSE a[j - Len(h)]
        /\ Len(h) \in Nat /\ Len(a) \in Nat
    BY <2>1
  <2>6. ASSUME NEW j \in DOMAIN (h \o a) PROVE Stems((h \o a)[j], x)
    <3>1. CASE j <= Len(h)
      BY <2>4, <2>5, <3>1
    <3>2. CASE ~(j <= Len(h))
      <4>1. j - Len(h) \in DOMAIN a /\ (h \o a)[j] = a[j - Len(h)]
        BY <2>5, <3>2
      <4> QED
        BY <2>3, <4>1
    <3> QED
      BY <3>1, <3>2
  <2> QED
    BY <2>1, <2>2, <2>6 DEF x
<1> HIDE DEF U
<1>3. q \in U
  BY <1>1, <1>2, Auditing!SeqSetInduction
<1> QED
  BY <1>3 DEF U

LEMMA LoggedHasAll ==
  ASSUME NEW q \in Seq(Event)
  PROVE  \A i \in DOMAIN q : q[i].kind \in GateKinds =>
           \E j \in DOMAIN Logged(q) : Logged(q)[j] = q[i]
<1> DEFINE Has(r) == \A i \in DOMAIN r : r[i].kind \in GateKinds =>
                       \E j \in DOMAIN Logged(r) : Logged(r)[j] = r[i]
           U == {r \in Seq(Event) : Has(r)}
<1>1. <<>> \in U
  OBVIOUS
<1>2. ASSUME NEW r \in Seq(Event), NEW e \in Event, r \in U PROVE Append(r, e) \in U
  <2>1. /\ Append(r, e) \in Seq(Event) /\ DOMAIN Append(r, e) = 1..(Len(r) + 1)
        /\ DOMAIN r = 1..Len(r) /\ Len(r) \in Nat /\ Append(r, e)[Len(r) + 1] = e
        /\ \A i \in DOMAIN r : Append(r, e)[i] = r[i]
    OBVIOUS
  <2>2. /\ Logged(r) \in Seq(Event)
        /\ Logged(Append(r, e)) = IF e.kind \in GateKinds THEN Append(Logged(r), e) ELSE Logged(r)
    BY LoggedGrows
  <2>3. \A j \in DOMAIN Logged(r) : /\ j \in DOMAIN Logged(Append(r, e))
                                    /\ Logged(Append(r, e))[j] = Logged(r)[j]
    BY <2>2
  <2>4. e.kind \in GateKinds => \E j \in DOMAIN Logged(Append(r, e)) : Logged(Append(r, e))[j] = e
    <3> SUFFICES ASSUME e.kind \in GateKinds
                 PROVE  \E j \in DOMAIN Logged(Append(r, e)) : Logged(Append(r, e))[j] = e
      OBVIOUS
    <3>1. Len(Logged(r)) + 1 \in DOMAIN Append(Logged(r), e)
          /\ Append(Logged(r), e)[Len(Logged(r)) + 1] = e
      BY <2>2
    <3> QED
      BY <2>2, <3>1
  <2>5. ASSUME NEW i \in DOMAIN Append(r, e), Append(r, e)[i].kind \in GateKinds
        PROVE  \E j \in DOMAIN Logged(Append(r, e)) : Logged(Append(r, e))[j] = Append(r, e)[i]
    <3>1. i = Len(r) + 1 \/ i \in DOMAIN r
      BY <2>1
    <3>2. CASE i = Len(r) + 1
      BY <2>1, <2>4, <2>5, <3>2
    <3>3. CASE i \in DOMAIN r
      <4>1. PICK j \in DOMAIN Logged(r) : Logged(r)[j] = r[i]
        BY <1>2, <2>1, <2>5, <3>3
      <4> QED
        BY <2>1, <2>3, <3>3, <4>1
    <3> QED
      BY <3>1, <3>2, <3>3
  <2> QED
    BY <2>1, <2>5
<1> HIDE DEF U
<1>3. q \in U
  BY <1>1, <1>2, Logging!SeqSetInduction
<1> QED
  BY <1>3 DEF U

LEMMA LogStems ==
  ASSUME LoopInv, AuditTrail
  PROVE  \A i \in DOMAIN log : log[i].event \in Event /\ Stems(log[i].event, trail)
<1> DEFINE p == Logged(Events)
           h == Happened(trail)
<1>1. /\ Events \in Seq(Event) /\ Len(Events) = Len(log) /\ trail \in Seq(Decided)
      /\ log \in Seq([seq : Nat, event : Event])
      /\ p \in Seq(Event) /\ h \in Seq(Event) /\ IsPrefix(p, h)
  BY EventsTyped, LoggedGrows, HappenedGrows DEF LoopInv, TypeOK, AuditTrail, Logged, Happened
<1> HIDE DEF p, h
<1>2. PICK r \in Seq(Event) : h = p \o r
  BY <1>1, PrefixExtends
<1>3. \A j \in DOMAIN p : j \in DOMAIN h /\ h[j] = p[j]
  BY <1>1, <1>2
<1>4. ASSUME NEW i \in DOMAIN log
      PROVE  log[i].event \in Event /\ Stems(log[i].event, trail)
  <2>1. log[i].event \in Event /\ i \in DOMAIN Events /\ Events[i] = log[i].event
    BY <1>1 DEF Events
  <2>2. CASE log[i].event.kind \in GateKinds
    <3>1. PICK j \in DOMAIN p : p[j] = log[i].event
      BY <1>1, <2>1, <2>2, LoggedHasAll DEF p
    <3>2. Stems(h[j], trail)
      BY <1>1, <1>3, <3>1, HappenedStems DEF h
    <3> QED
      BY <1>3, <2>1, <3>1, <3>2
  <2>3. CASE log[i].event.kind \notin GateKinds
    BY <2>1, <2>3 DEF GateKinds, Stems
  <2> QED
    BY <2>2, <2>3
<1> QED
  BY <1>4

-----------------------------------------------------------------------------
(* The client is never ahead *)

\* What the client shows of a decision the gate took, in the turn it took it;
\* a question stems from a decision that holds the run.
Known ==
  /\ Shelved(session) /\ read \in Nat
  /\ \A t \in 1..MaxTurns :
       /\ TagOf(session, blockRef("tool", t)) = "TOOL" => Decisions(t, "allow") # {}
       /\ TagOf(session, blockRef("verdict", t)) = "DENIED" => Decisions(t, "deny") # {}
       /\ TagOf(session, blockRef("verdict", t)) = "APPROVAL" =>
            Decisions(t, "require_human") # {}
  /\ Client!Asks(session) => \E i \in DOMAIN trail : trail[i].verdict = "require_human"

LEMMA AttachedRuns == AttachedSpec => Spec
<1>1. Attached => Init
  BY DEF Attached
<1>2. [AttachedNext]_<<vars, session, read>> => [Next]_vars
  BY DEF AttachedNext, Run, Deliver
<1> QED
  BY <1>1, <1>2, PTL DEF AttachedSpec, Spec

\* The trail only grows.
LEMMA TrailGrows ==
  ASSUME LoopInv, [Next]_vars
  PROVE  \A i \in DOMAIN trail : i \in DOMAIN trail' /\ trail'[i] = trail[i]
<1>1. trail \in Seq(Decided)
  BY DEF LoopInv, TypeOK
<1>2. trail' = trail \/ \E t : trail' = Append(trail, t)
  BY DEF Next, Step, vars, history, Boot, Planning, TurnLimit, CompleteFails, Execute,
         Complete, Suspend, Observe, EndTurn, Exit, Cancel, Kill
<1> QED
  BY <1>1, <1>2

LEMMA KnownRun ==
  ASSUME LoopInv, Known, [Next]_vars, UNCHANGED <<session, read>>
  PROVE  Known'
<1>1. \A t, v : Decisions(t, v) # {} => Decisions(t, v)' # {}
  BY TrailGrows DEF Decisions
<1>2. \A i \in DOMAIN trail : i \in DOMAIN trail' /\ trail'[i] = trail[i]
  BY TrailGrows
<1> QED
  BY <1>1, <1>2 DEF Known

LEMMA KnownDeliver ==
  ASSUME LoopInv, AuditTrail, RanAllowed, Known, Deliver
  PROVE  Known'
<1> DEFINE e == log[read'].event
<1>1. /\ UNCHANGED trail /\ read' \in Nat /\ read' \in DOMAIN log
      /\ session' = Client!Apply(session, Written(e))
  BY DEF Deliver, Known, vars, LoopInv, TypeOK
<1>2. e \in Event /\ Stems(e, trail)
  BY <1>1, LogStems
<1> HIDE DEF e
<1>3. Learns(session, e, session')
  BY <1>1, <1>2, EventLearns DEF Known
<1>4. e.turn \in 0..MaxTurns /\ trail \in Seq(Decided)
  BY <1>2 DEF Event, LoopInv, TypeOK
<1>5. \A kind \in {"tool", "verdict"}, t \in 1..MaxTurns :
        blockRef(kind, t) = blockRef(kind, e.turn) => t = e.turn
  <2>1. \A t \in 1..MaxTurns : t \in 0..MaxTurns
    BY ConstantsTyped
  <2> QED
    BY <1>4, <2>1, NamesDiffer DEF BlockKinds
<1>6. /\ e.kind = "OfinVerdict" => Decisions(e.turn, e.what) # {}
      /\ e.kind \in {"ToolOutput", "ToolCompleted"} => Decisions(e.turn, "allow") # {}
      /\ e.kind = "OfinVerdict" /\ e.what \notin {"allow", "require_human"} => e.what = "deny"
      /\ e.kind = "OfinVerdict" /\ e.what \notin {"allow", "deny"} => e.what = "require_human"
  <2>1. \A i \in DOMAIN trail : trail[i].verdict \in Verdicts
    <3> SUFFICES ASSUME NEW i \in DOMAIN trail PROVE trail[i].verdict \in Verdicts
      OBVIOUS
    <3>1. trail[i] \in Decided
      BY <1>4
    <3> QED
      BY <3>1 DEF Decided
  <2> QED
    BY <1>2, <2>1 DEF Stems, Decisions, RanAllowed, Verdicts
<1>7. ASSUME NEW t \in 1..MaxTurns
      PROVE  /\ TagOf(session', blockRef("tool", t)) = "TOOL" => Decisions(t, "allow") # {}
             /\ TagOf(session', blockRef("verdict", t)) = "DENIED" => Decisions(t, "deny") # {}
             /\ TagOf(session', blockRef("verdict", t)) = "APPROVAL" =>
                  Decisions(t, "require_human") # {}
  <2>1. TagOf(session', blockRef("tool", t)) = "TOOL" => Decisions(t, "allow") # {}
    BY <1>3, <1>5, <1>6 DEF Known, Learns, Tells
  <2>2. TagOf(session', blockRef("verdict", t)) = "DENIED" => Decisions(t, "deny") # {}
    BY <1>3, <1>5, <1>6 DEF Known, Learns, Tells
  <2>3. TagOf(session', blockRef("verdict", t)) = "APPROVAL" => Decisions(t, "require_human") # {}
    BY <1>3, <1>5, <1>6 DEF Known, Learns, Tells
  <2> QED
    BY <2>1, <2>2, <2>3
<1>8. Client!Asks(session') => \E i \in DOMAIN trail : trail[i].verdict = "require_human"
  BY <1>3, <1>6 DEF Known, Learns, Decisions
<1>9. \A t, v : Decisions(t, v)' = Decisions(t, v)
  BY <1>1 DEF Decisions
<1> QED
  BY <1>1, <1>3, <1>7, <1>8, <1>9 DEF Known, Learns

LEMMA KnownHolds == AttachedSpec => []Known
<1>1. Attached => Known
  <2>1. \A r : TagOf(Client!New, r) = "nothing"
    BY NewIsShelved DEF TagOf
  <2> QED
    BY <2>1, NewIsShelved DEF Attached, Known, Client!Asks
<1>2. /\ LoopInv /\ AuditTrail /\ RanAllowed /\ Known
      /\ [AttachedNext]_<<vars, session, read>>
      => Known'
  BY KnownRun, KnownDeliver DEF AttachedNext, Run
<1> QED
  BY <1>1, <1>2, AttachedRuns, InvariantHolds, AuditTrailIsTrue, RanAllowedHolds, PTL
     DEF AttachedSpec

\* However many turns a run has and however far behind it a client is, what
\* the client shows of the gate is what the gate decided
\* (eventlog.go:95-114).
THEOREM ClientsAreNeverAhead == AttachedSpec => []NeverAhead
<1>1. LoopInv /\ Known => NeverAhead
  <2> SUFFICES ASSUME LoopInv, Known PROVE NeverAhead
    OBVIOUS
  <2>1. \A ref : Shown(ref) = TagOf(session, ref)
    BY DEF Shown, TagOf, Client!BlockOf
  <2>2. Client!Asks(session) => trail # <<>> /\ Last(trail).verdict = "require_human"
    BY DEF Known, LoopInv, SuspensionIsFinal, Last, TypeOK
  <2> QED
    BY <2>1, <2>2 DEF Known, NeverAhead
<1> QED
  BY <1>1, KnownHolds, AttachedRuns, InvariantHolds, PTL

-----------------------------------------------------------------------------
(* What a client shows of a block *)

Look(tag, tone, lines) == [tag |-> tag, tone |-> tone, lines |-> lines]

LookOf(b) == Look(b.tag, b.tone, b.lines)

Face(s, ref) == IF ref \in DOMAIN s.order THEN LookOf(s.blocks[s.order[ref]])
                ELSE Look("nothing", "none", <<>>)

\* From s to t only the face of ref changes, to f.
Reshapes(s, t, ref, f) ==
  /\ Shelved(t) /\ DOMAIN t.order = DOMAIN s.order \cup {ref}
  /\ t.approval = s.approval /\ t.state = s.state /\ t.outcome = s.outcome
  /\ \A r : Face(t, r) = IF r = ref THEN f ELSE Face(s, r)

\* From s to t no face changes.
Alike(s, t) ==
  /\ Shelved(t) /\ DOMAIN t.order = DOMAIN s.order
  /\ t.approval = s.approval /\ t.state = s.state /\ t.outcome = s.outcome
  /\ \A r : Face(t, r) = Face(s, r)

LEMMA AlikeThrough ==
  ASSUME NEW s, NEW t, NEW u, Alike(s, t), Alike(t, u)
  PROVE  Alike(s, u)
BY DEF Alike

LEMMA ReshapedAlike ==
  ASSUME NEW s, NEW t, NEW u, NEW ref, NEW f, Reshapes(s, t, ref, f), Alike(t, u)
  PROVE  Reshapes(s, u, ref, f)
BY DEF Reshapes, Alike

LEMMA AlikeReshaped ==
  ASSUME NEW s, NEW t, NEW u, NEW ref, NEW f, Alike(s, t), Reshapes(t, u, ref, f)
  PROVE  Reshapes(s, u, ref, f)
BY DEF Reshapes, Alike

LEMMA ReshapedTwice ==
  ASSUME NEW s, NEW t, NEW u, NEW ref, NEW f, NEW g, Reshapes(s, t, ref, f), Reshapes(t, u, ref, g)
  PROVE  Reshapes(s, u, ref, g)
BY DEF Reshapes

LEMMA AsideAlike ==
  ASSUME NEW s, Shelved(s), NEW t, t = [f \in StateFields |-> t[f]],
         t.blocks = s.blocks, t.order = s.order
  PROVE  Shelved(t) /\ \A r : Face(t, r) = Face(s, r)
BY DEF Shelved, Face

LEMMA AlikeSelf ==
  ASSUME NEW s, Shelved(s)
  PROVE  Alike(s, s)
BY DEF Alike

LEMMA Looks ==
  /\ \A x, y, z : Look(x, y, z).tag = x /\ Look(x, y, z).tone = y /\ Look(x, y, z).lines = z
  /\ \A s, ref : Face(s, ref) = Look(Face(s, ref).tag, Face(s, ref).tone, Face(s, ref).lines)
BY DEF Look, LookOf, Face

LEMMA EditReshapes ==
  ASSUME NEW s, Shelved(s), NEW ref \in DOMAIN s.order, NEW v
  PROVE  LET f == Face(s, ref)
         IN  /\ Alike(s, [s EXCEPT !.blocks[s.order[ref]].rev = v])
             /\ Alike(s, [s EXCEPT !.blocks[s.order[ref]].meta = v])
             /\ Reshapes(s, [s EXCEPT !.blocks[s.order[ref]].lines = v], ref,
                         Look(f.tag, f.tone, v))
             /\ Reshapes(s, [s EXCEPT !.blocks[s.order[ref]].tone = v], ref,
                         Look(f.tag, v, f.lines))
             /\ Reshapes(s, [s EXCEPT !.blocks[s.order[ref]].tag = v], ref,
                         Look(v, f.tone, f.lines))
<1> DEFINE i == s.order[ref]
           b == s.blocks[i]
           with(c) == [s EXCEPT !.blocks = [s.blocks EXCEPT ![i] = c]]
<1>1. /\ i \in 1..Len(s.blocks) /\ b = [f \in BlockFields |-> b[f]]
      /\ \A r \in DOMAIN s.order : s.order[r] \in 1..Len(s.blocks)
      /\ \A q, r \in DOMAIN s.order : s.order[q] = s.order[r] => q = r
  BY DEF Shelved, AreBlocks
<1>2. ASSUME NEW c, c = [f \in BlockFields |-> c[f]]
      PROVE  Reshapes(s, with(c), ref, LookOf(c))
  <2> DEFINE t == with(c)
  <2>1. /\ Shelved(t) /\ t.order = s.order /\ t.approval = s.approval
        /\ \A j \in 1..Len(s.blocks) : t.blocks[j] = IF j = i THEN c ELSE s.blocks[j]
    BY <1>1, <1>2, OtherBlocks
  <2>2. t.state = s.state /\ t.outcome = s.outcome
    BY DEF Shelved, StateFields
  <2> HIDE DEF t
  <2>3. Face(t, ref) = LookOf(c)
    <3>1. t.blocks[t.order[ref]] = c
      BY <1>1, <2>1
    <3> QED
      BY <2>1, <3>1 DEF Face
  <2>4. ASSUME NEW r, r # ref PROVE Face(t, r) = Face(s, r)
    <3>1. r \in DOMAIN s.order => s.order[r] # i /\ s.order[r] \in 1..Len(s.blocks)
      BY <1>1, <2>4
    <3> HIDE DEF i
    <3>2. r \in DOMAIN s.order => t.blocks[t.order[r]] = s.blocks[s.order[r]]
      BY <2>1, <3>1
    <3> QED
      BY <2>1, <3>2 DEF Face
  <2> QED
    BY <2>1, <2>2, <2>3, <2>4 DEF Reshapes, t
<1>3. /\ [s EXCEPT !.blocks[i].rev = v] = with([b EXCEPT !.rev = v])
      /\ [s EXCEPT !.blocks[i].meta = v] = with([b EXCEPT !.meta = v])
      /\ [s EXCEPT !.blocks[i].lines = v] = with([b EXCEPT !.lines = v])
      /\ [s EXCEPT !.blocks[i].tone = v] = with([b EXCEPT !.tone = v])
      /\ [s EXCEPT !.blocks[i].tag = v] = with([b EXCEPT !.tag = v])
  OBVIOUS
<1>4. Face(s, ref) = LookOf(b)
  BY DEF Face
<1> HIDE DEF b, with
<1>5. /\ [b EXCEPT !.rev = v] = [f \in BlockFields |-> [b EXCEPT !.rev = v][f]]
      /\ [b EXCEPT !.meta = v] = [f \in BlockFields |-> [b EXCEPT !.meta = v][f]]
      /\ [b EXCEPT !.lines = v] = [f \in BlockFields |-> [b EXCEPT !.lines = v][f]]
      /\ [b EXCEPT !.tone = v] = [f \in BlockFields |-> [b EXCEPT !.tone = v][f]]
      /\ [b EXCEPT !.tag = v] = [f \in BlockFields |-> [b EXCEPT !.tag = v][f]]
  BY <1>1 DEF BlockFields
<1>6. /\ LookOf([b EXCEPT !.rev = v]) = LookOf(b)
      /\ LookOf([b EXCEPT !.meta = v]) = LookOf(b)
      /\ LookOf([b EXCEPT !.lines = v]) = Look(b.tag, b.tone, v)
      /\ LookOf([b EXCEPT !.tone = v]) = Look(b.tag, v, b.lines)
      /\ LookOf([b EXCEPT !.tag = v]) = Look(v, b.tone, b.lines)
  BY <1>1 DEF BlockFields, LookOf, Look
<1>7. Face(s, ref).tag = b.tag /\ Face(s, ref).tone = b.tone /\ Face(s, ref).lines = b.lines
  BY <1>4 DEF LookOf, Look
<1>8. \A c : Reshapes(s, with(c), ref, LookOf(b)) => Alike(s, with(c))
  BY <1>4 DEF Reshapes, Alike
<1> HIDE DEF i
<1>9. Alike(s, with([b EXCEPT !.rev = v])) /\ Alike(s, with([b EXCEPT !.meta = v]))
  BY <1>2, <1>5, <1>6, <1>8
<1>10. Reshapes(s, with([b EXCEPT !.lines = v]), ref, Look(b.tag, b.tone, v))
  BY <1>2, <1>5, <1>6
<1>11. Reshapes(s, with([b EXCEPT !.tone = v]), ref, Look(b.tag, v, b.lines))
  BY <1>2, <1>5, <1>6
<1>12. Reshapes(s, with([b EXCEPT !.tag = v]), ref, Look(v, b.tone, b.lines))
  BY <1>2, <1>5, <1>6
<1> QED
  BY <1>3, <1>7, <1>9, <1>10, <1>11, <1>12 DEF i

LEMMA TouchAlike ==
  ASSUME NEW s, Shelved(s), NEW ref
  PROVE  Alike(s, Client!touch(s, ref))
<1>1. CASE ref \notin DOMAIN s.order
  BY <1>1, AlikeSelf DEF Client!touch
<1>2. CASE ref \in DOMAIN s.order
  <2> DEFINE n == Client!Get(s.rev, ref, 0) + 1
             m == Client!With(s.rev, ref, n)
             i == s.order[ref]
             u == [s EXCEPT !.blocks[i].rev = n]
             t == [u EXCEPT !.rev = m]
  <2>1. Client!touch(s, ref) = [s EXCEPT !.rev = m, !.blocks[i].rev = n]
    BY <1>2 DEF Client!touch
  <2>2. Alike(s, u)
    BY <1>2, EditReshapes
  <2> HIDE DEF n, m, i
  <2>3. [s EXCEPT !.rev = m, !.blocks[i].rev = n] = t
    BY DEF Shelved, StateFields
  <2> HIDE DEF u
  <2>4. /\ Shelved(u) /\ t = [f \in StateFields |-> t[f]]
        /\ t.blocks = u.blocks /\ t.order = u.order /\ t.approval = u.approval
        /\ t.state = u.state /\ t.outcome = u.outcome
    BY <2>2 DEF Alike, Shelved, StateFields
  <2>5. Alike(u, t)
    <3> HIDE DEF t
    <3> QED
      BY <2>4, AsideAlike DEF Alike
  <2> QED
    BY <2>1, <2>2, <2>3, <2>5, AlikeThrough
<1> QED
  BY <1>1, <1>2

LEMMA MetaAlike ==
  ASSUME NEW s, Shelved(s), NEW ref \in DOMAIN s.order, NEW meta
  PROVE  Alike(s, Client!Meta(s, ref, meta))
BY EditReshapes DEF Client!Meta

LEMMA RewriteReshapes ==
  ASSUME NEW s, Shelved(s), NEW ref \in DOMAIN s.order, NEW lines
  PROVE  Reshapes(s, Client!Rewrite(s, ref, lines), ref,
                  Look(Face(s, ref).tag, Face(s, ref).tone, lines))
<1> DEFINE t == [s EXCEPT !.blocks[s.order[ref]].lines = lines]
           f == Look(Face(s, ref).tag, Face(s, ref).tone, lines)
<1>1. Reshapes(s, t, ref, f)
  BY EditReshapes
<1>2. Client!Rewrite(s, ref, lines) = Client!touch(t, ref)
  BY DEF Client!Rewrite
<1> HIDE DEF t, f
<1>3. Alike(t, Client!touch(t, ref))
  BY <1>1, TouchAlike DEF Reshapes
<1> QED
  BY <1>1, <1>2, <1>3, ReshapedAlike DEF f

LEMMA BlockReshapes ==
  ASSUME NEW s, Shelved(s), NEW ref, NEW tag, NEW tone, NEW meta
  PROVE  /\ Reshapes(s, Client!block(s, ref, tag, tone, meta), ref,
                     IF ref \in DOMAIN s.order THEN Face(s, ref) ELSE Look(tag, tone, <<>>))
         /\ ref \in DOMAIN s.order => Client!block(s, ref, tag, tone, meta) = s
<1>1. CASE ref \in DOMAIN s.order
  BY <1>1 DEF Client!block, Reshapes
<1>2. CASE ref \notin DOMAIN s.order
  <2> DEFINE n == Len(s.blocks) + 1
             b == [id |-> s.nextID + 1, tag |-> tag, tone |-> tone, meta |-> meta,
                   lines |-> <<>>, rev |-> 0]
             q == Append(s.blocks, b)
             order == Client!With(s.order, ref, n)
             refs == Append(s.refs, ref)
             id == s.nextID + 1
             t == Client!block(s, ref, tag, tone, meta)
  <2>1. t = [s EXCEPT !.nextID = id, !.blocks = q, !.refs = refs, !.order = order]
    BY <1>2 DEF Client!block, Client!trim, Client!NextID
  <2>2. Shelved(t)
    BY BlockOpens DEF Opens
  <2>3. PICK S : s.blocks \in Seq(S)
    BY DEF Shelved, AreBlocks
  <2>4. s.blocks \in Seq(S \cup {b})
    BY <2>3
  <2>5. LookOf(b) = Look(tag, tone, <<>>)
    BY DEF LookOf
  <2> HIDE DEF b
  <2>6. /\ n \in Nat /\ q[n] = b /\ \A i \in 1..Len(s.blocks) : q[i] = s.blocks[i]
    BY <2>4
  <2>7. /\ DOMAIN order = DOMAIN s.order \cup {ref} /\ order[ref] = n
        /\ \A r \in DOMAIN s.order : order[r] = s.order[r]
    BY <1>2 DEF Client!With
  <2> HIDE DEF q, order, refs, id, t, n
  <2>8. /\ t.blocks = q /\ t.order = order /\ t.approval = s.approval
        /\ t.state = s.state /\ t.outcome = s.outcome
    BY <2>1 DEF Shelved, StateFields
  <2>9. \A r \in DOMAIN s.order : s.order[r] \in 1..Len(s.blocks)
    BY DEF Shelved
  <2>10. \A r : Face(t, r) = IF r = ref THEN Look(tag, tone, <<>>) ELSE Face(s, r)
    BY <1>2, <2>5, <2>6, <2>7, <2>8, <2>9 DEF Face
  <2> QED
    BY <1>2, <2>2, <2>7, <2>8, <2>10 DEF Reshapes, t
<1> QED
  BY <1>1, <1>2

\* A block that is there, or made, and then written on.
LEMMA BlockRewritten ==
  ASSUME NEW s, Shelved(s), NEW ref, NEW tag, NEW tone, NEW meta, NEW t, NEW lines,
         Alike(Client!block(s, ref, tag, tone, meta), t)
  PROVE  Reshapes(s, Client!Rewrite(t, ref, lines), ref,
                  IF ref \in DOMAIN s.order THEN Look(Face(s, ref).tag, Face(s, ref).tone, lines)
                  ELSE Look(tag, tone, lines))
<1> DEFINE u == Client!block(s, ref, tag, tone, meta)
           f == IF ref \in DOMAIN s.order THEN Face(s, ref) ELSE Look(tag, tone, <<>>)
<1>1. Reshapes(s, u, ref, f) /\ Alike(u, t)
  BY BlockReshapes
<1> HIDE DEF u, f
<1>2. Reshapes(s, t, ref, f)
  BY <1>1, ReshapedAlike
<1>3. Shelved(t) /\ ref \in DOMAIN t.order /\ Face(t, ref) = f
  BY <1>2 DEF Reshapes
<1>4. Reshapes(t, Client!Rewrite(t, ref, lines), ref, Look(f.tag, f.tone, lines))
  BY <1>3, RewriteReshapes
<1>5. Reshapes(s, Client!Rewrite(t, ref, lines), ref, Look(f.tag, f.tone, lines))
  BY <1>2, <1>4, ReshapedTwice
<1>6. CASE ref \in DOMAIN s.order
  BY <1>5, <1>6 DEF f
<1>7. CASE ref \notin DOMAIN s.order
  <2>1. f.tag = tag /\ f.tone = tone
    BY <1>7, Looks DEF f
  <2> QED
    BY <1>5, <1>7, <2>1
<1> QED
  BY <1>6, <1>7

LEMMA SessionStartedAlike ==
  ASSUME NEW s, Shelved(s), NEW e
  PROVE  Alike(s, Client!applySessionStarted(s, e))
<1> DEFINE t == [s EXCEPT !.command = e.sandbox, !.cwd = e.cwd, !.branch = e.branch,
                          !.model = e.model, !.ctxLimit = e.ctxLimit]
           v == Client!contextLabel(0, e.ctxLimit)
           u == [t EXCEPT !.label = v]
<1>1. Client!applySessionStarted(s, e) \in {t, u}
  BY DEF Client!applySessionStarted
<1> HIDE DEF v
<1>2. /\ t = [f \in StateFields |-> t[f]]
      /\ t.blocks = s.blocks /\ t.order = s.order /\ t.approval = s.approval
      /\ t.state = s.state /\ t.outcome = s.outcome
  BY DEF Shelved, StateFields
<1> HIDE DEF t
<1>3. /\ u = [f \in StateFields |-> u[f]]
      /\ u.blocks = s.blocks /\ u.order = s.order /\ u.approval = s.approval
      /\ u.state = s.state /\ u.outcome = s.outcome
  BY <1>2 DEF StateFields
<1> HIDE DEF u
<1>4. Alike(s, t) /\ Alike(s, u)
  BY <1>2, <1>3, AsideAlike DEF Alike
<1> QED
  BY <1>1, <1>4

LEMMA TurnStateStates ==
  ASSUME NEW s, Shelved(s), NEW e
  PROVE  LET t == Client!applyTurnState(s, e)
         IN  /\ Shelved(t) /\ t.order = s.order /\ \A r : Face(t, r) = Face(s, r)
             /\ t.state = e.state /\ t.approval = s.approval /\ t.outcome = s.outcome
<1> DEFINE t == Client!applyTurnState(s, e)
<1>0. PICK tone, turned, dirty, mode :
        t = [s EXCEPT !.state = e.state, !.tone = tone, !.turn = turned,
                      !.loading = e.detail, !.dirty = dirty, !.mode = mode]
  BY Zenon DEF Client!applyTurnState
<1> HIDE DEF t
<1>1. /\ t = [f \in StateFields |-> t[f]]
      /\ t.blocks = s.blocks /\ t.order = s.order /\ t.approval = s.approval
      /\ t.state = e.state /\ t.outcome = s.outcome
  BY <1>0 DEF Shelved, StateFields
<1> QED
  BY <1>1, AsideAlike DEF t

LEMMA HotRuleAlike ==
  ASSUME NEW s, Shelved(s), NEW id, NEW hot
  PROVE  Alike(s, Client!hotRule(s, id, hot))
<1> DEFINE rules == [i \in DOMAIN s.rules |-> [s.rules[i] EXCEPT !.hot = hot /\ s.rules[i].id = id]]
           t == [s EXCEPT !.rules = rules]
<1>1. Client!hotRule(s, id, hot) = t
  BY DEF Client!hotRule
<1> HIDE DEF rules
<1>2. /\ t = [f \in StateFields |-> t[f]]
      /\ t.blocks = s.blocks /\ t.order = s.order /\ t.approval = s.approval
      /\ t.state = s.state /\ t.outcome = s.outcome
  BY DEF Shelved, StateFields
<1> HIDE DEF t
<1> QED
  BY <1>1, <1>2, AsideAlike DEF Alike

LEMMA AgentMessageReshapes ==
  ASSUME NEW s, Shelved(s), NEW e
  PROVE  \E f : Reshapes(s, Client!applyAgentMessage(s, e), e.block, f)
<1> DEFINE t == Client!block(s, e.block, "AGENT", "agent", <<e.meta>>)
           u == IF e.meta = "" THEN t ELSE Client!Meta(t, e.block, <<e.meta>>)
           lines == Client!paragraphs(e.text)
<1>1. Client!applyAgentMessage(s, e) = Client!Rewrite(u, e.block, lines)
  BY DEF Client!applyAgentMessage
<1> HIDE DEF lines
<1>2. Shelved(t) /\ e.block \in DOMAIN t.order
  BY BlockReshapes DEF Reshapes
<1>3. Alike(t, u)
  <2> HIDE DEF t
  <2> QED
    BY <1>2, MetaAlike, AlikeSelf
<1> HIDE DEF u
<1>4. \E f : Reshapes(s, Client!Rewrite(u, e.block, lines), e.block, f)
  BY <1>3, BlockRewritten
<1> QED
  BY <1>1, <1>4

LEMMA OfinScopeReshapes ==
  ASSUME NEW s, Shelved(s), NEW e, e.block # ""
  PROVE  \E f : Reshapes(s, Client!applyOfinScope(s, e), e.block, f)
<1> DEFINE meta == <<"scope", e.scope>>
<1>1. PICK total, rules, lines :
        Client!applyOfinScope(s, e)
          = Client!Rewrite(Client!Meta(Client!block([s EXCEPT !.inScope = total, !.rules = rules],
                                                    e.block, "OFIN", "agent", meta),
                                       e.block, meta), e.block, lines)
  BY Zenon DEF Client!applyOfinScope
<1> DEFINE t == [s EXCEPT !.inScope = total, !.rules = rules]
           u == Client!block(t, e.block, "OFIN", "agent", meta)
           v == Client!Meta(u, e.block, meta)
<1>2. /\ t = [f \in StateFields |-> t[f]]
      /\ t.blocks = s.blocks /\ t.order = s.order /\ t.approval = s.approval
      /\ t.state = s.state /\ t.outcome = s.outcome
  BY DEF Shelved, StateFields
<1> HIDE DEF t
<1>3. Alike(s, t) /\ Shelved(t)
  BY <1>2, AsideAlike DEF Alike
<1>4. Shelved(u) /\ e.block \in DOMAIN u.order
  <2> HIDE DEF meta
  <2>1. Opens(t, u, e.block, "OFIN")
    BY <1>3, BlockOpens
  <2> QED
    BY <2>1 DEF Opens
<1>5. Alike(u, v)
  <2> HIDE DEF u
  <2> QED
    BY <1>4, MetaAlike
<1> HIDE DEF v
<1>6. PICK f : Reshapes(t, Client!Rewrite(v, e.block, lines), e.block, f)
  BY <1>3, <1>5, BlockRewritten
<1>7. Reshapes(s, Client!Rewrite(v, e.block, lines), e.block, f)
  BY <1>3, <1>6, AlikeReshaped
<1> QED
  BY <1>1, <1>7 DEF t, u, v

\* A turn's first proposal makes the block it is shown in.
LEMMA ToolProposedReshapes ==
  ASSUME NEW s, Shelved(s), NEW e, e.block \notin DOMAIN s.order
  PROVE  \E lines : Reshapes(s, Client!applyToolProposed(s, e), e.block,
                             Look("PROPOSED", "tool", lines))
<1> DEFINE t == Client!block(s, e.block, "PROPOSED", "tool", <<"pending gate">>)
<1>1. PICK lines, m : Client!applyToolProposed(s, e)
                        = [Client!Rewrite(t, e.block, lines) EXCEPT !.proposed = m]
  BY Zenon DEF Client!applyToolProposed
<1> DEFINE u == Client!Rewrite(t, e.block, lines)
           v == [u EXCEPT !.proposed = m]
           f == Look("PROPOSED", "tool", lines)
<1>2. Reshapes(s, u, e.block, f)
  <2>1. Alike(t, t)
    BY BlockReshapes, AlikeSelf DEF Reshapes
  <2> QED
    BY <2>1, BlockRewritten
<1> HIDE DEF u, f
<1>3. Shelved(u)
  BY <1>2 DEF Reshapes
<1>4. /\ v = [x \in StateFields |-> v[x]]
      /\ v.blocks = u.blocks /\ v.order = u.order /\ v.approval = u.approval
      /\ v.state = u.state /\ v.outcome = u.outcome
  BY <1>3 DEF Shelved, StateFields
<1> HIDE DEF v
<1>5. Alike(u, v)
  BY <1>3, <1>4, AsideAlike DEF Alike
<1>6. Reshapes(s, v, e.block, f)
  BY <1>2, <1>5, ReshapedAlike
<1> QED
  BY <1>1, <1>6 DEF u, v, f

LEMMA AllowedReshapes ==
  ASSUME NEW s, Shelved(s), NEW ref \in DOMAIN s.order
  PROVE  Reshapes(s, Client!Allowed(s, ref), ref, Look("TOOL", Face(s, ref).tone, <<>>))
<1> DEFINE t == [s EXCEPT !.blocks[s.order[ref]].tag = "TOOL"]
           meta == Client!toolMeta(Client!Get(t.proposed, ref, <<>>), <<"running">>)
           u == Client!Meta(t, ref, meta)
           f == Look("TOOL", Face(s, ref).tone, Face(s, ref).lines)
<1>1. Client!Allowed(s, ref) = Client!Rewrite(u, ref, <<>>)
  BY DEF Client!Allowed
<1>2. Reshapes(s, t, ref, f)
  BY EditReshapes
<1> HIDE DEF t, meta
<1>3. Shelved(t) /\ ref \in DOMAIN t.order
  BY <1>2 DEF Reshapes
<1>4. Alike(t, u)
  BY <1>3, MetaAlike
<1> HIDE DEF u, f
<1>5. Reshapes(s, u, ref, f)
  BY <1>2, <1>4, ReshapedAlike
<1>6. Shelved(u) /\ ref \in DOMAIN u.order /\ Face(u, ref) = f
  BY <1>5 DEF Reshapes
<1>7. Reshapes(u, Client!Rewrite(u, ref, <<>>), ref, Look(f.tag, f.tone, <<>>))
  BY <1>6, RewriteReshapes
<1>8. f.tag = "TOOL" /\ f.tone = Face(s, ref).tone
  BY Looks DEF f
<1> QED
  BY <1>1, <1>5, <1>7, <1>8, ReshapedTwice

\* A refusal opens a block of its own and settles what is asked.
LEMMA RefusedReshapes ==
  ASSUME NEW s, Shelved(s), NEW e
  PROVE  LET t == Client!Refused(s, e)
             tag == IF e.verdict = "require_human" THEN "APPROVAL" ELSE "DENIED"
         IN  /\ Shelved(t) /\ DOMAIN t.order = DOMAIN s.order \cup {e.block}
             /\ t.state = s.state /\ t.outcome = s.outcome
             /\ t.approval = Client!ApprovalAfter(s, e)
             /\ \A r : r # e.block => Face(t, r) = Face(s, r)
             /\ Face(t, e.block).tag = IF e.block \in DOMAIN s.order THEN Face(s, e.block).tag
                                       ELSE tag
<1> DEFINE tag == IF e.verdict = "require_human" THEN "APPROVAL" ELSE "DENIED"
           tone == IF e.verdict = "require_human" THEN "human" ELSE "deny"
           meta == Client!verdictMeta(e)
           t == Client!block(s, e.block, tag, tone, meta)
           a == Client!ApprovalAfter(s, e)
           u == [t EXCEPT !.approval = a]
           v == Client!Meta(u, e.block, meta)
           f == IF e.block \in DOMAIN s.order THEN Face(s, e.block) ELSE Look(tag, tone, <<>>)
<1>1. PICK lines : Client!Refused(s, e) = Client!Rewrite(v, e.block, lines)
  BY Zenon DEF Client!Refused
<1> DEFINE w == Client!Rewrite(v, e.block, lines)
<1> HIDE DEF tag, tone, meta
<1>2. Reshapes(s, t, e.block, f)
  BY BlockReshapes
<1> HIDE DEF t, a
<1>3. Shelved(t) /\ e.block \in DOMAIN t.order
  BY <1>2 DEF Reshapes
<1>4. /\ u = [x \in StateFields |-> u[x]]
      /\ u.blocks = t.blocks /\ u.order = t.order /\ u.approval = a
      /\ u.state = t.state /\ u.outcome = t.outcome
  BY <1>3 DEF Shelved, StateFields
<1> HIDE DEF u
<1>5. Shelved(u) /\ \A r : Face(u, r) = Face(t, r)
  BY <1>3, <1>4, AsideAlike
<1>6. Alike(u, v)
  BY <1>3, <1>4, <1>5, MetaAlike
<1> HIDE DEF v
<1>7. /\ Shelved(v) /\ e.block \in DOMAIN v.order
      /\ Face(v, e.block).tag = Face(t, e.block).tag
  BY <1>3, <1>4, <1>5, <1>6 DEF Alike
<1>8. Reshapes(v, w, e.block, Look(Face(v, e.block).tag, Face(v, e.block).tone, lines))
  BY <1>7, RewriteReshapes
<1> HIDE DEF w
<1>9. Face(t, e.block).tag = IF e.block \in DOMAIN s.order THEN Face(s, e.block).tag ELSE tag
  <2>1. Face(t, e.block) = f
    BY <1>2 DEF Reshapes
  <2> QED
    BY <2>1, Looks DEF f
<1>10. Face(w, e.block).tag = Face(t, e.block).tag
  BY <1>7, <1>8, Looks DEF Reshapes
<1>11. \A r : r # e.block => Face(w, r) = Face(s, r)
  BY <1>2, <1>5, <1>6, <1>8 DEF Reshapes, Alike
<1>12. /\ Shelved(w) /\ DOMAIN w.order = DOMAIN s.order \cup {e.block}
       /\ w.state = s.state /\ w.outcome = s.outcome /\ w.approval = a
  BY <1>2, <1>4, <1>6, <1>8 DEF Reshapes, Alike
<1> QED
  BY <1>1, <1>9, <1>10, <1>11, <1>12 DEF w, a, tag

AllOk(outcomes) == \A r \in DOMAIN outcomes : outcomes[r] = "ok"

\* The output of an allowed call: its status settles the outcome of the block,
\* unless it failed.
LEMMA ToolOutputReshapes ==
  ASSUME NEW s, Shelved(s), AllOk(s.outcome), NEW e, e.block \in DOMAIN s.order,
         Face(s, e.block).lines = <<>>, Face(s, e.block).tag = "TOOL",
         NEW status \in {"ok", "error"},
         e.lines = <<[text |-> "summary", status |-> status]>>
  PROVE  LET t == Client!applyToolOutput(s, e)
         IN  /\ Shelved(t) /\ DOMAIN t.order = DOMAIN s.order
             /\ t.state = s.state /\ t.approval = s.approval
             /\ AllOk(t.outcome) /\ (status = "ok" => e.block \in DOMAIN t.outcome)
             /\ \A r : r # e.block => Face(t, r) = Face(s, r)
             /\ Face(t, e.block).tag = "TOOL" /\ Face(t, e.block).lines = <<<<"summary">>>>
<1> DEFINE o == Client!Outcome(s, e.block, e.lines)
           u == [s EXCEPT !.outcome = o]
           tone == Client!toneFor(u, e.block)
           v == [u EXCEPT !.blocks[u.order[e.block]].tone = tone]
           old == Client!BlockOf(v, e.block).lines
           new == [i \in DOMAIN e.lines |-> <<e.lines[i].text>>]
           w == Client!Rewrite(v, e.block, old \o new)
<1>1. Client!applyToolOutput(s, e) = w
  <2>1. Client!block(s, e.block, "TOOL", "tool", <<>>) = s
    BY BlockReshapes
  <2> QED
    BY <2>1 DEF Client!applyToolOutput, Client!AddLines
<1>2. new = <<<<"summary">>>>
  OBVIOUS
<1>3. AllOk(o) /\ (status = "ok" => e.block \in DOMAIN o)
  <2> DEFINE statuses == {e.lines[i].status : i \in DOMAIN e.lines}
  <2>1. statuses = {status}
    OBVIOUS
  <2>2. o = IF "err" \in statuses THEN Client!With(s.outcome, e.block, "deny")
            ELSE IF "ok" \in statuses /\ e.block \notin DOMAIN s.outcome
                 THEN Client!With(s.outcome, e.block, "ok") ELSE s.outcome
    BY DEF Client!Outcome
  <2> HIDE DEF statuses, o
  <2> QED
    BY <2>1, <2>2 DEF AllOk, Client!With
<1> HIDE DEF o, new
<1>4. /\ u = [x \in StateFields |-> u[x]]
      /\ u.blocks = s.blocks /\ u.order = s.order /\ u.approval = s.approval
      /\ u.state = s.state /\ u.outcome = o
  BY DEF Shelved, StateFields
<1> HIDE DEF u
<1>5. Shelved(u) /\ \A r : Face(u, r) = Face(s, r)
  BY <1>4, AsideAlike
<1> HIDE DEF tone
<1>6. Reshapes(u, v, e.block, Look(Face(u, e.block).tag, tone, Face(u, e.block).lines))
  BY <1>4, <1>5, EditReshapes
<1> HIDE DEF v
<1>7. /\ Shelved(v) /\ e.block \in DOMAIN v.order
      /\ Face(v, e.block).tag = "TOOL" /\ Face(v, e.block).lines = <<>>
  BY <1>4, <1>5, <1>6, Looks DEF Reshapes
<1>8. old = <<>>
  BY <1>7 DEF Face, LookOf, Look, Client!BlockOf
<1>9. old \o new = <<<<"summary">>>>
  BY <1>2, <1>8
<1>10. Reshapes(v, w, e.block, Look("TOOL", Face(v, e.block).tone, <<<<"summary">>>>))
  <2> HIDE DEF old
  <2> QED
    BY <1>7, <1>9, RewriteReshapes
<1> HIDE DEF w
<1>11. /\ Face(w, e.block).tag = "TOOL" /\ Face(w, e.block).lines = <<<<"summary">>>>
       /\ \A r : r # e.block => Face(w, r) = Face(s, r)
  BY <1>5, <1>6, <1>10, Looks DEF Reshapes
<1> QED
  BY <1>1, <1>3, <1>4, <1>6, <1>10, <1>11 DEF Reshapes

\* The call is over: the block takes the tone of its outcome or of its failure.
LEMMA ToolCompletedReshapes ==
  ASSUME NEW s, Shelved(s), AllOk(s.outcome), NEW e, e.block \in DOMAIN s.order,
         Face(s, e.block).tag = "TOOL", Face(s, e.block).lines = <<<<"summary">>>>,
         e.status = "ok" => e.block \in DOMAIN s.outcome,
         e.duration = 0, e.changes = <<>>
  PROVE  Reshapes(s, Client!applyToolCompleted(s, e), e.block,
                  Look("TOOL", IF e.status = "ok" THEN "ok" ELSE "deny", <<<<"summary">>>>))
<1> DEFINE tone == IF e.status = "ok" THEN Client!toneFor(s, e.block) ELSE "deny"
           u == [s EXCEPT !.blocks[s.order[e.block]].tone = tone]
           old == Client!BlockOf(u, e.block).lines
           row(c) == <<c.op, c.path>>
                     \o (IF c.summary # "" THEN <<c.summary>>
                         ELSE Client!signedChanges(c.added, c.removed))
           new == [i \in DOMAIN e.changes |-> row(e.changes[i])]
           w == Client!Rewrite(u, e.block, old \o new)
<1>1. Client!applyToolCompleted(s, e) = w
  <2>1. Client!block(s, e.block, "TOOL", "tool", <<>>) = s
    BY BlockReshapes
  <2>2. ~(e.duration > 0)
    OBVIOUS
  <2> QED
    BY <2>1, <2>2 DEF Client!applyToolCompleted, Client!AddLines
<1>2. new = <<>>
  <2> HIDE DEF row
  <2> QED
    OBVIOUS
<1>3. tone = IF e.status = "ok" THEN "ok" ELSE "deny"
  BY DEF AllOk, Client!toneFor, Client!Get
<1> HIDE DEF tone, new
<1>4. Reshapes(s, u, e.block, Look("TOOL", tone, <<<<"summary">>>>))
  BY EditReshapes
<1> HIDE DEF u
<1>5. /\ Shelved(u) /\ e.block \in DOMAIN u.order
      /\ Face(u, e.block) = Look("TOOL", tone, <<<<"summary">>>>)
  BY <1>4 DEF Reshapes
<1>6. old = <<<<"summary">>>> /\ Face(u, e.block).tag = "TOOL" /\ Face(u, e.block).tone = tone
  BY <1>5 DEF Face, LookOf, Look, Client!BlockOf
<1>7. old \o new = <<<<"summary">>>>
  BY <1>2, <1>6
<1>8. Reshapes(u, w, e.block, Look("TOOL", tone, <<<<"summary">>>>))
  <2> HIDE DEF old
  <2> QED
    BY <1>5, <1>6, <1>7, RewriteReshapes
<1> HIDE DEF w
<1> QED
  BY <1>1, <1>3, <1>4, <1>8, ReshapedTwice

-----------------------------------------------------------------------------
(* What a client makes of the events of a run *)

FoldedIn(s, e) == Client!Apply(s, Written(e))

LEMMA WrittenSays ==
  ASSUME NEW e
  PROVE  /\ e.kind = "TurnState" => Written(e).state = e.what
         /\ e.kind = "AgentMessage" => Written(e).block = blockRef("agent", e.turn)
         /\ e.kind = "ToolProposed" => Written(e).block = blockRef("tool", e.turn)
         /\ e.kind = "ToolOutput" => Written(e).lines = <<[text |-> "summary", status |-> e.what]>>
         /\ e.kind = "ToolCompleted" => /\ Written(e).status = e.what /\ Written(e).duration = 0
                                        /\ Written(e).changes = <<>>
<1>1. /\ e.kind = "TurnState" => Written(e) = StateLine(e)
      /\ e.kind = "AgentMessage" => Written(e) = TextLine(e)
      /\ e.kind = "ToolProposed" => Written(e) = ProposedLine(e)
      /\ e.kind = "ToolOutput" => Written(e) = OutputLine(e)
      /\ e.kind = "ToolCompleted" => Written(e) = CompletedLine(e)
  BY SMT DEF Written
<1>2. StateLine(e).state = e.what /\ TextLine(e).block = blockRef("agent", e.turn)
  BY DEF StateLine, TextLine
<1>3. ProposedLine(e).block = blockRef("tool", e.turn)
  BY DEF ProposedLine
<1>4. OutputLine(e).lines = <<[text |-> "summary", status |-> e.what]>>
  BY DEF OutputLine
<1>5. /\ CompletedLine(e).status = e.what /\ CompletedLine(e).duration = 0
      /\ CompletedLine(e).changes = <<>>
  BY DEF CompletedLine
<1> QED
  BY <1>1, <1>2, <1>3, <1>4, <1>5

GateBlock(kind, t) == kind \in {"tool", "verdict"} /\ t \in 1..MaxTurns

\* From s to t nothing changes that tells of the gate.
Untold(s, t) ==
  /\ Shelved(t) /\ t.approval = s.approval /\ t.outcome = s.outcome
  /\ \A kind, u : GateBlock(kind, u) =>
       /\ Face(t, blockRef(kind, u)) = Face(s, blockRef(kind, u))
       /\ blockRef(kind, u) \in DOMAIN t.order <=> blockRef(kind, u) \in DOMAIN s.order

LEMMA UntoldThrough ==
  ASSUME NEW s, NEW t, NEW u, Untold(s, t), Untold(t, u)
  PROVE  Untold(s, u)
BY DEF Untold

LEMMA UntoldSelf ==
  ASSUME NEW s, Shelved(s)
  PROVE  Untold(s, s)
BY DEF Untold

LEMMA BlocksDiffer ==
  ASSUME NEW kind, NEW t, GateBlock(kind, t)
  PROVE  /\ blockRef(kind, t) # "ofin"
         /\ \A u \in 0..MaxTurns : blockRef(kind, t) # blockRef("agent", u)
         /\ \A other, u : GateBlock(other, u) /\ blockRef(kind, t) = blockRef(other, u)
                            => kind = other /\ t = u
<1>1. \A u \in 1..MaxTurns : u \in 0..MaxTurns
  BY ConstantsTyped
<1> QED
  BY <1>1, NamesDiffer DEF GateBlock, BlockKinds

Asides == {"SessionStarted", "OfinScope", "TurnState", "AgentMessage"}

\* The events that tell nothing of the gate.
LEMMA AsideUntold ==
  ASSUME NEW s, Shelved(s), NEW e \in Event, e.kind \in Asides
  PROVE  /\ Untold(s, FoldedIn(s, e))
         /\ e.kind = "TurnState" => FoldedIn(s, e).state = e.what
<1> DEFINE w == Written(e)
           t == FoldedIn(s, e)
<1>1. w.kind = e.kind
  BY WrittenIs DEF Asides
<1>2. e.turn \in 0..MaxTurns
  BY DEF Event
<1>3. \A ref : \A f :
        Reshapes(s, t, ref, f) /\ (\A kind, u : GateBlock(kind, u) => blockRef(kind, u) # ref)
          => Untold(s, t)
  BY DEF Reshapes, Untold
<1>4. CASE e.kind = "SessionStarted"
  <2>1. Alike(s, t)
    BY <1>1, <1>4, AppliedIs, SessionStartedAlike DEF FoldedIn
  <2> QED
    BY <1>4, <2>1 DEF Alike, Untold
<1>5. CASE e.kind = "OfinScope"
  <2>1. w.block = "ofin"
    BY <1>5, WrittenIs
  <2>2. \E f : Reshapes(s, t, "ofin", f)
    BY <1>1, <1>5, <2>1, AppliedIs, OfinScopeReshapes DEF FoldedIn
  <2> QED
    BY <1>3, <1>5, <2>2, BlocksDiffer
<1>6. CASE e.kind = "TurnState"
  <2>1. t = Client!applyTurnState(s, w) /\ w.state = e.what
    BY <1>1, <1>6, AppliedIs, WrittenSays DEF FoldedIn
  <2> HIDE DEF t, w
  <2>2. /\ Shelved(t) /\ t.order = s.order /\ \A r : Face(t, r) = Face(s, r)
        /\ t.state = w.state /\ t.approval = s.approval /\ t.outcome = s.outcome
    BY <2>1, TurnStateStates
  <2> QED
    BY <2>1, <2>2 DEF Untold, t
<1>7. CASE e.kind = "AgentMessage"
  <2>1. w.block = blockRef("agent", e.turn)
    BY <1>7, WrittenSays
  <2>2. \E f : Reshapes(s, t, blockRef("agent", e.turn), f)
    BY <1>1, <1>7, <2>1, AppliedIs, AgentMessageReshapes DEF FoldedIn
  <2> QED
    BY <1>2, <1>3, <1>7, <2>2, BlocksDiffer
<1> QED
  BY <1>4, <1>5, <1>6, <1>7 DEF Asides

LEMMA ProposalFolded ==
  ASSUME NEW s, Shelved(s), NEW e \in Event, e.kind = "ToolProposed",
         blockRef("tool", e.turn) \notin DOMAIN s.order
  PROVE  \E lines : Reshapes(s, FoldedIn(s, e), blockRef("tool", e.turn),
                             Look("PROPOSED", "tool", lines))
<1>1. /\ Written(e).kind = "ToolProposed" /\ Written(e).block = blockRef("tool", e.turn)
      /\ FoldedIn(s, e) = Client!applyToolProposed(s, Written(e))
  BY WrittenIs, WrittenSays, AppliedIs DEF FoldedIn
<1> QED
  BY <1>1, ToolProposedReshapes

LEMMA AllowFolded ==
  ASSUME NEW s, Shelved(s), NEW e \in Event, e.kind = "OfinVerdict", e.what = "allow",
         blockRef("tool", e.turn) \in DOMAIN s.order
  PROVE  Reshapes(s, FoldedIn(s, e), blockRef("tool", e.turn),
                  Look("TOOL", Face(s, blockRef("tool", e.turn)).tone, <<>>))
<1> DEFINE w == Written(e)
           ref == blockRef("tool", e.turn)
           t == Client!Allowed(s, ref)
           u == Client!hotRule(t, w.rule, FALSE)
           f == Look("TOOL", Face(s, ref).tone, <<>>)
<1>1. w.kind = "OfinVerdict" /\ w.proposal = ref /\ w.verdict = "allow"
  BY WrittenIs
<1> HIDE DEF w, ref
<1>2. FoldedIn(s, e) = u
  BY <1>1, AppliedIs DEF Client!applyOfinVerdict, FoldedIn, w
<1>3. Reshapes(s, t, ref, f)
  BY AllowedReshapes DEF ref
<1> HIDE DEF t, f
<1>4. Alike(t, u)
  BY <1>3, HotRuleAlike DEF Reshapes
<1> HIDE DEF u
<1>5. Reshapes(s, u, ref, f)
  BY <1>3, <1>4, ReshapedAlike
<1> QED
  BY <1>2, <1>5 DEF ref, f

LEMMA RefusalFolded ==
  ASSUME NEW s, Shelved(s), NEW e \in Event, e.kind = "OfinVerdict",
         e.what \in {"deny", "require_human"}
  PROVE  LET t == FoldedIn(s, e)
             ref == blockRef("verdict", e.turn)
         IN  /\ Shelved(t) /\ DOMAIN t.order = DOMAIN s.order \cup {ref}
             /\ t.state = s.state /\ t.outcome = s.outcome
             /\ Client!Asks(t) <=> e.what = "require_human"
             /\ \A r : r # ref => Face(t, r) = Face(s, r)
             /\ Face(t, ref).tag = IF ref \in DOMAIN s.order THEN Face(s, ref).tag
                                   ELSE IF e.what = "require_human" THEN "APPROVAL" ELSE "DENIED"
<1> DEFINE w == Written(e)
           ref == blockRef("verdict", e.turn)
           tag == IF e.what = "require_human" THEN "APPROVAL" ELSE "DENIED"
           t == Client!Refused(s, w)
           u == Client!hotRule(t, w.rule, TRUE)
<1>1. w.kind = "OfinVerdict" /\ w.block = ref /\ w.verdict = e.what
  BY WrittenIs
<1> HIDE DEF w, ref
<1>2. FoldedIn(s, e) = u
  BY <1>1, AppliedIs DEF Client!applyOfinVerdict, FoldedIn, w
<1>3. /\ Shelved(t) /\ DOMAIN t.order = DOMAIN s.order \cup {ref}
      /\ t.state = s.state /\ t.outcome = s.outcome
      /\ t.approval = Client!ApprovalAfter(s, w)
      /\ \A r : r # ref => Face(t, r) = Face(s, r)
      /\ Face(t, ref).tag = IF ref \in DOMAIN s.order THEN Face(s, ref).tag ELSE tag
  <2> DEFINE ours == IF w.verdict = "require_human" THEN "APPROVAL" ELSE "DENIED"
  <2>1. /\ Shelved(t) /\ DOMAIN t.order = DOMAIN s.order \cup {w.block}
        /\ t.state = s.state /\ t.outcome = s.outcome
        /\ t.approval = Client!ApprovalAfter(s, w)
        /\ \A r : r # w.block => Face(t, r) = Face(s, r)
        /\ Face(t, w.block).tag = IF w.block \in DOMAIN s.order THEN Face(s, w.block).tag ELSE ours
    BY RefusedReshapes
  <2>2. ours = tag
    BY <1>1
  <2> HIDE DEF t, tag, ours
  <2> QED
    BY <1>1, <2>1, <2>2
<1>4. Client!ApprovalAfter(s, w) # <<>> <=> e.what = "require_human"
  BY <1>1 DEF Client!ApprovalAfter
<1> HIDE DEF t, tag
<1>5. Alike(t, u)
  BY <1>3, HotRuleAlike
<1> HIDE DEF u
<1>6. /\ Shelved(u) /\ DOMAIN u.order = DOMAIN s.order \cup {ref}
      /\ u.state = s.state /\ u.outcome = s.outcome
      /\ Client!Asks(u) <=> e.what = "require_human"
      /\ \A r : r # ref => Face(u, r) = Face(s, r)
      /\ Face(u, ref).tag = IF ref \in DOMAIN s.order THEN Face(s, ref).tag ELSE tag
  BY <1>3, <1>4, <1>5 DEF Alike, Client!Asks
<1> QED
  BY <1>2, <1>6 DEF ref, tag

\* From s to t the call of the block ref was allowed, and gave what it gave.
Acts(s, t, ref, ran, isError) ==
  /\ Shelved(t) /\ DOMAIN t.order = DOMAIN s.order
  /\ t.state = s.state /\ t.approval = s.approval /\ AllOk(t.outcome)
  /\ \A r : r # ref => Face(t, r) = Face(s, r)
  /\ Face(t, ref).tag = "TOOL"
  /\ Face(t, ref).lines = IF ran THEN <<<<"summary">>>> ELSE <<>>
  /\ Face(t, ref).tone = IF ran THEN (IF isError THEN "deny" ELSE "ok") ELSE Face(s, ref).tone

LEMMA AllowActs ==
  ASSUME NEW s, Shelved(s), AllOk(s.outcome), NEW e \in Event, e.kind = "OfinVerdict",
         e.what = "allow", blockRef("tool", e.turn) \in DOMAIN s.order
  PROVE  Acts(s, FoldedIn(s, e), blockRef("tool", e.turn), FALSE, FALSE)
<1> DEFINE ref == blockRef("tool", e.turn)
           t == FoldedIn(s, e)
<1>1. Reshapes(s, t, ref, Look("TOOL", Face(s, ref).tone, <<>>))
  BY AllowFolded
<1> HIDE DEF ref, t
<1>2. DOMAIN t.order = DOMAIN s.order
  BY <1>1 DEF Reshapes, ref
<1>3. Face(t, ref) = Look("TOOL", Face(s, ref).tone, <<>>)
  BY <1>1 DEF Reshapes
<1>4. /\ Face(t, ref).tag = "TOOL" /\ Face(t, ref).tone = Face(s, ref).tone
      /\ Face(t, ref).lines = <<>>
  BY <1>3, Looks
<1>5. Acts(s, t, ref, FALSE, FALSE)
  BY <1>1, <1>2, <1>4 DEF Acts, Reshapes
<1> QED
  BY <1>5 DEF ref, t

\* The output of the call that was just allowed, and its end.
LEMMA OutputActs ==
  ASSUME NEW r, Shelved(r), NEW s, NEW a \in Event, NEW b \in Event, NEW ref,
         Acts(r, s, ref, FALSE, FALSE), ref \in DOMAIN r.order,
         a.kind = "ToolOutput", b.kind = "ToolCompleted", NEW isError \in BOOLEAN,
         a.what = Status(isError), b.what = Status(isError),
         ref = blockRef("tool", a.turn), ref = blockRef("tool", b.turn)
  PROVE  Acts(r, FoldedIn(FoldedIn(s, a), b), ref, TRUE, isError)
<1> DEFINE v == Written(a)
           w == Written(b)
           t == FoldedIn(s, a)
           u == FoldedIn(t, b)
           status == Status(isError)
<1>1. /\ v.kind = "ToolOutput" /\ v.block = ref
      /\ v.lines = <<[text |-> "summary", status |-> status]>>
  BY WrittenIs, WrittenSays
<1>2. /\ w.kind = "ToolCompleted" /\ w.block = ref
      /\ w.status = status /\ w.duration = 0 /\ w.changes = <<>>
  BY WrittenIs, WrittenSays
<1>3. t = Client!applyToolOutput(s, v)
  BY <1>1, AppliedIs DEF FoldedIn
<1>4. u = Client!applyToolCompleted(t, w)
  BY <1>2, AppliedIs DEF FoldedIn
<1> HIDE DEF v, w, t, u
<1>5. status \in {"ok", "error"} /\ (status = "ok" <=> ~isError)
  BY DEF Status
<1> HIDE DEF status
<1>6. /\ Shelved(s) /\ ref \in DOMAIN s.order /\ AllOk(s.outcome)
      /\ Face(s, ref).lines = <<>> /\ Face(s, ref).tag = "TOOL"
      /\ s.state = r.state /\ s.approval = r.approval /\ DOMAIN s.order = DOMAIN r.order
      /\ \A x : x # ref => Face(s, x) = Face(r, x)
  BY DEF Acts
<1>7. /\ Shelved(t) /\ DOMAIN t.order = DOMAIN s.order
      /\ t.state = s.state /\ t.approval = s.approval
      /\ AllOk(t.outcome) /\ (status = "ok" => ref \in DOMAIN t.outcome)
      /\ \A x : x # ref => Face(t, x) = Face(s, x)
      /\ Face(t, ref).tag = "TOOL" /\ Face(t, ref).lines = <<<<"summary">>>>
  <2> DEFINE z == Client!applyToolOutput(s, v)
  <2>1. /\ v.block \in DOMAIN s.order /\ Face(s, v.block).lines = <<>>
        /\ Face(s, v.block).tag = "TOOL" /\ v.lines = <<[text |-> "summary", status |-> status]>>
        /\ Shelved(s) /\ AllOk(s.outcome) /\ status \in {"ok", "error"}
    BY <1>1, <1>5, <1>6
  <2>2. /\ Shelved(z) /\ DOMAIN z.order = DOMAIN s.order
        /\ z.state = s.state /\ z.approval = s.approval
        /\ AllOk(z.outcome) /\ (status = "ok" => v.block \in DOMAIN z.outcome)
        /\ \A x : x # v.block => Face(z, x) = Face(s, x)
        /\ Face(z, v.block).tag = "TOOL" /\ Face(z, v.block).lines = <<<<"summary">>>>
    BY <2>1, ToolOutputReshapes
  <2>3. t = z
    BY <1>3
  <2> HIDE DEF z
  <2> QED
    BY <1>1, <2>2, <2>3
<1> DEFINE tone == IF status = "ok" THEN "ok" ELSE "deny"
<1>8. Reshapes(t, u, ref, Look("TOOL", tone, <<<<"summary">>>>))
  <2>1. /\ w.block \in DOMAIN t.order /\ (w.status = "ok" => w.block \in DOMAIN t.outcome)
        /\ Face(t, w.block).tag = "TOOL" /\ Face(t, w.block).lines = <<<<"summary">>>>
        /\ w.duration = 0 /\ w.changes = <<>> /\ Shelved(t) /\ AllOk(t.outcome)
    BY <1>2, <1>6, <1>7
  <2>2. Reshapes(t, Client!applyToolCompleted(t, w), w.block,
                 Look("TOOL", IF w.status = "ok" THEN "ok" ELSE "deny", <<<<"summary">>>>))
    BY <2>1, ToolCompletedReshapes
  <2> QED
    BY <1>2, <1>4, <2>2
<1>9. tone = IF isError THEN "deny" ELSE "ok"
  BY <1>5
<1> HIDE DEF tone
<1>10. Face(u, ref) = Look("TOOL", tone, <<<<"summary">>>>)
  BY <1>8 DEF Reshapes
<1>11. /\ Face(u, ref).tag = "TOOL" /\ Face(u, ref).lines = <<<<"summary">>>>
       /\ Face(u, ref).tone = tone
  BY <1>10, Looks
<1>12. Shelved(u) /\ DOMAIN u.order = DOMAIN r.order
       /\ u.state = r.state /\ u.approval = r.approval /\ AllOk(u.outcome)
       /\ \A x : x # ref => Face(u, x) = Face(r, x)
  BY <1>6, <1>7, <1>8 DEF Reshapes
<1>13. Acts(r, u, ref, TRUE, isError)
  BY <1>9, <1>11, <1>12 DEF Acts
<1> QED
  BY <1>13 DEF u, t

-----------------------------------------------------------------------------
(* The session of a client that has read some events *)

Story(evs) == FoldLeft(FoldedIn, Client!New, evs)

Telling == INSTANCE Folding WITH Op <- FoldedIn

LEMMA StoryFolded ==
  ASSUME NEW q
  PROVE  Story(q) = Telling!Fold(Client!New, q)
BY DEF Story, Telling!Fold, Telling!FoldLeft, FoldLeft, Telling!MapThenFoldSet,
       MapThenFoldSet, Telling!Max, Max

LEMMA StoryGrows ==
  /\ Story(<<>>) = Client!New
  /\ \A q \in Seq(Event), e \in Event : Story(Append(q, e)) = FoldedIn(Story(q), e)
BY StoryFolded, Telling!FoldEmpty, Telling!FoldAppend

LEMMA StoryOfOne ==
  ASSUME NEW q \in Seq(Event), NEW a \in Event
  PROVE  Story(q \o <<a>>) = FoldedIn(Story(q), a)
<1>1. q \o <<a>> = Append(q, a)
  OBVIOUS
<1> QED
  BY <1>1, StoryGrows

LEMMA StoryOfTwo ==
  ASSUME NEW q \in Seq(Event), NEW a \in Event, NEW b \in Event
  PROVE  Story(q \o <<a, b>>) = FoldedIn(FoldedIn(Story(q), a), b)
<1>1. /\ q \o <<a, b>> = Append(q \o <<a>>, b) /\ q \o <<a>> \in Seq(Event)
  <2>1. <<a, b>> = Append(<<a>>, b) /\ <<a>> \in Seq(Event)
    OBVIOUS
  <2> QED
    BY <2>1, AppendConcat, ConcatLaws
<1>2. Story(Append(q \o <<a>>, b)) = FoldedIn(Story(q \o <<a>>), b)
  BY <1>1, StoryGrows
<1> QED
  BY <1>1, <1>2, StoryOfOne

LEMMA StoryOfThree ==
  ASSUME NEW q \in Seq(Event), NEW a \in Event, NEW b \in Event, NEW c \in Event
  PROVE  Story(q \o <<a, b, c>>) = FoldedIn(FoldedIn(FoldedIn(Story(q), a), b), c)
<1>1. /\ q \o <<a, b, c>> = Append(q \o <<a, b>>, c) /\ q \o <<a, b>> \in Seq(Event)
  <2>1. <<a, b, c>> = Append(<<a, b>>, c) /\ <<a, b>> \in Seq(Event)
    OBVIOUS
  <2> QED
    BY <2>1, AppendConcat, ConcatLaws
<1>2. Story(Append(q \o <<a, b>>, c)) = FoldedIn(Story(q \o <<a, b>>), c)
  BY <1>1, StoryGrows
<1> QED
  BY <1>1, <1>2, StoryOfTwo

-----------------------------------------------------------------------------
(* What the story of a full log says of the decisions settled so far *)

DecidedIn(q, t, verdict) == {i \in DOMAIN q : q[i].turn = t /\ q[i].verdict = verdict}

RanIn(q, t) == {i \in DecidedIn(q, t, "allow") : q[i].ran}

IsLast(i, S) == i \in S /\ \A j \in S : j <= i

\* What a client has to show of the turn t when q was decided.
TurnTold(s, q, t) ==
  LET tool == Face(s, blockRef("tool", t))
  IN  /\ tool.tag = "TOOL" <=> DecidedIn(q, t, "allow") # {}
      /\ \A i : IsLast(i, DecidedIn(q, t, "allow")) =>
           tool.lines = IF q[i].ran THEN <<<<"summary">>>> ELSE <<>>
      /\ \A i : IsLast(i, RanIn(q, t)) => tool.tone = IF q[i].isError THEN "deny" ELSE "ok"
      /\ DecidedIn(q, t, "deny") # {} => Face(s, blockRef("verdict", t)).tag = "DENIED"

\* The blocks of the turn t there are, at a turn that is still before its
\* proposal, acting on it, or the last of a run that is over.
TurnOpened(s, phase, at, t) ==
  /\ phase # "over" /\ (t > at \/ (t = at /\ phase = "before")) =>
       blockRef("tool", t) \notin DOMAIN s.order
  /\ phase = "acting" /\ t = at => blockRef("tool", t) \in DOMAIN s.order
  /\ phase # "over" /\ blockRef("verdict", t) \in DOMAIN s.order =>
       Face(s, blockRef("verdict", t)).tag = "DENIED"

Told(s, q, phase, kind, at) ==
  /\ Shelved(s) /\ AllOk(s.outcome)
  /\ phase = "over" => s.state = StopState(kind)
  /\ Client!Asks(s) <=> phase = "over" /\ kind = "awaiting_approval"
  /\ \A t \in 1..MaxTurns : TurnTold(s, q, t) /\ TurnOpened(s, phase, at, t)

LEMMA AppendDecides ==
  ASSUME NEW q \in Seq(Decided), NEW d \in Decided, NEW t, NEW verdict
  PROVE  /\ DecidedIn(Append(q, d), t, verdict)
               = IF d.turn = t /\ d.verdict = verdict
                 THEN DecidedIn(q, t, verdict) \cup {Len(q) + 1}
                 ELSE DecidedIn(q, t, verdict)
         /\ DecidedIn(q, t, verdict) \subseteq 1..Len(q)
<1> DEFINE r == Append(q, d)
           n == Len(q) + 1
<1>1. /\ DOMAIN q = 1..Len(q) /\ DOMAIN r = 1..Len(q) \cup {n} /\ r[n] = d
      /\ \A i \in 1..Len(q) : r[i] = q[i]
  OBVIOUS
<1>2. n \notin 1..Len(q)
  OBVIOUS
<1> HIDE DEF r, n
<1>3. DecidedIn(r, t, verdict) = IF d.turn = t /\ d.verdict = verdict
                                 THEN DecidedIn(q, t, verdict) \cup {n}
                                 ELSE DecidedIn(q, t, verdict)
  BY <1>1, <1>2 DEF DecidedIn
<1>4. DecidedIn(q, t, verdict) \subseteq 1..Len(q)
  BY <1>1 DEF DecidedIn
<1> QED
  BY <1>3, <1>4 DEF r, n

LEMMA AppendRan ==
  ASSUME NEW q \in Seq(Decided), NEW d \in Decided, NEW t
  PROVE  /\ RanIn(Append(q, d), t)
               = IF d.turn = t /\ d.verdict = "allow" /\ d.ran
                 THEN RanIn(q, t) \cup {Len(q) + 1} ELSE RanIn(q, t)
         /\ RanIn(q, t) \subseteq 1..Len(q)
<1> DEFINE r == Append(q, d)
           n == Len(q) + 1
           D == DecidedIn(q, t, "allow")
<1>1. r[n] = d /\ \A i \in 1..Len(q) : r[i] = q[i]
  OBVIOUS
<1>2. n \notin 1..Len(q)
  OBVIOUS
<1>3. /\ DecidedIn(r, t, "allow") = IF d.turn = t /\ d.verdict = "allow"
                                    THEN D \cup {n} ELSE D
      /\ D \subseteq 1..Len(q)
  BY AppendDecides
<1> HIDE DEF r, n, D
<1>4. RanIn(r, t) = IF d.turn = t /\ d.verdict = "allow" /\ d.ran
                    THEN RanIn(q, t) \cup {n} ELSE RanIn(q, t)
  BY <1>1, <1>2, <1>3 DEF RanIn, D
<1>5. RanIn(q, t) \subseteq 1..Len(q)
  BY <1>3 DEF RanIn, D
<1> QED
  BY <1>4, <1>5 DEF r, n

\* What an appended decision leaves as it was.
LEMMA AppendKeeps ==
  ASSUME NEW q \in Seq(Decided), NEW d \in Decided
  PROVE  /\ Append(q, d)[Len(q) + 1] = d
         /\ \A i \in 1..Len(q) : Append(q, d)[i] = q[i]
OBVIOUS

-----------------------------------------------------------------------------
(* How what is told goes on *)

LEMMA UntoldTurn ==
  ASSUME NEW s, NEW t, Untold(s, t), NEW u \in 1..MaxTurns, NEW q, NEW phase, NEW at
  PROVE  /\ TurnTold(s, q, u) => TurnTold(t, q, u)
         /\ TurnOpened(s, phase, at, u) => TurnOpened(t, phase, at, u)
<1>1. GateBlock("tool", u) /\ GateBlock("verdict", u)
  BY DEF GateBlock
<1>2. /\ Face(t, blockRef("tool", u)) = Face(s, blockRef("tool", u))
      /\ Face(t, blockRef("verdict", u)) = Face(s, blockRef("verdict", u))
      /\ blockRef("tool", u) \in DOMAIN t.order <=> blockRef("tool", u) \in DOMAIN s.order
      /\ blockRef("verdict", u) \in DOMAIN t.order <=> blockRef("verdict", u) \in DOMAIN s.order
  BY <1>1 DEF Untold
<1> QED
  BY <1>2 DEF TurnTold, TurnOpened

\* Nothing of the gate is said while the run works:
LEMMA ToldQuietly ==
  ASSUME NEW s, NEW t, Untold(s, t), NEW q, NEW phase, phase # "over", NEW kind, NEW other, NEW at,
         Told(s, q, phase, kind, at)
  PROVE  Told(t, q, phase, other, at)
<1>1. \A u \in 1..MaxTurns : TurnTold(t, q, u) /\ TurnOpened(t, phase, at, u)
  BY UntoldTurn DEF Told
<1>2. Shelved(t) /\ AllOk(t.outcome) /\ ~Client!Asks(t)
  BY DEF Told, Untold, Client!Asks
<1> QED
  BY <1>1, <1>2 DEF Told

\* the next turn has no proposal yet:
LEMMA ToldNextTurn ==
  ASSUME NEW s, NEW q, NEW kind, NEW at \in Nat, Told(s, q, "acting", kind, at)
  PROVE  Told(s, q, "before", kind, at + 1)
<1>1. ASSUME NEW u \in 1..MaxTurns PROVE TurnOpened(s, "before", at + 1, u)
  <2>1. TurnOpened(s, "acting", at, u)
    BY DEF Told
  <2>2. u > at + 1 \/ u = at + 1 => u > at
    OBVIOUS
  <2> QED
    BY <2>1, <2>2 DEF TurnOpened
<1> QED
  BY <1>1 DEF Told

\* the run ends and says how, without a question:
LEMMA ToldFinished ==
  ASSUME NEW s, NEW t, Untold(s, t), NEW q, NEW phase, phase # "over", NEW kind, NEW other, NEW at,
         NEW last, Told(s, q, phase, kind, at), t.state = StopState(other),
         other # "awaiting_approval"
  PROVE  Told(t, q, "over", other, last)
<1>1. \A u \in 1..MaxTurns : TurnTold(t, q, u)
  BY UntoldTurn DEF Told
<1>2. Shelved(t) /\ AllOk(t.outcome) /\ ~Client!Asks(t)
  BY DEF Told, Untold, Client!Asks
<1> QED
  BY <1>1, <1>2 DEF Told, TurnOpened

\* the turn proposes its calls, and none of them is decided:
LEMMA ToldProposed ==
  ASSUME NEW s, NEW t, NEW q, NEW kind, NEW other, NEW at \in 1..MaxTurns,
         Told(s, q, "before", kind, at), NEW lines,
         Reshapes(s, t, blockRef("tool", at), Look("PROPOSED", "tool", lines))
  PROVE  Told(t, q, "acting", other, at)
<1> DEFINE ref == blockRef("tool", at)
<1>1. /\ Shelved(t) /\ AllOk(t.outcome) /\ ~Client!Asks(t)
      /\ DOMAIN t.order = DOMAIN s.order \cup {ref}
      /\ \A r : r # ref => Face(t, r) = Face(s, r)
      /\ Face(t, ref).tag = "PROPOSED"
  BY Looks DEF Told, Reshapes, Client!Asks
<1>2. ASSUME NEW u \in 1..MaxTurns
      PROVE  /\ blockRef("verdict", u) # ref
             /\ u # at => blockRef("tool", u) # ref
  BY BlocksDiffer DEF GateBlock
<1>3. ASSUME NEW u \in 1..MaxTurns PROVE TurnOpened(t, "acting", at, u)
  <2>1. TurnOpened(s, "before", at, u)
    BY DEF Told
  <2>2. u > at => u # at
    OBVIOUS
  <2> QED
    BY <1>1, <1>2, <2>1, <2>2 DEF TurnOpened
<1>4. ASSUME NEW u \in 1..MaxTurns PROVE TurnTold(t, q, u)
  <2>1. TurnTold(s, q, u) /\ Face(t, blockRef("verdict", u)) = Face(s, blockRef("verdict", u))
    BY <1>1, <1>2 DEF Told
  <2>2. CASE u # at
    <3>1. Face(t, blockRef("tool", u)) = Face(s, blockRef("tool", u))
      BY <1>1, <1>2, <2>2
    <3> QED
      BY <2>1, <3>1 DEF TurnTold
  <2>3. CASE u = at
    <3>1. blockRef("tool", u) \notin DOMAIN s.order
      BY <2>3 DEF Told, TurnOpened
    <3>2. Face(s, blockRef("tool", u)).tag = "nothing"
      BY <3>1, Looks DEF Face
    <3>3. DecidedIn(q, u, "allow") = {} /\ RanIn(q, u) = {}
      BY <2>1, <3>2 DEF TurnTold, RanIn
    <3> QED
      BY <1>1, <2>1, <2>3, <3>3 DEF TurnTold, IsLast
  <2> QED
    BY <2>2, <2>3
<1> QED
  BY <1>1, <1>3, <1>4 DEF Told

LEMMA LastOfGrown ==
  ASSUME NEW m \in Nat, NEW S, S \subseteq 1..m
  PROVE  /\ \A i : IsLast(i, S \cup {m + 1}) <=> i = m + 1
         /\ \A i : IsLast(i, S) => i \in 1..m
<1>1. /\ \A j \in S \cup {m + 1} : j <= m + 1
      /\ \A j \in S : ~(m + 1 <= j)
  OBVIOUS
<1> QED
  BY <1>1 DEF IsLast

\* an allowed call: the block of its turn runs, with its output if its tool ran.
LEMMA ToldAllowed ==
  ASSUME NEW s, NEW t, NEW q \in Seq(Decided), NEW d \in Decided, d.verdict = "allow",
         NEW kind, NEW other, Told(s, q, "acting", kind, d.turn),
         Acts(s, t, blockRef("tool", d.turn), d.ran, d.isError)
  PROVE  Told(t, Append(q, d), "acting", other, d.turn)
<1> DEFINE at == d.turn
           ref == blockRef("tool", at)
           r == Append(q, d)
           n == Len(q) + 1
<1>0. at \in 1..MaxTurns /\ Len(q) \in Nat /\ n \in Nat
  BY DEF Decided
<1>1. /\ Shelved(t) /\ AllOk(t.outcome) /\ ~Client!Asks(t)
      /\ DOMAIN t.order = DOMAIN s.order /\ ref \in DOMAIN s.order
      /\ \A x : x # ref => Face(t, x) = Face(s, x)
      /\ Face(t, ref).tag = "TOOL"
      /\ Face(t, ref).lines = IF d.ran THEN <<<<"summary">>>> ELSE <<>>
      /\ Face(t, ref).tone = IF d.ran THEN (IF d.isError THEN "deny" ELSE "ok")
                             ELSE Face(s, ref).tone
  BY <1>0 DEF Told, TurnOpened, Acts, Client!Asks
<1>2. ASSUME NEW u \in 1..MaxTurns
      PROVE  /\ blockRef("verdict", u) # ref
             /\ u # at => blockRef("tool", u) # ref
  BY <1>0, BlocksDiffer DEF GateBlock
<1>3. ASSUME NEW u \in 1..MaxTurns PROVE TurnOpened(t, "acting", at, u)
  <2>1. TurnOpened(s, "acting", at, u)
    BY DEF Told
  <2> QED
    BY <1>1, <1>2, <2>1 DEF TurnOpened
<1>4. ASSUME NEW u \in 1..MaxTurns PROVE TurnTold(t, r, u)
  <2>1. TurnTold(s, q, u) /\ Face(t, blockRef("verdict", u)) = Face(s, blockRef("verdict", u))
    BY <1>1, <1>2 DEF Told
  <2> DEFINE A == DecidedIn(q, u, "allow")
             R == RanIn(q, u)
  <2>2. /\ DecidedIn(r, u, "allow") = IF at = u THEN A \cup {n} ELSE A
        /\ DecidedIn(r, u, "deny") = DecidedIn(q, u, "deny")
        /\ RanIn(r, u) = IF at = u /\ d.ran THEN R \cup {n} ELSE R
        /\ r[n] = d /\ A \subseteq 1..Len(q) /\ R \subseteq 1..Len(q)
        /\ \A i \in 1..Len(q) : r[i] = q[i]
    <3>1. /\ DecidedIn(r, u, "allow") = IF d.turn = u /\ d.verdict = "allow"
                                       THEN A \cup {n} ELSE A
          /\ A \subseteq 1..Len(q)
      BY AppendDecides
    <3>2. /\ RanIn(r, u) = IF d.turn = u /\ d.verdict = "allow" /\ d.ran
                           THEN R \cup {n} ELSE R
          /\ R \subseteq 1..Len(q)
      BY AppendRan
    <3>3. DecidedIn(r, u, "deny") = IF d.turn = u /\ d.verdict = "deny"
                                    THEN DecidedIn(q, u, "deny") \cup {n}
                                    ELSE DecidedIn(q, u, "deny")
      BY AppendDecides
    <3>4. r[n] = d /\ \A i \in 1..Len(q) : r[i] = q[i]
      BY AppendKeeps
    <3> HIDE DEF r, n, A, R
    <3> QED
      BY <3>1, <3>2, <3>3, <3>4
  <2>3. /\ \A i : IsLast(i, A \cup {n}) <=> i = n
        /\ \A i : IsLast(i, R \cup {n}) <=> i = n
        /\ \A i : (IsLast(i, A) \/ IsLast(i, R)) => i \in 1..Len(q)
    BY <1>0, <2>2, LastOfGrown
  <2> HIDE DEF r, n, at
  <2>4. CASE u # at
    <3>1. Face(t, blockRef("tool", u)) = Face(s, blockRef("tool", u))
      BY <1>1, <1>2, <2>4
    <3> QED
      BY <2>1, <2>2, <2>3, <2>4, <3>1 DEF TurnTold
  <2>5. CASE u = at
    <3>1. CASE d.ran
      BY <1>1, <2>1, <2>2, <2>3, <2>5, <3>1 DEF TurnTold
    <3>2. CASE ~d.ran
      BY <1>1, <2>1, <2>2, <2>3, <2>5, <3>2 DEF TurnTold
    <3> QED
      BY <3>1, <3>2
  <2> QED
    BY <2>4, <2>5
<1> HIDE DEF r, at
<1>5. Told(t, r, "acting", other, at)
  BY <1>1, <1>3, <1>4 DEF Told
<1> QED
  BY <1>5 DEF r, at

\* A refusal, as the client shows it.
Declines(s, t, ref, tag) ==
  /\ Shelved(t) /\ DOMAIN t.order = DOMAIN s.order \cup {ref} /\ t.outcome = s.outcome
  /\ \A r : r # ref => Face(t, r) = Face(s, r)
  /\ Face(t, ref).tag = IF ref \in DOMAIN s.order THEN Face(s, ref).tag ELSE tag

LEMMA ToldRefused ==
  ASSUME NEW s, NEW t, NEW q \in Seq(Decided), NEW d \in Decided,
         NEW kind, Told(s, q, "acting", kind, d.turn), NEW tag,
         Declines(s, t, blockRef("verdict", d.turn), tag),
         (d.verdict = "deny" /\ tag = "DENIED") \/ d.verdict = "require_human"
  PROVE  \A u \in 1..MaxTurns :
           /\ TurnTold(t, Append(q, d), u)
           /\ d.verdict = "deny" => TurnOpened(t, "acting", d.turn, u)
<1> DEFINE at == d.turn
           ref == blockRef("verdict", at)
           r == Append(q, d)
           n == Len(q) + 1
<1>0. at \in 1..MaxTurns /\ Len(q) \in Nat
  BY DEF Decided
<1>1. TurnOpened(s, "acting", at, at)
  BY <1>0 DEF Told
<1>2. ref \in DOMAIN s.order => Face(s, ref).tag = "DENIED"
  BY <1>1 DEF TurnOpened
<1>3. /\ DOMAIN t.order = DOMAIN s.order \cup {ref}
      /\ \A x : x # ref => Face(t, x) = Face(s, x)
      /\ ref \in DOMAIN s.order => Face(t, ref).tag = "DENIED"
      /\ d.verdict = "deny" => Face(t, ref).tag = "DENIED"
  BY <1>2 DEF Declines
<1>4. ASSUME NEW u \in 1..MaxTurns
      PROVE  /\ blockRef("tool", u) # ref
             /\ u # at => blockRef("verdict", u) # ref
             /\ u = at => blockRef("verdict", u) = ref
  BY <1>0, BlocksDiffer DEF GateBlock
<1> HIDE DEF ref
<1>5. ASSUME NEW u \in 1..MaxTurns, d.verdict = "deny" PROVE TurnOpened(t, "acting", at, u)
  <2>1. TurnOpened(s, "acting", at, u)
    BY DEF Told
  <2> HIDE DEF at
  <2> QED
    BY <1>3, <1>4, <1>5, <2>1 DEF TurnOpened
<1>6. ASSUME NEW u \in 1..MaxTurns PROVE TurnTold(t, r, u)
  <2>1. TurnTold(s, q, u) /\ Face(t, blockRef("tool", u)) = Face(s, blockRef("tool", u))
    BY <1>3, <1>4 DEF Told
  <2> DEFINE A == DecidedIn(q, u, "allow")
             R == RanIn(q, u)
  <2>2. /\ DecidedIn(r, u, "allow") = A /\ RanIn(r, u) = R
        /\ DecidedIn(r, u, "deny") = IF at = u /\ d.verdict = "deny"
                                     THEN DecidedIn(q, u, "deny") \cup {n}
                                     ELSE DecidedIn(q, u, "deny")
        /\ A \subseteq 1..Len(q) /\ R \subseteq 1..Len(q)
        /\ \A i \in 1..Len(q) : r[i] = q[i]
    <3>1. /\ DecidedIn(r, u, "allow") = IF at = u /\ d.verdict = "allow"
                                       THEN A \cup {n} ELSE A
          /\ A \subseteq 1..Len(q)
      BY AppendDecides
    <3>2. /\ RanIn(r, u) = IF at = u /\ d.verdict = "allow" /\ d.ran
                           THEN R \cup {n} ELSE R
          /\ R \subseteq 1..Len(q)
      BY AppendRan
    <3>3. DecidedIn(r, u, "deny") = IF at = u /\ d.verdict = "deny"
                                    THEN DecidedIn(q, u, "deny") \cup {n}
                                    ELSE DecidedIn(q, u, "deny")
      BY AppendDecides
    <3>4. \A i \in 1..Len(q) : r[i] = q[i]
      BY AppendKeeps
    <3> HIDE DEF r, n, A, R, at
    <3> QED
      BY <3>1, <3>2, <3>3, <3>4
  <2>3. \A i : (IsLast(i, A) \/ IsLast(i, R)) => i \in 1..Len(q)
    BY <1>0, <2>2, LastOfGrown
  <2>4. DecidedIn(r, u, "deny") # {} => Face(t, blockRef("verdict", u)).tag = "DENIED"
    <3>1. DecidedIn(q, u, "deny") # {} => Face(s, blockRef("verdict", u)).tag = "DENIED"
      BY <2>1 DEF TurnTold
    <3>2. Face(s, ref).tag = "DENIED" => ref \in DOMAIN s.order
      BY Looks DEF Face
    <3> HIDE DEF r, n, at
    <3> QED
      BY <1>3, <1>4, <2>2, <3>1, <3>2
  <2> HIDE DEF r, n, at
  <2> QED
    BY <2>1, <2>2, <2>3, <2>4 DEF TurnTold
<1> QED
  BY <1>5, <1>6

\* a refused call is shown, and the run goes on:
LEMMA ToldDenied ==
  ASSUME NEW s, NEW t, NEW q \in Seq(Decided), NEW d \in Decided, d.verdict = "deny",
         NEW kind, NEW other, Told(s, q, "acting", kind, d.turn),
         Declines(s, t, blockRef("verdict", d.turn), "DENIED"), ~Client!Asks(t)
  PROVE  Told(t, Append(q, d), "acting", other, d.turn)
<1>1. \A u \in 1..MaxTurns : /\ TurnTold(t, Append(q, d), u)
                             /\ TurnOpened(t, "acting", d.turn, u)
  BY ToldRefused
<1>2. Shelved(t) /\ AllOk(t.outcome)
  BY DEF Declines, Told
<1> QED
  BY <1>1, <1>2 DEF Told

\* the run is suspended, and the client asks for the decision.
LEMMA ToldHeld ==
  ASSUME NEW s, NEW t, NEW v, NEW q \in Seq(Decided), NEW d \in Decided,
         d.verdict = "require_human", NEW kind, Told(s, q, "acting", kind, d.turn),
         Declines(s, t, blockRef("verdict", d.turn), "APPROVAL"), Client!Asks(t),
         Untold(t, v), v.state = "AWAITING_APPROVAL", NEW last
  PROVE  Told(v, Append(q, d), "over", "awaiting_approval", last)
<1>1. \A u \in 1..MaxTurns : TurnTold(t, Append(q, d), u)
  BY ToldRefused
<1>2. \A u \in 1..MaxTurns : TurnTold(v, Append(q, d), u)
  BY <1>1, UntoldTurn
<1>3. Shelved(v) /\ AllOk(v.outcome) /\ Client!Asks(v)
  BY DEF Declines, Told, Untold, Client!Asks
<1> QED
  BY <1>2, <1>3 DEF Told, TurnOpened, StopState

-----------------------------------------------------------------------------
(* What a run has told as long as its log is full *)

\* Where the run is with its turn: before its proposal, acting on it, or over.
Phase == IF pc \in {"gate", "observe"} THEN "acting"
         ELSE IF Over /\ log # <<>> THEN "over" ELSE "before"

\* A full log tells what is settled.
Agrees == ~logErr => Told(Story(Events), Settled, Phase, out.stop, turn)

LEMMA AgreesInit == Init => Agrees
<1> SUFFICES ASSUME Init PROVE Agrees
  OBVIOUS
<1>1. /\ log = <<>> /\ Settled = <<>> /\ pc = "boot" /\ out.stop = "turn_limit"
  BY DEF Init, Settled
<1>2. Events = <<>> /\ Phase = "before"
  BY <1>1 DEF Events, Phase, Over
<1> DEFINE s == Client!New
<1>3. Shelved(s) /\ DOMAIN s.order = {} /\ s.approval = <<>>
  BY NewIsShelved
<1>4. s.outcome = <<>>
  BY DEF Client!New
<1> HIDE DEF s
<1>5. AllOk(s.outcome) /\ ~Client!Asks(s)
  <2>1. DOMAIN <<>> = {}
    OBVIOUS
  <2> QED
    BY <1>3, <1>4, <2>1 DEF AllOk, Client!Asks
<1>6. \A ref : Face(s, ref).tag = "nothing"
  BY <1>3, Looks DEF Face
<1>7. \A t, v : DecidedIn(<<>>, t, v) = {} /\ RanIn(<<>>, t) = {}
  BY DEF DecidedIn, RanIn
<1>8. \A t \in 1..MaxTurns : TurnTold(s, <<>>, t) /\ TurnOpened(s, "before", turn, t)
  BY <1>3, <1>6, <1>7 DEF TurnTold, TurnOpened, IsLast
<1>9. Told(s, <<>>, "before", out.stop, turn)
  BY <1>3, <1>5, <1>8 DEF Told
<1> QED
  BY <1>1, <1>2, <1>9, StoryGrows DEF Agrees, s

\* What a write of the observer that reaches the host adds to the story.
LEMMA Retold ==
  ASSUME LoopInv, LoopInv', Agrees, NEW evs \in Seq(Event), append(evs), ~logErr'
  PROVE  /\ Told(Story(Events), Settled, Phase, out.stop, turn)
         /\ Events' = Events \o evs /\ Events \in Seq(Event)
         /\ evs # <<>> => log' # <<>>
<1>1. Events \in Seq(Event) /\ ~logErr
  BY EventsTyped, EventsGrow
<1>2. PICK n \in 0..Len(evs) : /\ Events' = Events \o SubSeq(evs, 1, n)
                               /\ logErr' = (n < Len(evs))
  BY <1>1, EventsGrow
<1>3. n = Len(evs)
  <2>1. ~(n < Len(evs))
    BY <1>2, Zenon
  <2> QED
    BY <2>1
<1>4. Events' = Events \o evs
  BY <1>2, <1>3, PrefixOfSubSeq
<1>5. evs # <<>> => log' # <<>>
  <2>1. LoopInv' => (Len(Events) = Len(log))'
    BY EventsTyped, PTL
  <2>2. Len(Events') = Len(log')
    BY <2>1
  <2>3. Len(Events') = Len(Events) + Len(evs)
    BY <1>1, <1>4, ConcatLaws
  <2>4. evs # <<>> => Len(evs) > 0
    BY EmptySeq
  <2>5. Len(Events) \in Nat /\ Len(evs) \in Nat /\ (log' = <<>> => Len(log') = 0)
    BY <1>1
  <2> QED
    BY <2>2, <2>3, <2>4, <2>5
<1> QED
  BY <1>1, <1>4, <1>5 DEF Agrees

\* A run that ends without a question: what it says last is how.
LEMMA AgreesFinished ==
  ASSUME LoopInv, LoopInv', Agrees, Settled' = Settled, Phase # "over", pc' = "finished",
         out'.stop # "awaiting_approval",
         NEW e \in Event, e.kind = "TurnState", e.what = StopState(out'.stop),
         \/ append(<<e>>)
         \/ \E a \in Event : a.kind \in Asides /\ append(<<a, e>>)
  PROVE  Agrees'
<1> SUFFICES ASSUME ~logErr' PROVE Told(Story(Events'), Settled', Phase', out'.stop, turn')
  BY DEF Agrees
<1> DEFINE s == Story(Events)
<1>1. ASSUME NEW t, Untold(s, t), t.state = StopState(out'.stop), Story(Events') = t,
             Told(s, Settled, Phase, out.stop, turn), log' # <<>>
      PROVE  Told(Story(Events'), Settled', Phase', out'.stop, turn')
  <2>1. Phase' = "over"
    BY <1>1 DEF Phase, Over
  <2> HIDE DEF s
  <2> QED
    BY <1>1, <2>1, ToldFinished
<1>2. CASE append(<<e>>)
  <2>1. <<e>> \in Seq(Event) /\ <<e>> # <<>>
    OBVIOUS
  <2>2. /\ Told(s, Settled, Phase, out.stop, turn)
        /\ Events' = Events \o <<e>> /\ Events \in Seq(Event) /\ log' # <<>>
    BY <1>2, <2>1, Retold
  <2>3. Story(Events') = FoldedIn(s, e) /\ Shelved(s)
    BY <2>2, StoryOfOne DEF Told
  <2> HIDE DEF s
  <2>4. Untold(s, FoldedIn(s, e)) /\ FoldedIn(s, e).state = e.what
    BY <2>3, AsideUntold DEF Asides
  <2> QED
    BY <1>1, <2>2, <2>3, <2>4
<1>3. ASSUME NEW a \in Event, a.kind \in Asides, append(<<a, e>>)
      PROVE  Told(Story(Events'), Settled', Phase', out'.stop, turn')
  <2>1. <<a, e>> \in Seq(Event) /\ <<a, e>> # <<>>
    OBVIOUS
  <2>2. /\ Told(s, Settled, Phase, out.stop, turn)
        /\ Events' = Events \o <<a, e>> /\ Events \in Seq(Event) /\ log' # <<>>
    BY <1>3, <2>1, Retold
  <2> DEFINE t == FoldedIn(s, a)
             u == FoldedIn(t, e)
  <2>3. Story(Events') = u /\ Shelved(s)
    BY <2>2, StoryOfTwo DEF Told
  <2> HIDE DEF s
  <2>4. Untold(s, t)
    BY <1>3, <2>3, AsideUntold
  <2> HIDE DEF t
  <2>5. Untold(t, u) /\ u.state = e.what
    BY <2>4, AsideUntold DEF Asides, Untold
  <2>6. Untold(s, u)
    BY <2>4, <2>5, UntoldThrough
  <2> HIDE DEF u
  <2> QED
    BY <1>1, <2>2, <2>3, <2>5, <2>6
<1> QED
  BY <1>2, <1>3

LEMMA AgreesBoot ==
  ASSUME LoopInv, LoopInv', Tied, Began, Agrees, Boot
  PROVE  Agrees'
<1> SUFFICES ASSUME ~logErr' PROVE Told(Story(Events'), Settled', Phase', out'.stop, turn')
  BY DEF Agrees
<1> DEFINE s == Story(Events)
<1>1. /\ Settled' = Settled /\ UNCHANGED <<out, turn>> /\ Phase = "before"
      /\ log = <<>>
  BY DEF Boot, Settled, history, Phase, Over, Began
<1>2. CASE UNCHANGED <<log, logErr>> /\ pc' = "exited"
  <2>1. Phase' = "before" /\ Events' = Events
    BY <1>1, <1>2 DEF Phase, Over, Events
  <2> QED
    BY <1>1, <1>2, <2>1 DEF Agrees
<1>3. ASSUME NEW t, Untold(s, t), Story(Events') = t, pc' = "plan",
             Told(s, Settled, Phase, out.stop, turn)
      PROVE  Told(Story(Events'), Settled', Phase', out'.stop, turn')
  <2>1. Phase' = "before"
    BY <1>3 DEF Phase, Over
  <2> HIDE DEF s
  <2> QED
    BY <1>1, <1>3, <2>1, ToldQuietly
<1>4. /\ SessionStarted \in Event /\ SessionStarted.kind \in Asides
      /\ OfinScope \in Event /\ OfinScope.kind \in Asides
  <2>1. /\ "SessionStarted" \in EventKind \ GateKinds /\ "OfinScope" \in EventKind \ GateKinds
        /\ 0 \in 0..MaxTurns /\ "start" \in What /\ "rules" \in What
    BY ConstantsTyped DEF EventKind, What, GateKinds
  <2>2. SessionStarted \in Event /\ OfinScope \in Event
    BY <2>1, Mute DEF SessionStarted, OfinScope
  <2> QED
    BY <2>2 DEF SessionStarted, OfinScope, Asides, Ev
<1>5. CASE append(<<SessionStarted>>) /\ pc' = "plan"
  <2>1. <<SessionStarted>> \in Seq(Event)
    BY <1>4
  <2>2. /\ Told(s, Settled, Phase, out.stop, turn)
        /\ Events' = Events \o <<SessionStarted>> /\ Events \in Seq(Event)
    BY <1>5, <2>1, Retold
  <2>3. Story(Events') = FoldedIn(s, SessionStarted) /\ Shelved(s)
    BY <1>4, <2>2, StoryOfOne DEF Told
  <2> HIDE DEF s
  <2>4. Untold(s, FoldedIn(s, SessionStarted))
    BY <1>4, <2>3, AsideUntold
  <2> QED
    BY <1>3, <1>5, <2>2, <2>3, <2>4
<1>6. CASE append(<<SessionStarted, OfinScope>>) /\ pc' = "plan"
  <2>1. <<SessionStarted, OfinScope>> \in Seq(Event)
    BY <1>4
  <2>2. /\ Told(s, Settled, Phase, out.stop, turn)
        /\ Events' = Events \o <<SessionStarted, OfinScope>> /\ Events \in Seq(Event)
    BY <1>6, <2>1, Retold
  <2> DEFINE t == FoldedIn(s, SessionStarted)
             u == FoldedIn(t, OfinScope)
  <2>3. Story(Events') = u /\ Shelved(s)
    BY <1>4, <2>2, StoryOfTwo DEF Told
  <2> HIDE DEF s
  <2>4. Untold(s, t)
    BY <1>4, <2>3, AsideUntold
  <2> HIDE DEF t
  <2>5. Untold(t, u)
    BY <1>4, <2>4, AsideUntold DEF Untold
  <2>6. Untold(s, u)
    BY <2>4, <2>5, UntoldThrough
  <2> HIDE DEF u
  <2> QED
    BY <1>3, <1>6, <2>2, <2>3, <2>6
<1>7. PICK file : \/ UNCHANGED <<log, logErr>> /\ pc' = "exited"
                  \/ /\ append(IF file = <<>> THEN <<SessionStarted>>
                               ELSE <<SessionStarted, OfinScope>>)
                     /\ pc' = "plan"
  BY DEF Boot
<1> QED
  BY <1>2, <1>5, <1>6, <1>7

LEMMA AgreesPlanning ==
  ASSUME LoopInv, LoopInv', Tied, Agrees, Planning
  PROVE  Agrees'
<1> SUFFICES ASSUME ~logErr' PROVE Told(Story(Events'), Settled', Phase', out'.stop, turn')
  BY DEF Agrees
<1> DEFINE s == Story(Events)
           e == TurnState("PLANNING")
<1>1. /\ Settled' = Settled /\ UNCHANGED <<out, turn>> /\ Phase = "before" /\ Phase' = "before"
      /\ append(<<e>>)
  BY DEF Planning, Settled, history, Phase, Over
<1>2. e \in Event /\ e.kind \in Asides
  <2>1. turn \in 0..MaxTurns /\ "TurnState" \in EventKind /\ "PLANNING" \in What /\ 0 \in Nat
    BY ConstantsTyped DEF LoopInv, TypeOK, Planning, InLimit, EventKind, What
  <2>2. e \in Event
    BY <2>1, EvTyped DEF TurnState
  <2> QED
    BY <2>2 DEF TurnState, Ev, Asides
<1> HIDE DEF e
<1>3. <<e>> \in Seq(Event)
  BY <1>2
<1>4. /\ Told(s, Settled, Phase, out.stop, turn)
      /\ Events' = Events \o <<e>> /\ Events \in Seq(Event)
  BY <1>1, <1>3, Retold
<1>5. Story(Events') = FoldedIn(s, e) /\ Shelved(s)
  BY <1>2, <1>4, StoryOfOne DEF Told
<1> HIDE DEF s
<1>6. Untold(s, FoldedIn(s, e))
  BY <1>2, <1>5, AsideUntold
<1> QED
  BY <1>1, <1>4, <1>5, <1>6, ToldQuietly

LEMMA AgreesTurnLimit ==
  ASSUME LoopInv, LoopInv', Tied, Agrees, TurnLimit
  PROVE  Agrees'
<1> DEFINE e == [TurnState(StopState("turn_limit")) EXCEPT !.turn = turn - 1]
<1>1. /\ Settled' = Settled /\ UNCHANGED out /\ Phase = "before" /\ pc' = "finished"
      /\ append(<<e>>) /\ out.stop = "turn_limit"
  BY DEF TurnLimit, Settled, history, Phase, Over, LoopInv, Working
<1>2. e \in Event /\ e.kind = "TurnState" /\ e.what = StopState("turn_limit")
  <2>0. turn - 1 \in 0..MaxTurns
    <3>1. turn \in 1..(MaxTurns + 1)
      BY DEF LoopInv, TypeOK
    <3> QED
      BY <3>1, ConstantsTyped
  <2>1. "TurnState" \in EventKind /\ 0 \in Nat /\ StopState("turn_limit") \in What
    BY DEF EventKind, What, StopState
  <2>2. e = Ev("TurnState", turn - 1, StopState("turn_limit"), 0)
    BY DEF TurnState, Ev
  <2>3. e \in Event
    BY <2>0, <2>1, <2>2, EvTyped
  <2> QED
    BY <2>2, <2>3 DEF Ev
<1> HIDE DEF e
<1> QED
  BY <1>1, <1>2, AgreesFinished

LEMMA PairOfEvents ==
  ASSUME NEW a \in Event, NEW b \in Event
  PROVE  <<a, b>> = Append(<<a>>, b) /\ <<a>> \in Seq(Event)
OBVIOUS

LEMMA TripleAppended ==
  ASSUME NEW a \in Event, NEW b \in Event, NEW c \in Event
  PROVE  <<a, b, c>> = Append(<<a, b>>, c) /\ <<a, b>> \in Seq(Event)
OBVIOUS

LEMMA TripleOfEvents ==
  ASSUME NEW a \in Event, NEW p \in Event, NEW x \in Event
  PROVE  <<a>> \o <<p, x>> = <<a, p, x>>
<1>1. <<a>> \in Seq(Event) /\ <<p, x>> \in Seq(Event) /\ <<a, p, x>> \in Seq(Event)
  OBVIOUS
<1> DEFINE l == <<a>>
           m == <<p, x>>
           n == <<a, p, x>>
<1>2. /\ Len(l) = 1 /\ Len(m) = 2 /\ Len(n) = 3 /\ l[1] = a /\ m[1] = p /\ m[2] = x
      /\ n[1] = a /\ n[2] = p /\ n[3] = x
  OBVIOUS
<1> HIDE DEF l, m, n
<1>3. /\ l \o m \in Seq(Event) /\ Len(l \o m) = 3
      /\ \A i \in 1..3 : (l \o m)[i] = IF i <= 1 THEN l[i] ELSE m[i - 1]
  <2>1. l \in Seq(Event) /\ m \in Seq(Event)
    BY <1>1 DEF l, m
  <2>2. /\ l \o m \in Seq(Event) /\ Len(l \o m) = Len(l) + Len(m)
        /\ \A i \in 1..(Len(l) + Len(m)) :
             (l \o m)[i] = IF i <= Len(l) THEN l[i] ELSE m[i - Len(l)]
    BY <2>1, ConcatLaws
  <2> QED
    BY <1>2, <2>2
<1>4. \A i \in 1..3 : (l \o m)[i] = n[i]
  <2>1. (l \o m)[1] = l[1] /\ (l \o m)[2] = m[1] /\ (l \o m)[3] = m[2]
    BY <1>3
  <2>2. \A i \in 1..3 : i = 1 \/ i = 2 \/ i = 3
    OBVIOUS
  <2> QED
    BY <1>2, <2>1, <2>2
<1>5. n \in Seq(Event)
  BY <1>1 DEF n
<1>6. l \o m = n
  BY <1>2, <1>3, <1>4, <1>5, SeqEqual
<1> QED
  BY <1>6 DEF l, m, n

LEMMA AgreesComplete ==
  ASSUME LoopInv, LoopInv', Tied, Agrees, Complete \/ CompleteFails
  PROVE  Agrees'
<1>1. /\ turn \in 1..MaxTurns /\ Phase = "before" /\ UNCHANGED turn
      /\ Settled' = Settled
  <2>1. pc = "complete" /\ pc' # "observe" /\ UNCHANGED <<trail, turn>>
    BY DEF Complete, CompleteFails, Refused, Answered, Finish, history
  <2> QED
    BY <2>1, ConstantsTyped DEF Settled, Phase, Over, LoopInv, TypeOK
<1>2. turn \in 0..MaxTurns
  BY <1>1, ConstantsTyped
<1>3. \A kind \in StopKind : /\ TurnState(StopState(kind)) \in Event
                             /\ TurnState(StopState(kind)).kind = "TurnState"
                             /\ TurnState(StopState(kind)).what = StopState(kind)
  <2> TAKE kind \in StopKind
  <2>1. "TurnState" \in EventKind /\ StopState(kind) \in What /\ 0 \in Nat
    BY DEF EventKind, What, StopState
  <2> QED
    BY <1>2, <2>1, EvTyped DEF TurnState, Ev
<1>4. ASSUME NEW kind \in StopKind \ {"awaiting_approval"}, Finish(kind, <<>>)
      PROVE  Agrees'
  <2> DEFINE e == TurnState(StopState(kind))
  <2>1. /\ pc' = "finished" /\ out'.stop = kind /\ append(Append(<<>>, e))
    BY <1>4 DEF Finish, LoopInv, TypeOK
  <2> HIDE DEF e
  <2>2. Append(<<>>, e) = <<e>>
    OBVIOUS
  <2>3. append(<<e>>)
    BY <2>1, <2>2
  <2> QED
    BY <1>1, <1>3, <2>1, <2>3, AgreesFinished DEF e
<1>5. CASE CompleteFails
  <2>1. Finish("error", <<>>) /\ "error" \in StopKind \ {"awaiting_approval"}
    BY <1>5 DEF CompleteFails, StopKind
  <2> QED
    BY <1>4, <2>1
<1>6. CASE Refused(stop')
  <2>1. PICK kind \in {"refused", "max_tokens"} : Finish(kind, <<>>)
    BY <1>6 DEF Refused
  <2>2. kind \in StopKind \ {"awaiting_approval"}
    BY DEF StopKind
  <2> QED
    BY <1>4, <2>1, <2>2
<1>7. AgentMessage \in Event /\ AgentMessage.kind \in Asides
  <2>1. "AgentMessage" \in EventKind /\ "text" \in What /\ 0 \in Nat
    BY DEF EventKind, What
  <2>2. AgentMessage \in Event
    BY <1>2, <2>1, EvTyped DEF AgentMessage
  <2> QED
    BY <2>2 DEF AgentMessage, Ev, Asides
<1>8. ASSUME NEW batch \in Batch, NEW text \in BOOLEAN, Answered(batch, text), batch = <<>>
      PROVE  Agrees'
  <2> DEFINE said == IF text THEN <<AgentMessage>> ELSE <<>>
  <2>1. Finish("done", said)
    BY <1>8 DEF Answered
  <2>2. CASE ~text
    <3>1. said = <<>> /\ "done" \in StopKind \ {"awaiting_approval"}
      BY <2>2 DEF StopKind
    <3> QED
      BY <1>4, <2>1, <3>1
  <2>3. CASE text
    <3> DEFINE e == TurnState(StopState("done"))
               a == AgentMessage
    <3>1. pc' = "finished" /\ out'.stop = "done" /\ append(Append(said, e)) /\ said = <<a>>
      BY <2>1, <2>3 DEF Finish, LoopInv, TypeOK
    <3>2. e \in Event /\ e.kind = "TurnState" /\ e.what = StopState("done")
      <4>1. "done" \in StopKind
        BY DEF StopKind
      <4> QED
        BY <1>3, <4>1
    <3>5. a \in Event /\ a.kind \in Asides
      BY <1>7
    <3> HIDE DEF e, a, said
    <3>3. Append(<<a>>, e) = <<a, e>>
      BY <3>2, <3>5, PairOfEvents
    <3>4. append(<<a, e>>)
      BY <3>1, <3>3
    <3> QED
      BY <1>1, <3>1, <3>2, <3>4, <3>5, AgreesFinished
  <2> QED
    BY <2>2, <2>3
<1>9. ASSUME NEW batch \in Batch, NEW text \in BOOLEAN, Answered(batch, text), batch # <<>>,
             ~logErr'
      PROVE  Told(Story(Events'), Settled', Phase', out'.stop, turn')
  <2> DEFINE said == IF text THEN <<AgentMessage>> ELSE <<>>
             p == ToolProposed(Len(batch))
             x == TurnState("EXECUTING")
             s == Story(Events)
             ref == blockRef("tool", turn)
  <2>1. append(said \o <<p, x>>) /\ pc' = "gate" /\ UNCHANGED out
    BY <1>9 DEF Answered
  <2>2. Phase' = "acting"
    BY <2>1 DEF Phase
  <2>3. /\ p \in Event /\ p.kind = "ToolProposed" /\ p.turn = turn
        /\ x \in Event /\ x.kind \in Asides
    <3>1. /\ "ToolProposed" \in EventKind /\ "TurnState" \in EventKind
          /\ "calls" \in What /\ "EXECUTING" \in What /\ Len(batch) \in Nat /\ 0 \in Nat
      BY BatchTyped, ConstantsTyped DEF EventKind, What
    <3>2. p \in Event /\ x \in Event
      BY <1>2, <3>1, EvTyped DEF ToolProposed, TurnState
    <3> QED
      BY <3>2 DEF ToolProposed, TurnState, Ev, Asides
  <2> HIDE DEF p, x
  <2>4. ASSUME NEW t, Untold(s, t), Told(s, Settled, Phase, out.stop, turn),
               Story(Events') = FoldedIn(FoldedIn(t, p), x)
        PROVE  Told(Story(Events'), Settled', Phase', out'.stop, turn')
    <3> DEFINE u == FoldedIn(t, p)
               v == FoldedIn(u, x)
    <3> HIDE DEF s
    <3>1. Told(t, Settled, "before", out.stop, turn)
      BY <1>1, <2>4, ToldQuietly
    <3>2. Shelved(t) /\ ref \notin DOMAIN t.order
      BY <1>1, <3>1 DEF Told, TurnOpened
    <3>3. PICK lines : Reshapes(t, u, ref, Look("PROPOSED", "tool", lines))
      BY <2>3, <3>2, ProposalFolded
    <3> HIDE DEF u
    <3>4. Told(u, Settled, "acting", out.stop, turn)
      BY <1>1, <3>1, <3>3, ToldProposed
    <3>5. Untold(u, v)
      BY <2>3, <3>4, AsideUntold DEF Told
    <3> HIDE DEF v
    <3>6. Told(v, Settled, "acting", out.stop, turn)
      BY <3>4, <3>5, ToldQuietly
    <3>7. Story(Events') = v
      BY <2>4 DEF u, v
    <3> QED
      BY <1>1, <2>1, <2>2, <3>6, <3>7
  <2>5. CASE ~text
    <3>1. said \o <<p, x>> = <<p, x>> /\ <<p, x>> \in Seq(Event)
      BY <2>3, <2>5
    <3>2. append(<<p, x>>)
      BY <2>1, <3>1
    <3>3. /\ Told(s, Settled, Phase, out.stop, turn)
          /\ Events' = Events \o <<p, x>> /\ Events \in Seq(Event)
      BY <1>9, <3>1, <3>2, Retold
    <3>4. Story(Events') = FoldedIn(FoldedIn(s, p), x) /\ Untold(s, s)
      BY <2>3, <3>3, StoryOfTwo, UntoldSelf DEF Told
    <3> HIDE DEF s
    <3> QED
      BY <2>4, <3>3, <3>4
  <2>6. CASE text
    <3> DEFINE a == AgentMessage
    <3>0. a \in Event /\ a.kind \in Asides /\ said = <<a>>
      BY <1>7, <2>6
    <3> HIDE DEF a, said
    <3>1. <<a>> \o <<p, x>> = <<a, p, x>> /\ <<a, p, x>> \in Seq(Event)
      BY <2>3, <3>0, TripleOfEvents
    <3>2. append(<<a, p, x>>)
      BY <2>1, <3>0, <3>1
    <3>3. /\ Told(s, Settled, Phase, out.stop, turn)
          /\ Events' = Events \o <<a, p, x>> /\ Events \in Seq(Event)
      BY <1>9, <3>1, <3>2, Retold
    <3>4. Story(Events') = FoldedIn(FoldedIn(FoldedIn(s, a), p), x) /\ Shelved(s)
      BY <2>3, <3>0, <3>3, StoryOfThree DEF Told
    <3> HIDE DEF s
    <3>5. Untold(s, FoldedIn(s, a))
      BY <3>0, <3>4, AsideUntold
    <3> QED
      BY <2>4, <3>3, <3>4, <3>5
  <2> QED
    BY <2>5, <2>6
<1>10. ASSUME NEW batch \in Batch, NEW text \in BOOLEAN, Answered(batch, text)
       PROVE  Agrees'
  BY <1>8, <1>9, <1>10 DEF Agrees
<1> QED
  BY <1>5, <1>6, <1>10 DEF Complete

\* The event of a verdict is one of the gate's, in the turn of the decision.
LEMMA VerdictEvent ==
  ASSUME NEW d \in Decided
  PROVE  LET e == Ev("OfinVerdict", d.turn, d.verdict, d.rule)
         IN  /\ e \in Event /\ e.kind = "OfinVerdict"
             /\ e.turn = d.turn /\ e.what = d.verdict
<1>1. /\ d.turn \in 0..MaxTurns /\ d.verdict \in What /\ d.rule \in Nat
      /\ "OfinVerdict" \in EventKind
  BY ConstantsTyped DEF Decided, What, EventKind
<1>2. Ev("OfinVerdict", d.turn, d.verdict, d.rule) \in Event
  BY <1>1, EvTyped
<1> QED
  BY <1>2 DEF Ev

LEMMA OutputEvent ==
  ASSUME NEW d \in Decided
  PROVE  LET a == Ev("ToolOutput", d.turn, Status(d.isError), 0)
             b == Ev("ToolCompleted", d.turn, Status(d.isError), 0)
         IN  /\ a \in Event /\ a.kind = "ToolOutput"
             /\ b \in Event /\ b.kind = "ToolCompleted"
             /\ a.turn = d.turn /\ a.what = Status(d.isError)
             /\ b.turn = d.turn /\ b.what = Status(d.isError)
<1>1. /\ d.turn \in 0..MaxTurns /\ Status(d.isError) \in What /\ 0 \in Nat
      /\ "ToolOutput" \in EventKind /\ "ToolCompleted" \in EventKind
  BY ConstantsTyped DEF Decided, What, EventKind, Status
<1>2. /\ Ev("ToolOutput", d.turn, Status(d.isError), 0) \in Event
      /\ Ev("ToolCompleted", d.turn, Status(d.isError), 0) \in Event
  BY <1>1, EvTyped
<1> QED
  BY <1>2 DEF Ev

LEMMA AuditEventsShort ==
  ASSUME NEW d \in Decided
  PROVE  LET e == Ev("OfinVerdict", d.turn, d.verdict, d.rule)
             a == Ev("ToolOutput", d.turn, Status(d.isError), 0)
             b == Ev("ToolCompleted", d.turn, Status(d.isError), 0)
         IN  AuditEvents(d) = IF d.ran THEN <<e, a, b>> ELSE <<e>>
<1> DEFINE e == Ev("OfinVerdict", d.turn, d.verdict, d.rule)
           a == Ev("ToolOutput", d.turn, Status(d.isError), 0)
           b == Ev("ToolCompleted", d.turn, Status(d.isError), 0)
<1>1. AuditEvents(d) = <<e>> \o (IF d.ran THEN <<a, b>> ELSE <<>>)
  BY DEF AuditEvents
<1>2. e \in Event /\ a \in Event /\ b \in Event
  BY VerdictEvent, OutputEvent
<1> HIDE DEF e, a, b
<1>3. <<e>> \o <<>> = <<e>>
  BY <1>2
<1>4. <<e>> \o <<a, b>> = <<e, a, b>>
  BY <1>2, TripleOfEvents
<1> QED
  BY <1>1, <1>3, <1>4 DEF e, a, b

LEMMA AgreesObserve ==
  ASSUME LoopInv, LoopInv', Tied, Agrees, Observe
  PROVE  Agrees'
<1> SUFFICES ASSUME ~logErr' PROVE Told(Story(Events'), Settled', Phase', out'.stop, turn')
  BY DEF Agrees
<1> DEFINE d == trail[Len(trail)]
           q == Settled
           s == Story(Events)
           e == Ev("OfinVerdict", d.turn, d.verdict, d.rule)
           a == Ev("ToolOutput", d.turn, Status(d.isError), 0)
           b == Ev("ToolCompleted", d.turn, Status(d.isError), 0)
           ref == blockRef("tool", d.turn)
           t == FoldedIn(s, e)
           v == Story(Events')
<1>1. /\ d \in Decided /\ q \in Seq(Decided) /\ Settled' = Append(q, d) /\ append(AuditEvents(d))
  BY Settles, SettledTyped, ObserveAudits
<1>2. /\ d.turn = turn /\ turn' = turn /\ Phase = "acting" /\ Phase' = "acting"
      /\ d.verdict \in {"allow", "deny"} /\ (d.ran => d.verdict = "allow")
  <2>1. /\ pc = "observe" /\ pc' = "gate" /\ UNCHANGED turn
        /\ outcome.decision.verdict # "require_human"
    BY DEF Observe, Holds
  <2>2. d.verdict \in Verdicts
    BY <1>1 DEF Decided
  <2> QED
    BY <2>1, <2>2 DEF Tied, Phase, Verdicts
<1>3. /\ e \in Event /\ e.kind = "OfinVerdict" /\ e.turn = d.turn /\ e.what = d.verdict
      /\ a \in Event /\ a.kind = "ToolOutput" /\ a.turn = d.turn /\ a.what = Status(d.isError)
      /\ b \in Event /\ b.kind = "ToolCompleted" /\ b.turn = d.turn /\ b.what = Status(d.isError)
      /\ d.isError \in BOOLEAN /\ d.ran \in BOOLEAN /\ d.turn \in 1..MaxTurns
  BY <1>1, VerdictEvent, OutputEvent DEF Decided
<1>4. AuditEvents(d) = IF d.ran THEN <<e, a, b>> ELSE <<e>>
  BY <1>1, AuditEventsShort
<1> HIDE DEF e, a, b
<1>5. AuditEvents(d) \in Seq(Event)
  BY <1>3, <1>4
<1>6. /\ Told(s, q, "acting", out.stop, d.turn)
      /\ Events' = Events \o AuditEvents(d) /\ Events \in Seq(Event)
  BY <1>1, <1>2, <1>5, Retold
<1>7. v = IF d.ran THEN FoldedIn(FoldedIn(t, a), b) ELSE t
  BY <1>3, <1>4, <1>6, StoryOfOne, StoryOfThree
<1> HIDE DEF s, v, q, d
<1>8. Shelved(s) /\ AllOk(s.outcome) /\ ref \in DOMAIN s.order
  BY <1>3, <1>6 DEF Told, TurnOpened
<1>9. CASE d.verdict = "allow"
  <2>1. Acts(s, t, ref, FALSE, FALSE)
    BY <1>3, <1>8, <1>9, AllowActs
  <2>2. d.ran => Acts(s, FoldedIn(FoldedIn(t, a), b), ref, TRUE, d.isError)
    <3> HIDE DEF t
    <3> QED
      BY <1>3, <1>8, <2>1, OutputActs
  <2>3. ~d.ran => Acts(s, t, ref, FALSE, d.isError)
    BY <2>1 DEF Acts
  <2> HIDE DEF t
  <2>4. Acts(s, v, ref, d.ran, d.isError)
    BY <1>3, <1>7, <2>2, <2>3
  <2>5. Told(v, Append(q, d), "acting", out'.stop, d.turn)
    BY <1>1, <1>6, <1>9, <2>4, ToldAllowed
  <2> QED
    BY <1>1, <1>2, <2>5 DEF v
<1>10. CASE d.verdict = "deny"
  <2>1. v = t /\ ~d.ran
    BY <1>2, <1>7, <1>10
  <2>2. Declines(s, t, blockRef("verdict", d.turn), "DENIED") /\ ~Client!Asks(t)
    BY <1>3, <1>8, <1>10, RefusalFolded DEF Declines
  <2> HIDE DEF t
  <2>3. Told(t, Append(q, d), "acting", out'.stop, d.turn)
    BY <1>1, <1>6, <1>10, <2>2, ToldDenied
  <2> QED
    BY <1>1, <1>2, <2>1, <2>3 DEF v
<1> QED
  BY <1>2, <1>9, <1>10

LEMMA AgreesSuspend ==
  ASSUME LoopInv, LoopInv', Tied, Agrees, Suspend
  PROVE  Agrees'
<1> SUFFICES ASSUME ~logErr' PROVE Told(Story(Events'), Settled', Phase', out'.stop, turn')
  BY DEF Agrees
<1> DEFINE d == trail[Len(trail)]
           q == Settled
           s == Story(Events)
           e == Ev("OfinVerdict", d.turn, d.verdict, d.rule)
           x == TurnState("AWAITING_APPROVAL")
           t == FoldedIn(s, e)
           u == FoldedIn(t, x)
           v == FoldedIn(u, x)
<1>1. d \in Decided /\ q \in Seq(Decided) /\ Settled' = Append(q, d)
  BY Settles, SettledTyped
<1>2. /\ d.turn = turn /\ turn' = turn /\ Phase = "acting" /\ pc' = "finished"
      /\ d.verdict = "require_human" /\ out'.stop = "awaiting_approval"
      /\ d.verdict = outcome.decision.verdict /\ d.rule = outcome.decision.rule
  BY DEF Suspend, Holds, Finish, Tied, Phase, LoopInv, TypeOK
<1>3. e \in Event /\ e.kind = "OfinVerdict" /\ e.turn = d.turn /\ e.what = d.verdict
  BY <1>1, VerdictEvent
<1>4. x \in Event /\ x.kind = "TurnState" /\ x.what = "AWAITING_APPROVAL"
  <2>1. turn \in 0..MaxTurns
    BY <1>1, <1>2, ConstantsTyped DEF Decided
  <2>2. "TurnState" \in EventKind /\ "AWAITING_APPROVAL" \in What /\ 0 \in Nat
    BY DEF EventKind, What
  <2>3. x \in Event
    BY <2>1, <2>2, EvTyped DEF TurnState
  <2> QED
    BY <2>3 DEF TurnState, Ev
<1>5. VerdictEvents(outcome.decision) = <<e, x>>
  <2> HIDE DEF d
  <2> QED
    BY <1>2 DEF VerdictEvents, OfinVerdict
<1>6. append(Append(<<e, x>>, x))
  <2>1. append(Append(VerdictEvents(outcome.decision), TurnState(StopState("awaiting_approval"))))
    BY DEF Suspend, Finish
  <2>2. TurnState(StopState("awaiting_approval")) = x
    BY DEF StopState
  <2> HIDE DEF e, x
  <2> QED
    BY <1>5, <2>1, <2>2
<1> HIDE DEF e, x
<1>7. Append(<<e, x>>, x) = <<e, x, x>> /\ <<e, x, x>> \in Seq(Event) /\ <<e, x, x>> # <<>>
  <2>1. <<e, x, x>> = Append(<<e, x>>, x) /\ <<e, x>> \in Seq(Event)
    BY <1>3, <1>4, TripleAppended
  <2>2. <<e, x, x>> \in Seq(Event) /\ <<e, x, x>> # <<>>
    BY <1>3, <1>4
  <2> QED
    BY <2>1, <2>2
<1>8. append(<<e, x, x>>)
  BY <1>6, <1>7
<1>9. /\ Told(s, q, "acting", out.stop, d.turn) /\ log' # <<>>
      /\ Events' = Events \o <<e, x, x>> /\ Events \in Seq(Event)
  BY <1>2, <1>7, <1>8, Retold
<1>10. Story(Events') = v /\ Phase' = "over"
  BY <1>2, <1>3, <1>4, <1>9, StoryOfThree DEF Phase, Over
<1> HIDE DEF s, q, d
<1>11. Declines(s, t, blockRef("verdict", d.turn), "APPROVAL") /\ Client!Asks(t)
  BY <1>2, <1>3, <1>9, RefusalFolded DEF Declines, Told
<1> HIDE DEF t
<1>12. Untold(t, u)
  BY <1>4, <1>11, AsideUntold DEF Asides, Declines
<1> HIDE DEF u
<1>13. Untold(u, v) /\ v.state = "AWAITING_APPROVAL"
  BY <1>4, <1>12, AsideUntold DEF Asides, Untold
<1> HIDE DEF v
<1>14. Untold(t, v)
  BY <1>12, <1>13, UntoldThrough
<1>15. Told(v, Append(q, d), "over", "awaiting_approval", turn)
  BY <1>1, <1>2, <1>9, <1>11, <1>13, <1>14, ToldHeld
<1> QED
  BY <1>1, <1>2, <1>10, <1>15

LEMMA AgreesNext ==
  ASSUME LoopInv, LoopInv', Tied, Began, Agrees, [Next]_vars
  PROVE  Agrees'
<1>1. CASE Execute \/ Exit \/ Cancel \/ Kill \/ UNCHANGED vars
  <2>1. Settled' = Settled
    <3>1. (~Observe /\ ~Suspend) \/ Settled' = Settled
      BY <1>1 DEF Execute, Exit, Cancel, Kill, vars, Observe, Suspend, Finish, Settled, history
    <3> QED
      BY <3>1, NothingSettles
  <2>2. UNCHANGED <<log, logErr, out, turn>> /\ Phase' = Phase
    BY <1>1 DEF Execute, Exit, Cancel, Kill, vars, logVars, Phase, Over
  <2>3. Events' = Events
    BY <2>2 DEF Events
  <2> QED
    BY <2>1, <2>2, <2>3 DEF Agrees
<1>2. CASE EndTurn
  <2>1. /\ Settled' = Settled /\ UNCHANGED <<log, logErr, out>> /\ turn' = turn + 1
        /\ Phase = "acting" /\ Phase' = "before" /\ turn \in Nat
    BY <1>2 DEF EndTurn, logVars, Settled, history, Phase, Over, LoopInv, TypeOK
  <2>2. Events' = Events
    BY <2>1 DEF Events
  <2> QED
    BY <2>1, <2>2, ToldNextTurn DEF Agrees
<1> QED
  BY <1>1, <1>2, AgreesBoot, AgreesPlanning, AgreesTurnLimit, AgreesComplete, AgreesObserve,
     AgreesSuspend DEF Next, Step

LEMMA AgreesHolds == Spec => []Agrees
<1>1. LoopInv /\ LoopInv' /\ Tied /\ Began /\ Agrees /\ [Next]_vars => Agrees'
  BY AgreesNext
<1> QED
  BY <1>1, AgreesInit, InvariantHolds, TiedHolds, BeganHolds, PTL DEF Spec

-----------------------------------------------------------------------------
(* A client that follows the log, and one that has read all of it *)

\* A client has folded the events it has read.
Following == read \in 0..Len(log) /\ session = Story(SubSeq(Events, 1, read))

\* What is in the log stays there.
LEMMA LogExtends ==
  ASSUME LoopInv, LoopInv', Tied, [Next]_vars
  PROVE  /\ Events \in Seq(Event) /\ Len(Events) = Len(log)
         /\ Events' \in Seq(Event) /\ Len(Events') = Len(log')
         /\ Len(log) <= Len(log')
         /\ \A i \in 1..Len(log) : Events'[i] = Events[i]
<1>1. /\ Events \in Seq(Event) /\ Len(Events) = Len(log)
      /\ Events' \in Seq(Event) /\ Len(Events') = Len(log')
  <2>1. LoopInv' => (Events \in Seq(Event) /\ Len(Events) = Len(log))'
    BY EventsTyped, PTL
  <2> QED
    BY <2>1, EventsTyped
<1>2. Events' = Events \/ \E b \in Seq(Event) : Events' = Events \o b
  <2>1. UNCHANGED <<log, seq, logErr>> \/ \E evs \in Seq(Event) : append(evs)
    <3>1. CASE Observe \/ Suspend
      BY <3>1, ObserveAudits, SuspendAudits, AuditEventsTyped
    <3> QED
      BY <3>1, OthersMute DEF SaysNothing
  <2>2. ASSUME NEW evs \in Seq(Event), append(evs)
        PROVE  Events' = Events \/ \E b \in Seq(Event) : Events' = Events \o b
    BY <2>2, EventsGrow, PrefixOfSubSeq
  <2> QED
    BY <2>1, <2>2 DEF Events
<1>3. ASSUME NEW b \in Seq(Event), Events' = Events \o b
      PROVE  Len(Events) <= Len(Events') /\ \A i \in 1..Len(Events) : Events'[i] = Events[i]
  <2>1. /\ Len(Events') = Len(Events) + Len(b) /\ Len(b) \in Nat /\ Len(Events) \in Nat
        /\ \A i \in 1..(Len(Events) + Len(b)) :
             Events'[i] = IF i <= Len(Events) THEN Events[i] ELSE b[i - Len(Events)]
    BY <1>1, <1>3, ConcatLaws
  <2>2. Len(Events) <= Len(Events')
    BY <2>1
  <2>3. ASSUME NEW i \in 1..Len(Events) PROVE Events'[i] = Events[i]
    BY <2>1
  <2> QED
    BY <2>2, <2>3
<1> QED
  BY <1>1, <1>2, <1>3

LEMMA SameStart ==
  ASSUME NEW p \in Seq(Event), NEW q \in Seq(Event), NEW n \in 0..Len(p), Len(p) <= Len(q),
         \A i \in 1..Len(p) : q[i] = p[i]
  PROVE  SubSeq(q, 1, n) = SubSeq(p, 1, n)
<1> DEFINE a == SubSeq(p, 1, n)
           b == SubSeq(q, 1, n)
<1>1. a \in Seq(Event) /\ Len(a) = n /\ \A i \in 1..n : a[i] = p[i]
  OBVIOUS
<1>2. b \in Seq(Event) /\ Len(b) = n /\ \A i \in 1..n : b[i] = q[i]
  <2>1. n \in 0..Len(q)
    OBVIOUS
  <2> QED
    BY <2>1
<1>3. \A i \in 1..n : i \in 1..Len(p)
  OBVIOUS
<1> HIDE DEF a, b
<1>4. \A i \in 1..n : a[i] = b[i]
  BY <1>1, <1>2, <1>3
<1>5. a = b
  BY <1>1, <1>2, <1>4, SeqEqual
<1> QED
  BY <1>5 DEF a, b

LEMMA OneMore ==
  ASSUME NEW q \in Seq(Event), NEW n \in 0..(Len(q) - 1)
  PROVE  SubSeq(q, 1, n + 1) = Append(SubSeq(q, 1, n), q[n + 1]) /\ SubSeq(q, 1, n) \in Seq(Event)
         /\ q[n + 1] \in Event
<1> DEFINE a == SubSeq(q, 1, n + 1)
           p == SubSeq(q, 1, n)
           b == Append(p, q[n + 1])
<1>1. a \in Seq(Event) /\ Len(a) = n + 1 /\ \A i \in 1..(n + 1) : a[i] = q[i]
  OBVIOUS
<1>2. p \in Seq(Event) /\ Len(p) = n /\ \A i \in 1..n : p[i] = q[i]
  OBVIOUS
<1>3. q[n + 1] \in Event
  OBVIOUS
<1> HIDE DEF a, p
<1>4. b \in Seq(Event) /\ Len(b) = n + 1 /\ b[n + 1] = q[n + 1] /\ \A i \in 1..n : b[i] = p[i]
  BY <1>2, <1>3
<1>5. \A i \in 1..(n + 1) : i = n + 1 \/ i \in 1..n
  OBVIOUS
<1> HIDE DEF b
<1>6. \A i \in 1..(n + 1) : a[i] = b[i]
  BY <1>1, <1>2, <1>4, <1>5
<1>7. a = b
  BY <1>1, <1>4, <1>6, SeqEqual
<1> QED
  BY <1>2, <1>3, <1>7 DEF a, b, p

LEMMA FollowingNext ==
  ASSUME LoopInv, LoopInv', Tied, Following, [AttachedNext]_<<vars, session, read>>
  PROVE  Following'
<1>1. ASSUME [Next]_vars, UNCHANGED <<session, read>> PROVE Following'
  <2>1. /\ Events \in Seq(Event) /\ Len(Events) = Len(log)
        /\ Events' \in Seq(Event) /\ Len(Events') = Len(log')
        /\ Len(log) <= Len(log')
        /\ \A i \in 1..Len(log) : Events'[i] = Events[i]
    BY <1>1, LogExtends
  <2>2. read \in 0..Len(Events) /\ Len(Events) \in Nat /\ Len(Events') \in Nat
    BY <2>1 DEF Following
  <2>3. SubSeq(Events', 1, read) = SubSeq(Events, 1, read)
    BY <2>1, <2>2, SameStart
  <2>4. read \in 0..Len(log')
    BY <2>1, <2>2
  <2> QED
    BY <1>1, <2>3, <2>4 DEF Following
<1>2. CASE Deliver
  <2>1. /\ Events \in Seq(Event) /\ Len(Events) = Len(log) /\ Len(log) \in Nat
    BY EventsTyped
  <2>2. /\ read < Len(log) /\ read' = read + 1 /\ UNCHANGED log /\ read \in 0..Len(log)
        /\ session' = FoldedIn(session, log[read + 1].event)
    BY <1>2 DEF Deliver, Following, vars, FoldedIn
  <2>3. read \in 0..(Len(Events) - 1) /\ read + 1 \in 1..Len(log) /\ read' \in 0..Len(log)
    BY <2>1, <2>2
  <2>4. DOMAIN log = 1..Len(log)
    BY DEF LoopInv, TypeOK
  <2>5. log[read + 1].event = Events[read + 1] /\ Events' = Events
    BY <2>2, <2>3, <2>4 DEF Events
  <2> DEFINE p == SubSeq(Events, 1, read)
  <2>6. /\ SubSeq(Events, 1, read + 1) = Append(p, Events[read + 1])
        /\ p \in Seq(Event) /\ Events[read + 1] \in Event
    BY <2>1, <2>3, OneMore
  <2>7. session = Story(p)
    BY DEF Following
  <2> HIDE DEF p
  <2>8. session' = Story(SubSeq(Events', 1, read'))
    BY <2>2, <2>5, <2>6, <2>7, StoryGrows
  <2> QED
    BY <2>2, <2>3, <2>8 DEF Following
<1> QED
  BY <1>1, <1>2 DEF AttachedNext, Run, vars

LEMMA FollowingHolds == AttachedSpec => []Following
<1>1. Attached => Following
  <2> SUFFICES ASSUME Attached PROVE Following
    OBVIOUS
  <2>1. log = <<>> /\ read = 0 /\ session = Client!New
    BY DEF Attached, Init
  <2>2. Events = <<>>
    BY <2>1 DEF Events
  <2>3. SubSeq(<<>>, 1, 0) = <<>> /\ 0 \in 0..Len(<<>>)
    OBVIOUS
  <2> QED
    BY <2>1, <2>2, <2>3, StoryGrows DEF Following
<1>2. LoopInv /\ LoopInv' /\ Tied /\ Following /\ [AttachedNext]_<<vars, session, read>>
        => Following'
  BY FollowingNext
<1> QED
  BY <1>1, <1>2, AttachedRuns, InvariantHolds, TiedHolds, PTL DEF AttachedSpec

LEMMA LastOfParts ==
  ASSUME NEW n \in Nat, NEW A \in SUBSET (1..n), A # {}
  PROVE  IsLast(Max(A), A)
<1>1. Telling!Max(A) \in A /\ \A i \in A : i <= Telling!Max(A)
  BY Telling!MaxOfParts
<1>2. Telling!Max(A) = Max(A)
  BY DEF Telling!Max, Max
<1> QED
  BY <1>1, <1>2 DEF IsLast

LEMMA ToldAgrees ==
  ASSUME LoopInv, Following, Agrees
  PROVE  AgreesWithRun
<1> SUFFICES ASSUME CaughtUp
             PROVE  /\ session.state = StopState(out.stop)
                    /\ Client!Asks(session) <=> out.stop = "awaiting_approval"
                    /\ \A t \in 1..MaxTurns :
                         /\ Shown(blockRef("tool", t)) = "TOOL" <=> Decisions(t, "allow") # {}
                         /\ ToolBlockOf(t)
                         /\ Decisions(t, "deny") # {} => Shown(blockRef("verdict", t)) = "DENIED"
  BY DEF AgreesWithRun
<1>1. session = Story(Events)
  <2>1. Events \in Seq(Event) /\ Len(Events) = Len(log) /\ Len(Events) \in Nat /\ read = Len(Events)
    BY EventsTyped DEF CaughtUp
  <2>2. SubSeq(Events, 1, Len(Events)) = Events
    BY <2>1, PrefixOfSubSeq
  <2> QED
    BY <2>1, <2>2 DEF Following
<1>2. Told(session, trail, "over", out.stop, turn)
  BY <1>1 DEF Agrees, CaughtUp, Phase, Over, Settled
<1>3. \A ref : Shown(ref) = Face(session, ref).tag
  BY Looks DEF Shown, Face, LookOf, Client!BlockOf, Look
<1>4. trail \in Seq(Decided) /\ Len(trail) \in Nat /\ DOMAIN trail = 1..Len(trail)
  BY DEF LoopInv, TypeOK
<1>5. ASSUME NEW t \in 1..MaxTurns
      PROVE  /\ Shown(blockRef("tool", t)) = "TOOL" <=> Decisions(t, "allow") # {}
             /\ ToolBlockOf(t)
             /\ Decisions(t, "deny") # {} => Shown(blockRef("verdict", t)) = "DENIED"
  <2>1. TurnTold(session, trail, t)
    BY <1>2 DEF Told
  <2>2. \A v : Decisions(t, v) = DecidedIn(trail, t, v)
    BY DEF Decisions, DecidedIn
  <2> DEFINE A == DecidedIn(trail, t, "allow")
             R == RanIn(trail, t)
             tool == Face(session, blockRef("tool", t))
  <2>3. A \in SUBSET (1..Len(trail)) /\ R \in SUBSET (1..Len(trail)) /\ R \subseteq A
    BY <1>4 DEF DecidedIn, RanIn
  <2>4. /\ A # {} => IsLast(Max(A), A)
        /\ R # {} => IsLast(Max(R), R)
    <3> HIDE DEF A, R
    <3> QED
      BY <1>4, <2>3, LastOfParts
  <2>5. /\ A # {} => tool.lines = IF trail[Max(A)].ran THEN <<<<"summary">>>> ELSE <<>>
        /\ R # {} => tool.tone = IF trail[Max(R)].isError THEN "deny" ELSE "ok"
    <3> HIDE DEF A, R
    <3>1. /\ \A i : IsLast(i, A) => tool.lines = IF trail[i].ran THEN <<<<"summary">>>> ELSE <<>>
          /\ \A i : IsLast(i, R) => tool.tone = IF trail[i].isError THEN "deny" ELSE "ok"
      BY <2>1 DEF TurnTold, A, R
    <3> QED
      BY <2>4, <3>1
  <2>6. A # {} => blockRef("tool", t) \in DOMAIN session.order
    <3>1. A # {} => tool.tag = "TOOL"
      BY <2>1 DEF TurnTold
    <3>2. blockRef("tool", t) \notin DOMAIN session.order => tool.tag = "nothing"
      BY Looks DEF Face
    <3> QED
      BY <3>1, <3>2
  <2>7. A # {} => /\ tool.lines = Client!BlockOf(session, blockRef("tool", t)).lines
                  /\ tool.tone = Client!BlockOf(session, blockRef("tool", t)).tone
    <3> HIDE DEF A
    <3> QED
      BY <2>6 DEF Face, LookOf, Look, Client!BlockOf
  <2>8. ToolBlockOf(t)
    <3>1. Decisions(t, "allow") = A /\ {i \in A : trail[i].ran} = R
      BY <2>2 DEF RanIn
    <3> HIDE DEF A, R, tool
    <3> QED
      BY <2>3, <2>5, <2>7, <3>1 DEF ToolBlockOf
  <2> QED
    BY <1>3, <2>1, <2>2, <2>8 DEF TurnTold
<1> QED
  BY <1>2, <1>5 DEF Told

\* However many turns a run has and whichever calls its gate allows, refuses or
\* holds, a client that has read the whole log of one that is over shows how it
\* ended, whether it waits for a decision, and of each turn the last output and
\* the refusals (eventlog.go:84-143, apply.go:259-326,352-428).
THEOREM ClientsAgreeWithTheRun == AttachedSpec => []AgreesWithRun
BY ToldAgrees, AgreesHolds, FollowingHolds, AttachedRuns, InvariantHolds, PTL
=============================================================================
