------------------------- MODULE ResearchAgentProofs -------------------------
(***************************************************************************)
(* The research agent for any tools, call ids and budgets and any number   *)
(* of turns: budgets hold and every step draws on one, the model is never  *)
(* invoked on a tool call without its answer, except calls an unpublished  *)
(* turn left behind, and a completed turn's result says what its live      *)
(* events said.                                                            *)
(*                                                                         *)
(* AgentInv: the shape of the graph's state (Shape), of the executions     *)
(* (ExecutionOK) and of every message (MessageOK), and History, which says *)
(* of the running, the newest saved and the published state which of their *)
(* calls may be without an answer.  Story, in its own section, adds what   *)
(* the messages of the running turn tell and what the stream shows of it.  *)
(***************************************************************************)
EXTENDS ResearchAgent, FiniteSetTheorems, SequenceTheorems, WellFoundedInduction, TLAPS

IsSeq(s) == Len(s) \in Nat /\ s = [i \in 1..Len(s) |-> s[i]]

Nodes == {"route", "model", "tools", "executing", "extract", "blank", "end"}

Shape ==
    /\ graph = [node |-> graph.node, messages |-> graph.messages, steps |-> graph.steps,
                attempt |-> graph.attempt, selected |-> graph.selected]
    /\ graph.node \in Nodes
    /\ graph.steps \in 0..RecursionLimit /\ graph.attempt \in 1..ModelAttempts
    /\ graph.selected \subseteq Tools
    /\ saved = [newest |-> saved.newest, published |-> saved.published]
    /\ turns \in Seq(Outcome) /\ Len(turns) <= MaxTurns
    /\ \A i \in 1..Len(turns) : turns[i] = "running" => i = turn /\ graph.node # "end"
    /\ Running \/ graph.node = "end"
    /\ graph.node = "executing" => graph.steps < RecursionLimit
    /\ IsSeq(executions) /\ (executions # <<>> => graph.node = "executing")

\* A tool message says of its failure what BudgetsAreSpent asks.
ReplyOK(m) ==
    /\ m.type = "tool"
    /\ m.failure # None => /\ ParseAccepts(m.failure)
                           /\ m.failure.retryable => /\ m.failure.attempt = MaxAttempts
                                                     /\ m.failure.recovery = "exhausted"

ExecutionOK(e) ==
    /\ e = [call |-> e.call, id |-> e.id, attempt |-> e.attempt, reply |-> e.reply]
    /\ e.attempt \in 1..MaxAttempts
    /\ e.reply # None => ReplyOK(e.reply) /\ e.reply.id = e.id

MessageOK(m, n) ==
    /\ m.type \in {"human", "ai", "tool"}
    /\ m.type = "tool" => ReplyOK(m)
    /\ m.type = "ai" => m.turn \in 1..n /\ IsSeq(m.calls)

MessagesOK(ms, n) == IsSeq(ms) /\ \A p \in 1..Len(ms) : MessageOK(ms[p], n)

\* Turn t is over, and no turn up to it completed.
Excused(ts, t) ==
    t \in 1..Len(ts) /\ ts[t] # "running" /\ \A u \in 1..t : ts[u] # "completed"

\* Every call but those of excused turns has its answer.
Clean(ms, ts) ==
    \A p \in 1..Len(ms) : ms[p].type = "ai" => AnsweredAt(ms, p) \/ Excused(ts, ms[p].turn)

\* The same while the tools node owes the answers to the last message.
Settled(ms, ts, node) ==
    /\ \A p \in 1..Len(ms) : ms[p].type = "ai" =>
          \/ AnsweredAt(ms, p) \/ Excused(ts, ms[p].turn)
          \/ p = Len(ms) /\ node \in {"tools", "executing"} /\ ms[p].turn = Len(ts)
    /\ Len(ms) > 0 /\ (node \in {"tools", "executing"} => ms[Len(ms)].type = "ai")

History ==
    /\ saved.published # <<>> => Clean(saved.published, turns)
    /\ saved.published = <<>> => \A u \in 1..Len(turns) : turns[u] # "completed"
    /\ Running => saved.newest = messages /\ Settled(messages, turns, graph.node)
    /\ ~ Running /\ saved.published = <<>> => Clean(saved.newest, turns)

AgentInv ==
    /\ Shape
    /\ \A i \in 1..Len(executions) : ExecutionOK(executions[i])
    /\ MessagesOK(messages, turn) /\ MessagesOK(saved.newest, turn)
    /\ MessagesOK(saved.published, turn)
    /\ History
-----------------------------------------------------------------------------
\* A sequence is one over its own elements.
LEMMA SeqFacts ==
    ASSUME NEW s, IsSeq(s)
    PROVE  /\ Len(s) \in Nat /\ DOMAIN s = 1..Len(s)
           /\ \A S : (\A i \in 1..Len(s) : s[i] \in S) => s \in Seq(S)
<1>1. Len(s) \in Nat /\ s = [i \in 1..Len(s) |-> s[i]]
  BY DEF IsSeq
<1>2. DOMAIN s = 1..Len(s)
  BY <1>1
<1>3. ASSUME NEW S, \A i \in 1..Len(s) : s[i] \in S PROVE s \in Seq(S)
  <2> DEFINE n == Len(s)
  <2>1. n \in Nat /\ s \in [1..n -> S]
    BY <1>1, <1>3
  <2> HIDE DEF n
  <2> QED
    BY <2>1
<1> QED
  BY <1>1, <1>2, <1>3

\* A sequence over any set is a sequence.
LEMMA SeqIsSeq ==
    ASSUME NEW S, NEW s \in Seq(S)
    PROVE  IsSeq(s)
  BY DEF IsSeq

\* Append leaves what was there.
LEMMA AppendFacts ==
    ASSUME NEW s, IsSeq(s), NEW m
    PROVE  /\ IsSeq(Append(s, m)) /\ Len(Append(s, m)) = Len(s) + 1
           /\ \A i \in 1..Len(s) : Append(s, m)[i] = s[i]
           /\ Append(s, m)[Len(s) + 1] = m
<1> DEFINE S == {s[i] : i \in 1..Len(s)} \cup {m}
<1>1. s \in Seq(S)
  BY SeqFacts
<1>2. m \in S
  OBVIOUS
<1> HIDE DEF S
<1>3. Append(s, m) \in Seq(S)
  BY <1>1, <1>2
<1>4. IsSeq(Append(s, m))
  BY <1>3, SeqIsSeq
<1> QED
  BY <1>1, <1>2, <1>4

\* So does concatenation.
LEMMA ConcatFacts ==
    ASSUME NEW s, IsSeq(s), NEW u, IsSeq(u)
    PROVE  /\ IsSeq(s \o u) /\ Len(s \o u) = Len(s) + Len(u)
           /\ \A i \in 1..Len(s) : (s \o u)[i] = s[i]
           /\ \A i \in 1..Len(u) : (s \o u)[Len(s) + i] = u[i]
<1> DEFINE S == {s[i] : i \in 1..Len(s)} \cup {u[i] : i \in 1..Len(u)}
<1>1. s \in Seq(S) /\ u \in Seq(S)
  BY SeqFacts
<1> HIDE DEF S
<1>2. s \o u \in Seq(S)
  BY <1>1
<1>3. IsSeq(s \o u)
  BY <1>2, SeqIsSeq
<1> QED
  BY <1>1, <1>3

\* A function over 1..n is a sequence of length n.
LEMMA FunctionIsSeq ==
    ASSUME NEW n \in Nat, NEW f, f = [i \in 1..n |-> f[i]]
    PROVE  IsSeq(f) /\ Len(f) = n
<1> DEFINE S == {f[i] : i \in 1..n}
<1>1. f \in [1..n -> S]
  OBVIOUS
<1> HIDE DEF S
<1>2. f \in Seq(S) /\ Len(f) = n
  BY <1>1
<1> QED
  BY <1>2, SeqIsSeq

\* A set of natural numbers that is not empty has a least element.
LEMMA LeastOfNaturals ==
    ASSUME NEW T, T \subseteq Nat, T # {}
    PROVE  \E m \in T : \A y \in T : m <= y
<1> DEFINE R == OpToRel(<, Nat)
<1>1. IsWellFoundedOn(R, Nat)
  BY NatLessThanWellFounded
<1>2. \A y, z \in Nat : y < z => <<y, z>> \in R
  BY DEF OpToRel
<1> HIDE DEF R
<1>3. \E m \in T : \A y \in T : ~ (<<y, m>> \in R)
  BY <1>1, WFMin
<1>4. PICK m \in T : \A y \in T : ~ (<<y, m>> \in R)
  BY <1>3
<1>5. \A y \in T : m <= y
  <2> SUFFICES ASSUME NEW y \in T, ~ (m <= y) PROVE FALSE
    OBVIOUS
  <2>1. y \in Nat /\ m \in Nat /\ y < m
    OBVIOUS
  <2>2. <<y, m>> \in R
    BY <1>2, <2>1, Zenon
  <2> QED
    BY <1>4, <2>2, Zenon
<1> QED
  BY <1>5

\* One with an upper bound has a greatest.
LEMMA GreatestOfNaturals ==
    ASSUME NEW n \in Nat, NEW T, T \subseteq 1..n, T # {}
    PROVE  \E m \in T : \A y \in T : y <= m
<1> DEFINE U == {n - y : y \in T}
<1>1. U \subseteq Nat /\ U # {}
  <2>1. PICK t \in T : TRUE
    OBVIOUS
  <2>2. n - t \in U
    BY <2>1
  <2>3. U \subseteq Nat
    OBVIOUS
  <2> QED
    BY <2>2, <2>3
<1>2. PICK k \in U : \A y \in U : k <= y
  <2> HIDE DEF U
  <2> QED
    BY <1>1, LeastOfNaturals
<1>3. PICK m \in T : k = n - m
  OBVIOUS
<1>4. \A y \in T : y <= m
  <2> TAKE y \in T
  <2>1. k <= n - y
    BY <1>2
  <2> QED
    BY <1>3, <2>1
<1> QED
  BY <1>4

\* The place of a member among the members of a set of numbers.
Rank(keep, i) == Cardinality({j \in keep : j <= i})

\* Ranks are numbers up to the size of the set, and tell members apart.
LEMMA RankFacts ==
    ASSUME NEW n \in Nat, NEW keep, keep \subseteq 1..n
    PROVE  /\ Cardinality(keep) \in Nat
           /\ \A i \in keep : Rank(keep, i) \in 1..Cardinality(keep)
           /\ \A i, k \in keep : Rank(keep, i) = Rank(keep, k) => i = k
<1>1. IsFiniteSet(keep)
  <2>1. IsFiniteSet(1..n)
    BY FS_Interval
  <2> QED
    BY <2>1, FS_Subset
<1>2. Cardinality(keep) \in Nat
  BY <1>1, FS_CardinalityType
<1> DEFINE upto(i) == {j \in keep : j <= i}
<1>3. ASSUME NEW i \in keep
      PROVE  /\ IsFiniteSet(upto(i)) /\ Cardinality(upto(i)) \in Nat
             /\ Cardinality(upto(i)) <= Cardinality(keep)
  <2>1. upto(i) \in SUBSET keep
    OBVIOUS
  <2> HIDE DEF upto
  <2> QED
    BY <1>1, <2>1, FS_Subset, FS_CardinalityType
<1>4. ASSUME NEW i \in keep PROVE Cardinality(upto(i)) # 0
  <2>1. i \in upto(i)
    OBVIOUS
  <2> HIDE DEF upto
  <2> QED
    BY <1>3, <2>1, FS_EmptySet
<1>5. ASSUME NEW i \in keep, NEW k \in keep, i < k, Cardinality(upto(i)) = Cardinality(upto(k))
      PROVE  FALSE
  <2>a. i \in Nat /\ k \in Nat /\ \A j \in keep : j \in Nat
    OBVIOUS
  <2>b. k \in upto(k) /\ k \notin upto(i)
    BY <1>5, <2>a
  <2>c. \A j \in upto(i) : j \in upto(k)
    BY <1>5, <2>a
  <2>1. upto(i) \in SUBSET upto(k) /\ k \in upto(k) /\ k \notin upto(i)
    BY <2>b, <2>c, Zenon
  <2> HIDE DEF upto
  <2>2. upto(k) = upto(i)
    BY <1>3, <1>5, <2>1, FS_Subset
  <2> QED
    BY <2>1, <2>2
<1>6. \A i \in keep : Rank(keep, i) = Cardinality(upto(i))
  BY DEF Rank
<1> HIDE DEF upto
<1>7. \A i \in keep : Rank(keep, i) \in 1..Cardinality(keep)
  BY <1>2, <1>3, <1>4, <1>6
<1>8. ASSUME NEW i \in keep, NEW k \in keep, Rank(keep, i) = Rank(keep, k) PROVE i = k
  <2>1. ~ (i < k) /\ ~ (k < i)
    BY <1>5, <1>6, <1>8
  <2> QED
    BY <2>1
<1> QED
  BY <1>2, <1>7, <1>8

\* FirstById keeps a sequence of ids a sequence and every id in it.
LEMMA FirstByIdKeepsAll ==
    ASSUME NEW ids, IsSeq(ids)
    PROVE  /\ IsSeq(FirstById(ids, ids))
           /\ \A i \in 1..Len(ids) : \E n \in 1..Len(FirstById(ids, ids)) : FirstById(ids, ids)[n] = ids[i]
<1> DEFINE keep == {i \in DOMAIN ids : \A j \in 1..(i - 1) : ids[j] # ids[i]}
           at(n) == CHOOSE i \in keep : Cardinality({j \in keep : j <= i}) = n
           order == [n \in 1..Cardinality(keep) |-> ids[at(n)]]
<1>1. DOMAIN ids = 1..Len(ids) /\ Len(ids) \in Nat
  BY SeqFacts
<1>2. FirstById(ids, ids) = order
  BY DEF FirstById, Picked
<1>3. keep \subseteq 1..Len(ids)
  BY <1>1
<1>4. /\ Cardinality(keep) \in Nat
      /\ \A i \in keep : Rank(keep, i) \in 1..Cardinality(keep)
      /\ \A i, k \in keep : Rank(keep, i) = Rank(keep, k) => i = k
  <2> HIDE DEF keep
  <2> QED
    BY <1>1, <1>3, RankFacts
<1>5. ASSUME NEW k \in keep PROVE at(Rank(keep, k)) = k
  <2> HIDE DEF keep
  <2>1. \A i \in keep : Cardinality({j \in keep : j <= i}) = Rank(keep, k) <=> i = k
    BY <1>4, <1>5 DEF Rank
  <2> QED
    BY <1>5, <2>1
<1>6. ASSUME NEW i \in 1..Len(ids)
      PROVE  \E n \in 1..Cardinality(keep) : order[n] = ids[i]
  <2> DEFINE same == {j \in 1..Len(ids) : ids[j] = ids[i]}
  <2>1. same \subseteq Nat /\ same # {}
    BY <1>1
  <2>2. PICK k \in same : \A y \in same : k <= y
    <3> HIDE DEF same
    <3> QED
      BY <2>1, LeastOfNaturals
  <2>3. k \in keep
    BY <1>1, <2>2
  <2>4. Rank(keep, k) \in 1..Cardinality(keep) /\ order[Rank(keep, k)] = ids[k]
    <3>1. Rank(keep, k) \in 1..Cardinality(keep) /\ at(Rank(keep, k)) = k
      BY <1>4, <1>5, <2>3
    <3> HIDE DEF keep, at
    <3> QED
      BY <3>1
  <2> QED
    BY <2>2, <2>4
<1>7. IsSeq(order) /\ Len(order) = Cardinality(keep)
  <2>1. order = [n \in 1..Cardinality(keep) |-> order[n]]
    OBVIOUS
  <2> HIDE DEF order, keep
  <2> QED
    BY <1>4, <2>1, FunctionIsSeq
<1> QED
  BY <1>2, <1>6, <1>7

-----------------------------------------------------------------------------
\* An answer stays when messages are added.
LEMMA AnswersStay ==
    ASSUME NEW ms, IsSeq(ms), NEW more, IsSeq(more), Len(ms) <= Len(more),
           \A i \in 1..Len(ms) : more[i] = ms[i],
           NEW p \in 1..Len(ms), AnsweredAt(ms, p)
    PROVE  AnsweredAt(more, p)
<1>1. Len(ms) \in Nat /\ Len(more) \in Nat /\ more[p] = ms[p]
  BY DEF IsSeq
<1>2. ASSUME NEW i \in DOMAIN more[p].calls
      PROVE  \E q \in (p + 1)..Len(more) :
                /\ more[q].type = "tool" /\ more[q].id = CallId(more[p].calls[i], i)
                /\ \A r \in (p + 1)..q : more[r].type = "tool"
  <2>1. PICK q \in (p + 1)..Len(ms) :
           /\ ms[q].type = "tool" /\ ms[q].id = CallId(ms[p].calls[i], i)
           /\ \A r \in (p + 1)..q : ms[r].type = "tool"
    BY <1>1, <1>2 DEF AnsweredAt
  <2>2. q \in (p + 1)..Len(more) /\ more[q] = ms[q]
    BY <1>1
  <2>3. \A r \in (p + 1)..q : more[r] = ms[r]
    BY <1>1
  <2> QED
    BY <1>1, <2>1, <2>2, <2>3
<1> QED
  BY <1>2 DEF AnsweredAt

\* An excused turn stays excused.
LEMMA ExcusesStay ==
    ASSUME NEW ts \in Seq(Outcome), NEW later \in Seq(Outcome), Len(ts) <= Len(later),
           \A i \in 1..Len(ts) : ts[i] = "running" => i = Len(ts),
           \A i \in 1..Len(ts) : later[i] = ts[i] \/ ts[i] = "running",
           NEW t, Excused(ts, t)
    PROVE  Excused(later, t)
<1>1. Len(ts) \in Nat /\ Len(later) \in Nat /\ t \in 1..Len(ts)
  BY DEF Excused
<1>2. \A u \in 1..t : ts[u] # "running"
  BY <1>1 DEF Excused
<1>3. \A u \in 1..t : later[u] = ts[u]
  BY <1>1, <1>2
<1> QED
  BY <1>1, <1>3 DEF Excused

\* Clean states stay clean.
LEMMA CleanStays ==
    ASSUME NEW ts \in Seq(Outcome), NEW later \in Seq(Outcome), Len(ts) <= Len(later),
           \A i \in 1..Len(ts) : ts[i] = "running" => i = Len(ts),
           \A i \in 1..Len(ts) : later[i] = ts[i] \/ ts[i] = "running",
           NEW ms, Clean(ms, ts)
    PROVE  Clean(ms, later)
<1> SUFFICES ASSUME NEW p \in 1..Len(ms), ms[p].type = "ai", Excused(ts, ms[p].turn)
             PROVE  Excused(later, ms[p].turn)
  BY DEF Clean
<1> QED
  BY ExcusesStay

\* Messages of fewer turns are messages of more.
LEMMA MessagesStay ==
    ASSUME NEW n \in Nat, NEW m \in Nat, n <= m, NEW ms, MessagesOK(ms, n)
    PROVE  MessagesOK(ms, m)
  BY DEF MessagesOK, MessageOK

\* A turn that goes on: the invariant is left to show of what the step changes.
LEMMA RunningStep ==
    ASSUME AgentInv, Running, turns' = turns, NEW ms, messages' = ms, saved'.newest = ms,
           saved'.published = saved.published, MessagesOK(ms, turn),
           Settled(ms, turns, graph'.node), Shape',
           \A i \in 1..Len(executions') : ExecutionOK(executions'[i])
    PROVE  AgentInv'
<1>1. /\ MessagesOK(saved.published, turn)
      /\ saved.published # <<>> => Clean(saved.published, turns)
      /\ saved.published = <<>> => \A u \in 1..Len(turns) : turns[u] # "completed"
  BY DEF AgentInv, History
<1>2. turn' = turn /\ Running'
  BY DEF turn, Running
<1>3. graph'.messages = ms
  BY DEF messages
<1>4. History'
  BY <1>1, <1>2, <1>3 DEF History, messages
<1>5. MessagesOK(messages, turn)' /\ MessagesOK(saved.newest, turn)' /\ MessagesOK(saved.published, turn)'
  BY <1>1, <1>2, <1>3 DEF messages
<1>6. \A i \in 1..Len(executions') : ExecutionOK(executions[i])'
  BY DEF ExecutionOK
<1> QED
  BY <1>4, <1>5, <1>6 DEF AgentInv

\* What the invariant says of a running turn.
LEMMA RunningFacts ==
    ASSUME AgentInv, Running
    PROVE  /\ turn \in Nat /\ turn > 0 /\ turn = Len(turns) /\ turns \in Seq(Outcome)
           /\ turns[turn] = "running" /\ Len(turns) <= MaxTurns
           /\ \A i \in 1..Len(turns) : turns[i] = "running" => i = Len(turns)
           /\ saved.newest = messages /\ Settled(messages, turns, graph.node)
           /\ MessagesOK(messages, turn) /\ IsSeq(messages) /\ Len(messages) > 0
           /\ Len(messages) \in Nat
           /\ graph.steps \in Nat /\ RecursionLimit \in Nat
<1>1. Shape /\ History /\ MessagesOK(messages, turn)
  BY DEF AgentInv
<1> QED
  BY <1>1, AgentAssumption DEF Shape, History, MessagesOK, IsSeq, Running, turn, Settled

\* A turn ends without completing; what it leaves is excused if nothing is
\* published.
LEMMA EndsStep ==
    ASSUME AgentInv, Running, NEW outcome \in {"failed", "cancelled"}, Ends(outcome)
    PROVE  AgentInv'
<1>1. /\ turn \in Nat /\ turn > 0 /\ turn = Len(turns) /\ turns \in Seq(Outcome)
      /\ turns[turn] = "running" /\ Len(turns) <= MaxTurns
      /\ \A i \in 1..Len(turns) : turns[i] = "running" => i = Len(turns)
      /\ saved.newest = messages /\ Settled(messages, turns, graph.node)
      /\ MessagesOK(messages, turn)
  BY RunningFacts
<1>2. /\ Shape /\ MessagesOK(saved.newest, turn) /\ MessagesOK(saved.published, turn) /\ History
  BY DEF AgentInv
<1>3. /\ turns' = [turns EXCEPT ![turn] = outcome] /\ graph' = [graph EXCEPT !.node = "end"]
      /\ executions' = <<>> /\ saved' = saved
  BY DEF Ends
<1>4. /\ turns' \in Seq(Outcome) /\ Len(turns') = Len(turns) /\ turns'[turn] = outcome
      /\ \A i \in 1..Len(turns) : i # turn => turns'[i] = turns[i]
  BY <1>1, <1>3 DEF Outcome
<1>5. turn' = turn /\ ~ Running'
  BY <1>1, <1>4 DEF turn, Running
<1>6. /\ graph' = [node |-> "end", messages |-> messages, steps |-> graph.steps,
                   attempt |-> graph.attempt, selected |-> graph.selected]
  BY <1>2, <1>3 DEF Shape, messages
<1>7. graph'.node = "end" /\ graph'.messages = messages /\ graph'.steps = graph.steps
      /\ graph'.attempt = graph.attempt /\ graph'.selected = graph.selected
  BY <1>6
<1>8. Shape'
  <2>1. IsSeq(executions)' /\ executions' = <<>>
    BY <1>3 DEF IsSeq
  <2>2. \A i \in 1..Len(turns') : turns'[i] # "running"
    BY <1>1, <1>4
  <2> QED
    BY <1>1, <1>2, <1>3, <1>4, <1>6, <1>7, <2>1, <2>2 DEF Shape, Nodes, messages
<1>9. \A ms : Clean(ms, turns) => Clean(ms, turns')
  BY <1>1, <1>4, CleanStays
<1>10. saved.published = <<>> => Clean(saved.newest, turns')
  <2> SUFFICES ASSUME saved.published = <<>>, NEW p \in 1..Len(messages), messages[p].type = "ai"
               PROVE  AnsweredAt(messages, p) \/ Excused(turns', messages[p].turn)
    BY <1>1 DEF Clean
  <2>1. \A u \in 1..Len(turns') : turns'[u] # "completed"
    BY <1>1, <1>2, <1>4 DEF History
  <2>2. CASE messages[p].turn = Len(turns)
    BY <1>1, <1>4, <2>1, <2>2 DEF Excused
  <2>3. CASE Excused(turns, messages[p].turn)
    BY <1>1, <1>4, <2>3, ExcusesStay
  <2> QED
    BY <1>1, <2>2, <2>3 DEF Settled
<1>11. History'
  BY <1>1, <1>2, <1>3, <1>4, <1>5, <1>9, <1>10 DEF History
<1>12. MessagesOK(messages, turn)' /\ MessagesOK(saved.newest, turn)' /\ MessagesOK(saved.published, turn)'
  BY <1>1, <1>2, <1>3, <1>5, <1>7 DEF messages
<1>13. \A i \in 1..Len(executions') : ExecutionOK(executions[i])'
  BY <1>3
<1> QED
  BY <1>8, <1>11, <1>12, <1>13 DEF AgentInv

\* Nothing is executing outside of the tools node.
LEMMA Shapes ==
    ASSUME Shape, Running, turns' = turns, executions' = executions, graph.node # "executing",
           NEW node \in Nodes \ {"end", "executing"}, NEW ms, NEW steps \in 0..RecursionLimit,
           NEW attempt \in 1..ModelAttempts, NEW selected, selected \subseteq Tools,
           graph' = [node |-> node, messages |-> ms, steps |-> steps,
                     attempt |-> attempt, selected |-> selected],
           saved' = [newest |-> saved'.newest, published |-> saved'.published]
    PROVE  Shape' /\ executions' = <<>>
<1>1. /\ graph'.node = node /\ graph'.messages = ms /\ graph'.steps = steps
      /\ graph'.attempt = attempt /\ graph'.selected = selected
  OBVIOUS
<1>2. executions' = <<>> /\ IsSeq(executions')
  BY DEF Shape, IsSeq
<1>3. turn' = turn /\ Running'
  BY DEF turn, Running
<1> QED
  BY <1>1, <1>2, <1>3 DEF Shape

\* The tools are chosen.
LEMMA RouteToolsStep ==
    ASSUME AgentInv, NEW conceptual \in BOOLEAN, NEW financial \in BOOLEAN,
           NEW groups \in SUBSET Tools, NEW bundle \in SUBSET Tools,
           RouteTools(conceptual, financial, groups, bundle)
    PROVE  AgentInv'
<1> DEFINE chosen == Route(conceptual, financial, groups, bundle)
<1>1. /\ Running /\ graph.node = "route" /\ graph.steps < RecursionLimit
      /\ graph' = [graph EXCEPT !.node = "model", !.steps = @ + 1, !.selected = chosen]
      /\ executions' = executions /\ turns' = turns /\ saved' = saved
  BY DEF RouteTools, InBudget
<1>2. chosen \subseteq Tools
  BY DEF Route
<1> HIDE DEF chosen
<1>3. /\ saved.newest = messages /\ Settled(messages, turns, graph.node)
      /\ MessagesOK(messages, turn) /\ graph.steps \in Nat /\ RecursionLimit \in Nat
  BY <1>1, RunningFacts
<1>4. Shape
  BY DEF AgentInv
<1>5. graph.steps + 1 \in 0..RecursionLimit /\ graph.attempt \in 1..ModelAttempts
  BY <1>1, <1>3, <1>4 DEF Shape
<1>6. graph' = [node |-> "model", messages |-> messages, steps |-> graph.steps + 1,
                attempt |-> graph.attempt, selected |-> chosen]
  BY <1>1, <1>4 DEF Shape, messages
<1>7. Shape' /\ executions' = <<>>
  BY <1>1, <1>2, <1>4, <1>5, <1>6, Shapes DEF Nodes, Shape
<1>8. graph'.node = "model" /\ messages' = messages
  BY <1>6 DEF messages
<1>9. Settled(messages, turns, graph'.node)
  BY <1>1, <1>3, <1>8 DEF Settled
<1> QED
  BY <1>1, <1>3, <1>7, <1>8, <1>9, RunningStep

\* The model says something, with or without tool calls.
LEMMA ModelSays ==
    ASSUME AgentInv, Invoked, NEW calls, IsSeq(calls), NEW node,
           (node \in {"extract", "blank"} /\ calls = <<>>) \/ node = "tools",
           NEW ms, ms = Append(messages, Ai(calls)), NEW attempt \in 1..ModelAttempts,
           graph' = [graph EXCEPT !.node = node, !.messages = ms, !.steps = @ + 1,
                                  !.attempt = attempt],
           saved' = [saved EXCEPT !.newest = ms],
           executions' = executions, turns' = turns
    PROVE  AgentInv'
<1>1. /\ Running /\ graph.node = "model" /\ graph.steps < RecursionLimit
  BY DEF Invoked, InBudget
<1>2. /\ Settled(messages, turns, graph.node) /\ turn = Len(turns) /\ turn > 0 /\ turn \in Nat
      /\ MessagesOK(messages, turn) /\ IsSeq(messages) /\ Len(messages) \in Nat
      /\ graph.steps \in Nat /\ RecursionLimit \in Nat
  BY <1>1, RunningFacts
<1>3. Shape
  BY DEF AgentInv
<1>4. /\ IsSeq(ms) /\ Len(ms) = Len(messages) + 1
      /\ \A i \in 1..Len(messages) : ms[i] = messages[i]
      /\ ms[Len(messages) + 1] = Ai(calls)
  BY <1>2, AppendFacts
<1>5. /\ Ai(calls).type = "ai" /\ Ai(calls).turn = turn /\ Ai(calls).calls = calls
  BY DEF Ai
<1>6. MessagesOK(ms, turn)
  <2> SUFFICES ASSUME NEW p \in 1..Len(ms) PROVE MessageOK(ms[p], turn)
    BY <1>4 DEF MessagesOK
  <2>1. CASE p \in 1..Len(messages)
    BY <1>2, <1>4, <2>1 DEF MessagesOK
  <2>2. CASE p = Len(messages) + 1
    BY <1>2, <1>4, <1>5, <2>2 DEF MessageOK
  <2> QED
    BY <1>2, <1>4, <2>1, <2>2
<1>7. Settled(ms, turns, node)
  <2>1. ASSUME NEW p \in 1..Len(ms), ms[p].type = "ai"
        PROVE  \/ AnsweredAt(ms, p) \/ Excused(turns, ms[p].turn)
               \/ p = Len(ms) /\ node \in {"tools", "executing"} /\ ms[p].turn = Len(turns)
    <3>1. CASE p \in 1..Len(messages)
      <4>1. AnsweredAt(messages, p) \/ Excused(turns, messages[p].turn)
        BY <1>1, <1>2, <1>4, <2>1, <3>1 DEF Settled
      <4>2. ms[p] = messages[p] /\ Len(messages) <= Len(ms)
        BY <1>2, <1>4, <3>1
      <4>3. ASSUME AnsweredAt(messages, p) PROVE AnsweredAt(ms, p)
        BY <1>2, <1>4, <3>1, <4>2, <4>3, AnswersStay
      <4> QED
        BY <4>1, <4>2, <4>3, Zenon
    <3>2. CASE p = Len(messages) + 1 /\ node = "tools"
      BY <1>2, <1>4, <1>5, <3>2
    <3>3. CASE p = Len(messages) + 1 /\ calls = <<>>
      <4>1. ms[p].calls = calls
        BY <1>4, <1>5, <3>3
      <4>2. DOMAIN calls = 1..0
        <5>1. DOMAIN calls = 1..Len(calls)
          BY SeqFacts
        <5> QED
          BY <3>3, <5>1
      <4> QED
        BY <4>1, <4>2 DEF AnsweredAt
    <3> QED
      BY <1>2, <1>4, <3>1, <3>2, <3>3
  <2> QED
    BY <1>2, <1>4, <1>5, <2>1 DEF Settled
<1>8. graph.steps + 1 \in 0..RecursionLimit /\ node \in Nodes \ {"end", "executing"}
  BY <1>1, <1>2 DEF Nodes
<1>9. graph' = [node |-> node, messages |-> ms, steps |-> graph.steps + 1,
                attempt |-> attempt, selected |-> graph.selected]
  BY <1>3 DEF Shape
<1>10. saved' = [newest |-> ms, published |-> saved.published]
  BY <1>3 DEF Shape
<1>11. Shape' /\ executions' = <<>>
  <2>1. saved' = [newest |-> saved'.newest, published |-> saved'.published]
    BY <1>10
  <2> QED
    BY <1>1, <1>3, <1>8, <1>9, <2>1, Shapes DEF Shape
<1>12. graph'.node = node /\ messages' = ms /\ saved'.newest = ms /\ saved'.published = saved.published
  BY <1>9, <1>10 DEF messages
<1>13. Settled(ms, turns, graph'.node)
  BY <1>7, <1>12
<1>14. \A i \in 1..Len(executions') : ExecutionOK(executions'[i])
  BY <1>11
<1>15. turns' = turns
  OBVIOUS
<1> HIDE DEF messages
<1> QED
  BY <1>1, <1>6, <1>11, <1>12, <1>13, <1>14, <1>15, RunningStep

\* The model answers.
LEMMA ModelAnswersStep ==
    ASSUME AgentInv, NEW blank \in BOOLEAN, ModelAnswers(blank)
    PROVE  AgentInv'
<1> DEFINE ms == Append(messages, Ai(<<>>))
           node == IF blank THEN "blank" ELSE "extract"
<1>1. /\ Invoked /\ saved' = [saved EXCEPT !.newest = ms]
      /\ graph' = [graph EXCEPT !.node = node, !.messages = ms, !.steps = @ + 1]
      /\ executions' = executions /\ turns' = turns
  BY DEF ModelAnswers
<1>2. Shape /\ graph.attempt \in 1..ModelAttempts
  BY DEF AgentInv, Shape
<1>3. node \in {"extract", "blank"}
  OBVIOUS
<1> HIDE DEF ms, node
<1>4. graph' = [graph EXCEPT !.node = node, !.messages = ms, !.steps = @ + 1,
                             !.attempt = graph.attempt]
  BY <1>1, <1>2 DEF Shape
<1>5. IsSeq(<<>>) /\ ms = Append(messages, Ai(<<>>))
  BY DEF IsSeq, ms
<1>6. (node \in {"extract", "blank"} /\ <<>> = <<>>) \/ node = "tools"
  BY <1>3
<1>7. saved' = [saved EXCEPT !.newest = ms] /\ executions' = executions /\ turns' = turns /\ Invoked
  BY <1>1
<1> QED
  BY <1>2, <1>4, <1>5, <1>6, <1>7, ModelSays

\* The model requests calls.
LEMMA ModelCallsStep ==
    ASSUME AgentInv, NEW calls \in Seq(Calls), ModelCalls(calls)
    PROVE  AgentInv'
<1> DEFINE ms == Append(messages, Ai(calls))
<1>1. /\ Invoked /\ saved' = [saved EXCEPT !.newest = ms]
      /\ graph' = [graph EXCEPT !.node = "tools", !.messages = ms, !.steps = @ + 1, !.attempt = 1]
      /\ executions' = executions /\ turns' = turns
  BY DEF ModelCalls, Superstep
<1>2. 1 \in 1..ModelAttempts /\ IsSeq(calls)
  BY AgentAssumption, SeqIsSeq
<1> HIDE DEF ms
<1> QED
  BY <1>1, <1>2, ModelSays DEF ms

\* A model attempt fails.
LEMMA ModelFailsStep ==
    ASSUME AgentInv, NEW transient \in BOOLEAN, ModelFails(transient)
    PROVE  AgentInv'
<1>1. Running /\ graph.node = "model"
  BY DEF ModelFails, Invoked
<1>2. CASE Ends("failed")
  BY <1>1, <1>2, EndsStep
<1>3. CASE /\ graph.attempt < ModelAttempts /\ graph' = [graph EXCEPT !.attempt = @ + 1]
           /\ UNCHANGED <<executions, turns, saved, stream, result>>
  <2>1. Shape /\ graph.attempt \in 1..ModelAttempts /\ ModelAttempts \in Nat
    BY AgentAssumption DEF AgentInv, Shape
  <2>2. /\ saved.newest = messages /\ Settled(messages, turns, graph.node)
        /\ MessagesOK(messages, turn)
    BY <1>1, RunningFacts
  <2>3. graph.attempt + 1 \in 1..ModelAttempts /\ graph.steps \in 0..RecursionLimit
        /\ graph.selected \subseteq Tools
    BY <1>3, <2>1 DEF Shape
  <2>4. graph' = [node |-> "model", messages |-> messages, steps |-> graph.steps,
                  attempt |-> graph.attempt + 1, selected |-> graph.selected]
    BY <1>1, <1>3, <2>1 DEF Shape, messages
  <2>5. Shape' /\ executions' = <<>>
    BY <1>1, <1>3, <2>1, <2>3, <2>4, Shapes DEF Nodes, Shape
  <2>6. graph'.node = "model" /\ messages' = messages
    BY <2>4 DEF messages
  <2> QED
    BY <1>1, <1>3, <2>2, <2>5, <2>6, RunningStep
<1> QED
  BY <1>2, <1>3 DEF ModelFails

\* A turn starts on the published state, or on the newest before there is one.
LEMMA StartTurnStep ==
    ASSUME AgentInv, StartTurn
    PROVE  AgentInv'
<1> DEFINE base == IF saved.published = <<>> THEN saved.newest ELSE saved.published
           ms == Append(base, Human(turn + 1))
           later == Append(turns, "running")
<1>1. /\ ~ Running /\ turn < MaxTurns /\ turns' = later /\ executions' = executions
      /\ graph' = [graph EXCEPT !.node = "route", !.messages = ms, !.steps = 0, !.attempt = 1]
      /\ saved' = [saved EXCEPT !.newest = ms]
  BY DEF StartTurn
<1>2. Shape /\ History
  BY DEF AgentInv
<1>3. MessagesOK(base, turn) /\ Clean(base, turns)
  BY <1>1, <1>2 DEF AgentInv, History
<1>4. /\ turns \in Seq(Outcome) /\ turn = Len(turns) /\ turn \in Nat /\ MaxTurns \in Nat
      /\ \A i \in 1..Len(turns) : turns[i] # "running"
  BY <1>1, <1>2, AgentAssumption DEF Shape, Running, turn
<1>5. /\ later \in Seq(Outcome) /\ Len(later) = turn + 1 /\ later[turn + 1] = "running"
      /\ \A i \in 1..Len(turns) : later[i] = turns[i]
  BY <1>4 DEF Outcome
<1> HIDE DEF base, later
<1>6. IsSeq(base)
  BY <1>3 DEF MessagesOK
<1>7. /\ IsSeq(ms) /\ Len(ms) = Len(base) + 1 /\ Len(base) \in Nat
      /\ \A i \in 1..Len(base) : ms[i] = base[i]
      /\ ms[Len(base) + 1] = Human(turn + 1)
  BY <1>6, AppendFacts DEF IsSeq
<1> HIDE DEF ms
<1>8. Human(turn + 1).type = "human"
  BY DEF Human
<1>9. MessagesOK(base, turn + 1) /\ MessagesOK(saved.published, turn + 1)
  <2>1. MessagesOK(saved.published, turn)
    BY DEF AgentInv
  <2>2. turn + 1 \in Nat /\ turn <= turn + 1
    BY <1>4
  <2> QED
    BY <1>3, <1>4, <2>1, <2>2, MessagesStay
<1>10. MessagesOK(ms, turn + 1)
  <2> SUFFICES ASSUME NEW p \in 1..Len(ms) PROVE MessageOK(ms[p], turn + 1)
    BY <1>7 DEF MessagesOK
  <2>1. CASE p \in 1..Len(base)
    BY <1>7, <1>9, <2>1 DEF MessagesOK
  <2>2. CASE p = Len(base) + 1
    BY <1>7, <1>8, <2>2 DEF MessageOK
  <2> QED
    BY <1>7, <2>1, <2>2
<1>11. \A old : Clean(old, turns) => Clean(old, later)
  <2>1. Len(turns) <= Len(later)
    BY <1>4, <1>5
  <2> QED
    BY <1>4, <1>5, <2>1, CleanStays
<1>12. Settled(ms, later, "route")
  <2> SUFFICES ASSUME NEW p \in 1..Len(ms), ms[p].type = "ai"
               PROVE  AnsweredAt(ms, p) \/ Excused(later, ms[p].turn)
    BY <1>7 DEF Settled
  <2>1. p \in 1..Len(base) /\ ms[p] = base[p] /\ Len(base) <= Len(ms)
    BY <1>7, <1>8
  <2>2. AnsweredAt(base, p) \/ Excused(later, base[p].turn)
    BY <1>3, <1>11, <2>1 DEF Clean
  <2>3. ASSUME AnsweredAt(base, p) PROVE AnsweredAt(ms, p)
    BY <1>6, <1>7, <2>1, <2>3, AnswersStay
  <2> QED
    BY <2>1, <2>2, <2>3, Zenon
<1>13. graph' = [node |-> "route", messages |-> ms, steps |-> 0, attempt |-> 1,
                 selected |-> graph.selected]
  BY <1>1, <1>2 DEF Shape
<1>14. /\ graph'.node = "route" /\ graph'.messages = ms /\ graph'.steps = 0 /\ graph'.attempt = 1
       /\ graph'.selected = graph.selected
  BY <1>13
<1>15. saved' = [newest |-> ms, published |-> saved.published]
  BY <1>1, <1>2 DEF Shape
<1>16. saved'.newest = ms /\ saved'.published = saved.published
  BY <1>15
<1>17. turn' = turn + 1 /\ turn' = Len(turns') /\ Running'
  <2>1. turn' = turn + 1 /\ turn' = Len(turns')
    BY <1>1, <1>5 DEF turn
  <2>2. Running' <=> turn' > 0 /\ turns'[turn'] = "running"
    BY DEF Running
  <2> QED
    BY <1>1, <1>4, <1>5, <2>1, <2>2
<1>18. Shape'
  <2>1. executions = <<>> /\ IsSeq(executions')
    BY <1>1, <1>2 DEF Shape
  <2>2. \A i \in 1..Len(turns') : turns'[i] = "running" => i = turn'
    BY <1>1, <1>4, <1>5, <1>17
  <2>3. 0 \in 0..RecursionLimit /\ 1 \in 1..ModelAttempts /\ graph.selected \subseteq Tools
    BY <1>2, AgentAssumption DEF Shape
  <2>4. turns' \in Seq(Outcome) /\ Len(turns') <= MaxTurns
    BY <1>1, <1>4, <1>5
  <2>5. saved' = [newest |-> saved'.newest, published |-> saved'.published]
    BY <1>15
  <2> QED
    BY <1>1, <1>13, <1>14, <1>17, <2>1, <2>2, <2>3, <2>4, <2>5 DEF Shape, Nodes
<1>19. \A u \in 1..Len(turns') : saved.published = <<>> => turns'[u] # "completed"
  BY <1>1, <1>2, <1>4, <1>5 DEF History
<1>20. saved.published # <<>> => Clean(saved.published, turns')
  BY <1>1, <1>2, <1>11 DEF History
<1>21. History'
  <2>1. Settled(messages', turns', graph'.node) /\ messages' = ms
    BY <1>1, <1>12, <1>14 DEF messages
  <2> QED
    BY <1>16, <1>17, <1>19, <1>20, <2>1 DEF History
<1>22. MessagesOK(messages, turn)' /\ MessagesOK(saved.newest, turn)' /\ MessagesOK(saved.published, turn)'
  BY <1>9, <1>10, <1>14, <1>16, <1>17 DEF messages
<1>23. \A i \in 1..Len(executions') : ExecutionOK(executions[i])'
  BY <1>1 DEF AgentInv, ExecutionOK
<1> QED
  BY <1>18, <1>21, <1>22, <1>23 DEF AgentInv


\* A call begins at its first attempt, or has its answer at once.
LEMMA BegunOK ==
    ASSUME NEW call, NEW id, NEW selected
    PROVE  ExecutionOK(Begun(call, id, selected))
<1> DEFINE e == [call |-> call, id |-> id, attempt |-> 1, reply |-> None]
           f == Failure("unknown_tool", FALSE, 1, 1, "model_correction")
           m == FailureMessage(e, f)
<1>1. 1 \in 1..MaxAttempts
  BY ExecutorAssumption
<1>2. f.retryable = FALSE /\ f.attempt = 1 /\ f.max = 1 /\ f.recovery = "model_correction"
  BY DEF Failure
<1>3. m.type = "tool" /\ m.failure = f /\ m.id = id
  BY DEF FailureMessage, ToolMessage
<1> HIDE DEF f, m
<1>4. ParseAccepts(f)
  BY <1>2 DEF ParseAccepts
<1>5. ReplyOK(m)
  BY <1>2, <1>3, <1>4 DEF ReplyOK
<1>6. ExecutionOK(e)
  BY <1>1 DEF ExecutionOK
<1>7. ExecutionOK([call |-> call, id |-> id, attempt |-> 1, reply |-> m])
  BY <1>1, <1>3, <1>5 DEF ExecutionOK
<1>8. [e EXCEPT !.reply = m] = [call |-> call, id |-> id, attempt |-> 1, reply |-> m]
  OBVIOUS
<1>9. Begun(call, id, selected) = IF call.name \in selected THEN e ELSE [e EXCEPT !.reply = m]
  BY DEF Begun, f, m
<1> HIDE DEF e
<1> QED
  BY <1>6, <1>7, <1>8, <1>9

\* The tools node starts the calls.
LEMMA CallToolsStep ==
    ASSUME AgentInv, CallTools
    PROVE  AgentInv'
<1> DEFINE runnable == {i \in DOMAIN lastCalls : ~ Invalid(lastCalls[i])}
           nth(n) == CHOOSE i \in runnable : Cardinality({j \in runnable : j <= i}) = n
           begun == [n \in 1..Cardinality(runnable) |->
                       Begun(lastCalls[nth(n)], CallId(lastCalls[nth(n)], nth(n)), graph.selected)]
<1>1. /\ Running /\ graph.node = "tools" /\ turns' = turns /\ saved' = saved
      /\ graph' = [graph EXCEPT !.node = "executing"] /\ executions' = begun
      /\ graph.steps < RecursionLimit
  BY DEF CallTools, InBudget
<1>2. /\ saved.newest = messages /\ Settled(messages, turns, graph.node)
      /\ MessagesOK(messages, turn) /\ IsSeq(messages) /\ Len(messages) > 0
      /\ Len(messages) \in Nat
  BY <1>1, RunningFacts
<1>3. Shape
  BY DEF AgentInv
<1>4. IsSeq(lastCalls)
  <2>1. messages[Len(messages)].type = "ai"
    BY <1>1, <1>2 DEF Settled
  <2> QED
    BY <1>2, <2>1 DEF MessagesOK, MessageOK, lastCalls
<1>5. runnable \subseteq 1..Len(lastCalls) /\ Len(lastCalls) \in Nat
  BY <1>4, SeqFacts
<1>6. Cardinality(runnable) \in Nat
  <2> HIDE DEF runnable
  <2> QED
    BY <1>5, RankFacts
<1>7. \A n \in 1..Cardinality(runnable) : ExecutionOK(begun[n])
  <2> HIDE DEF runnable, nth
  <2> QED
    BY BegunOK
<1>8. IsSeq(begun) /\ Len(begun) = Cardinality(runnable)
  <2>1. begun = [n \in 1..Cardinality(runnable) |-> begun[n]]
    OBVIOUS
  <2> HIDE DEF begun, runnable
  <2> QED
    BY <1>6, <2>1, FunctionIsSeq
<1> HIDE DEF begun, runnable
<1>9. graph' = [node |-> "executing", messages |-> messages, steps |-> graph.steps,
                attempt |-> graph.attempt, selected |-> graph.selected]
  BY <1>1, <1>3 DEF Shape, messages
<1>10. /\ graph'.node = "executing" /\ graph'.messages = messages /\ graph'.steps = graph.steps
       /\ graph'.attempt = graph.attempt /\ graph'.selected = graph.selected
  BY <1>9
<1>11. turn' = turn /\ Running'
  BY <1>1 DEF turn, Running
<1>12. Shape'
  BY <1>1, <1>3, <1>8, <1>9, <1>10, <1>11 DEF Shape, Nodes
<1>13. Settled(messages, turns, graph'.node)
  BY <1>1, <1>2, <1>10 DEF Settled
<1>14. \A i \in 1..Len(executions') : ExecutionOK(executions'[i])
  BY <1>1, <1>7, <1>8
<1>15. messages' = messages /\ saved'.newest = messages /\ saved'.published = saved.published
  BY <1>1, <1>2, <1>10 DEF messages
<1> QED
  BY <1>1, <1>2, <1>12, <1>13, <1>14, <1>15, RunningStep

\* A failure that will not be retried reaches the model in the shape consumers
\* accept.
LEMMA FailureOK ==
    ASSUME NEW m, m.type = "tool", NEW attempt \in 1..MaxAttempts,
           NEW code, NEW recovery, NEW retryable \in BOOLEAN,
           m.failure = Failure(code, retryable, attempt, MaxAttempts, recovery),
           recovery # "retry", retryable => attempt = MaxAttempts /\ recovery = "exhausted"
    PROVE  ReplyOK(m)
<1>1. /\ m.failure.attempt = attempt /\ m.failure.max = MaxAttempts
      /\ m.failure.recovery = recovery /\ m.failure.retryable = retryable
  BY DEF Failure
<1>2. attempt >= 1 /\ MaxAttempts >= 1 /\ attempt <= MaxAttempts
  BY ExecutorAssumption
<1>3. ParseAccepts(m.failure)
  BY <1>1, <1>2 DEF ParseAccepts
<1>4. m.failure.retryable => m.failure.attempt = MaxAttempts /\ m.failure.recovery = "exhausted"
  BY <1>1
<1> QED
  BY <1>3, <1>4 DEF ReplyOK

\* The last attempt's message spends the budget if another attempt could help.
LEMMA RepliesOK ==
    ASSUME NEW e, ExecutionOK(e), NEW outcome \in Outcomes,
           ~ (Retryable(outcome) /\ e.attempt < MaxAttempts)
    PROVE  ReplyOK(Reply(e, outcome)) /\ Reply(e, outcome).id = e.id
<1> DEFINE m == Reply(e, outcome)
<1>1. e.attempt \in 1..MaxAttempts /\ MaxAttempts \in Nat
  BY ExecutorAssumption DEF ExecutionOK
<1>2. Retryable(outcome) => e.attempt = MaxAttempts
  BY <1>1
<1>3. \/ outcome = "ok" \/ outcome \in FinancialErrors \/ outcome = "deadline"
      \/ outcome = "raises_arguments" \/ outcome = "raises_provider" \/ outcome = "raises_internal"
  BY ExecutorAssumption DEF AttemptOutcomes
<1>4. CASE outcome = "ok"
  <2>1. m = ToolMessage(e.id, e.call.name, OutputType(e.call.name), "ok", None)
    BY <1>4 DEF Reply, FinancialErrors
  <2>2. m.type = "tool" /\ m.id = e.id /\ m.failure = None
    BY <2>1 DEF ToolMessage
  <2> QED
    BY <2>2 DEF ReplyOK
<1>5. CASE outcome \in FinancialErrors
  <2> DEFINE f == FinancialFailure(outcome)
             g == [f EXCEPT !.attempt = e.attempt, !.max = MaxAttempts,
                            !.recovery = IF f.retryable THEN "exhausted" ELSE @]
             retryable == outcome = "provider_unavailable"
             recovery == IF retryable THEN "exhausted"
                         ELSE IF outcome = "financial_data_error" THEN "continue_without_tool"
                         ELSE "model_correction"
  <2>1. outcome # "ok"
    BY <1>5 DEF FinancialErrors
  <2>2. m = ToolMessage(e.id, e.call.name, OutputType(e.call.name), "error", g)
    BY <1>5, <2>1 DEF Reply, FinancialErrors
  <2>3. m.type = "tool" /\ m.id = e.id /\ m.failure = g
    BY <2>2 DEF ToolMessage
  <2>4. f = [code |-> outcome, retryable |-> retryable, attempt |-> 1, max |-> 1,
             recovery |-> IF outcome = "provider_unavailable" THEN "retry"
                          ELSE IF outcome = "financial_data_error" THEN "continue_without_tool"
                          ELSE "model_correction"]
    BY DEF FinancialFailure, Failure
  <2>5. g = Failure(outcome, retryable, e.attempt, MaxAttempts, recovery)
    <3> HIDE DEF f
    <3>1. CASE outcome = "provider_unavailable"
      <4>1. f.retryable
        BY <2>4, <3>1
      <4>2. g = [f EXCEPT !.attempt = e.attempt, !.max = MaxAttempts, !.recovery = "exhausted"]
        BY <4>1
      <4>3. retryable /\ recovery = "exhausted"
        BY <3>1
      <4> HIDE DEF g, recovery
      <4> QED
        BY <2>4, <4>2, <4>3 DEF Failure
    <3>2. CASE outcome # "provider_unavailable"
      <4>1. ~ f.retryable /\ f.recovery = recovery
        BY <2>4, <3>2
      <4>2. g = [f EXCEPT !.attempt = e.attempt, !.max = MaxAttempts, !.recovery = f.recovery]
        BY <4>1
      <4> HIDE DEF g, recovery
      <4> QED
        BY <2>4, <4>1, <4>2 DEF Failure
    <3> QED
      BY <3>1, <3>2
  <2>6. retryable \in BOOLEAN /\ recovery # "retry"
    OBVIOUS
  <2>7. retryable => e.attempt = MaxAttempts /\ recovery = "exhausted"
    BY <1>2 DEF Retryable
  <2> HIDE DEF m, f, g, retryable, recovery
  <2>8. ReplyOK(m)
    BY <1>1, <2>3, <2>5, <2>6, <2>7, FailureOK
  <2> QED
    BY <2>3, <2>8 DEF m
<1>6. ASSUME outcome \notin FinancialErrors, outcome # "ok"
      PROVE  ReplyOK(m) /\ m.id = e.id
  <2> DEFINE sends(code, retryable, recovery) ==
               m = FailureMessage(e, Failure(code, retryable, e.attempt, MaxAttempts, recovery))
  <2>1. \/ sends("tool_timeout", TRUE, "exhausted") /\ Retryable(outcome)
        \/ sends("provider_unavailable", TRUE, "exhausted") /\ Retryable(outcome)
        \/ sends("malformed_tool_arguments", FALSE, "model_correction")
        \/ sends("tool_internal_error", FALSE, "degraded")
    BY <1>3, <1>6 DEF Reply, Retryable
  <2>2. ASSUME NEW code, NEW retryable \in BOOLEAN, NEW recovery, sends(code, retryable, recovery),
               retryable => Retryable(outcome) /\ recovery = "exhausted", recovery # "retry"
        PROVE  ReplyOK(m) /\ m.id = e.id
    <3>1. /\ m.type = "tool" /\ m.id = e.id
          /\ m.failure = Failure(code, retryable, e.attempt, MaxAttempts, recovery)
      BY <2>2 DEF FailureMessage, ToolMessage
    <3>2. retryable => e.attempt = MaxAttempts /\ recovery = "exhausted"
      BY <1>2, <2>2
    <3> HIDE DEF m
    <3> QED
      BY <1>1, <2>2, <3>1, <3>2, FailureOK
  <2> HIDE DEF m, sends
  <2>3. CASE sends("tool_timeout", TRUE, "exhausted") /\ Retryable(outcome)
    BY <2>2, <2>3
  <2>4. CASE sends("provider_unavailable", TRUE, "exhausted") /\ Retryable(outcome)
    BY <2>2, <2>4
  <2>5. CASE sends("malformed_tool_arguments", FALSE, "model_correction")
    BY <2>2, <2>5
  <2>6. CASE sends("tool_internal_error", FALSE, "degraded")
    BY <2>2, <2>6
  <2> QED
    BY <2>1, <2>3, <2>4, <2>5, <2>6
<1> QED
  BY <1>4, <1>5, <1>6

\* An attempt of a call ends.
LEMMA ToolAttemptStep ==
    ASSUME AgentInv, NEW i \in DOMAIN executions, NEW outcome \in Outcomes, ToolAttempt(i, outcome)
    PROVE  AgentInv'
<1> DEFINE e == executions[i]
<1>1. /\ Running /\ graph.node = "executing" /\ turns' = turns /\ graph' = graph /\ saved' = saved
      /\ executions[i].reply = None
      /\ \/ /\ Retryable(outcome) /\ executions[i].attempt < MaxAttempts
            /\ executions' = [executions EXCEPT ![i].attempt = @ + 1]
         \/ /\ ~ (Retryable(outcome) /\ executions[i].attempt < MaxAttempts)
            /\ executions' = [executions EXCEPT ![i].reply = Reply(executions[i], outcome)]
  BY DEF ToolAttempt, AttemptEnds
<1>2. Shape /\ \A k \in 1..Len(executions) : ExecutionOK(executions[k])
  BY DEF AgentInv
<1>3. /\ Len(executions) \in Nat /\ DOMAIN executions = 1..Len(executions) /\ i \in 1..Len(executions)
      /\ executions = [k \in 1..Len(executions) |-> executions[k]]
  BY <1>2, SeqFacts DEF Shape, IsSeq
<1>4. ExecutionOK(e) /\ MaxAttempts \in Nat
  BY <1>2, <1>3, ExecutorAssumption
<1>5. PICK x : ExecutionOK(x) /\ executions' = [executions EXCEPT ![i] = x]
  <2>1. CASE /\ Retryable(outcome) /\ executions[i].attempt < MaxAttempts
             /\ executions' = [executions EXCEPT ![i].attempt = @ + 1]
    <3> DEFINE x == [call |-> e.call, id |-> e.id, attempt |-> e.attempt + 1, reply |-> e.reply]
    <3>1. [e EXCEPT !.attempt = @ + 1] = x
      BY <1>4 DEF ExecutionOK
    <3>2. executions' = [executions EXCEPT ![i] = x]
      BY <2>1, <3>1
    <3>3. e.attempt + 1 \in 1..MaxAttempts /\ e.reply = None
      BY <1>1, <1>4, <2>1 DEF ExecutionOK
    <3>4. ExecutionOK(x)
      BY <3>3 DEF ExecutionOK
    <3> QED
      BY <3>2, <3>4
  <2>2. CASE /\ ~ (Retryable(outcome) /\ executions[i].attempt < MaxAttempts)
             /\ executions' = [executions EXCEPT ![i].reply = Reply(executions[i], outcome)]
    <3> DEFINE m == Reply(e, outcome)
               x == [call |-> e.call, id |-> e.id, attempt |-> e.attempt, reply |-> m]
    <3>1. ReplyOK(m) /\ m.id = e.id
      BY <1>4, <2>2, RepliesOK
    <3> HIDE DEF m
    <3>2. [e EXCEPT !.reply = m] = x
      BY <1>4 DEF ExecutionOK
    <3>3. executions' = [executions EXCEPT ![i] = x]
      BY <2>2, <3>2 DEF m
    <3>4. ExecutionOK(x)
      BY <1>4, <3>1 DEF ExecutionOK
    <3> QED
      BY <3>3, <3>4
  <2> QED
    BY <1>1, <2>1, <2>2
<1>6. executions' = [k \in 1..Len(executions) |-> executions'[k]]
  BY <1>3, <1>5
<1>7. IsSeq(executions') /\ Len(executions') = Len(executions)
  BY <1>3, <1>6, FunctionIsSeq
<1>8. \A k \in 1..Len(executions') : ExecutionOK(executions'[k])
  BY <1>2, <1>3, <1>5, <1>7
<1>9. /\ saved.newest = messages /\ Settled(messages, turns, graph.node)
      /\ MessagesOK(messages, turn)
  BY <1>1, RunningFacts
<1>10. Shape'
  BY <1>1, <1>2, <1>7 DEF Shape, Running, turn
<1>11. messages' = messages /\ graph'.node = graph.node
  BY <1>1 DEF messages
<1> QED
  BY <1>1, <1>8, <1>9, <1>10, <1>11, RunningStep

\* The graph reached its end: what it left is clean, and published.
LEMMA CompleteStep ==
    ASSUME AgentInv, Complete
    PROVE  AgentInv'
<1>1. Running /\ graph.node \in {"extract", "blank"}
  BY DEF Complete
<1>2. CASE Ends("failed")
  BY <1>1, <1>2, EndsStep
<1>3. CASE /\ graph.node = "extract" /\ turns' = [turns EXCEPT ![turn] = "completed"]
           /\ saved' = [saved EXCEPT !.published = saved.newest]
           /\ graph' = [graph EXCEPT !.node = "end"] /\ executions' = executions
  <2>1. /\ turn \in Nat /\ turn > 0 /\ turn = Len(turns) /\ turns \in Seq(Outcome)
        /\ turns[turn] = "running" /\ Len(turns) <= MaxTurns
        /\ \A i \in 1..Len(turns) : turns[i] = "running" => i = Len(turns)
        /\ saved.newest = messages /\ Settled(messages, turns, graph.node)
        /\ MessagesOK(messages, turn) /\ Len(messages) > 0
    BY <1>1, RunningFacts
  <2>2. Shape
    BY DEF AgentInv
  <2>3. /\ turns' \in Seq(Outcome) /\ Len(turns') = Len(turns) /\ turns'[turn] = "completed"
        /\ \A i \in 1..Len(turns) : i # turn => turns'[i] = turns[i]
    BY <1>3, <2>1 DEF Outcome
  <2>4. turn' = turn /\ ~ Running'
    BY <2>1, <2>3 DEF turn, Running
  <2>5. graph' = [node |-> "end", messages |-> messages, steps |-> graph.steps,
                  attempt |-> graph.attempt, selected |-> graph.selected]
    BY <1>3, <2>2 DEF Shape, messages
  <2>6. /\ graph'.node = "end" /\ graph'.messages = messages /\ graph'.steps = graph.steps
        /\ graph'.attempt = graph.attempt /\ graph'.selected = graph.selected
    BY <2>5
  <2>7. saved' = [newest |-> messages, published |-> messages]
    BY <1>3, <2>1, <2>2 DEF Shape
  <2>8. saved'.newest = messages /\ saved'.published = messages
    BY <2>7
  <2>9. executions = <<>>
    BY <1>3, <2>2 DEF Shape
  <2>10. Shape'
    <3>1. \A u \in 1..Len(turns') : turns'[u] # "running"
      BY <2>1, <2>3
    <3>2. saved' = [newest |-> saved'.newest, published |-> saved'.published]
      BY <2>7
    <3> QED
      BY <1>3, <2>1, <2>2, <2>3, <2>4, <2>5, <2>6, <2>9, <3>1, <3>2 DEF Shape, Nodes
  <2>11. Clean(messages, turns')
    <3>1. Clean(messages, turns)
      BY <1>3, <2>1 DEF Settled, Clean
    <3> QED
      BY <2>1, <2>3, <3>1, CleanStays
  <2>12. messages # <<>>
    BY <2>1
  <2>13. History'
    BY <2>4, <2>8, <2>11, <2>12 DEF History
  <2>14. MessagesOK(messages, turn)' /\ MessagesOK(saved.newest, turn)' /\ MessagesOK(saved.published, turn)'
    BY <2>1, <2>4, <2>6, <2>8 DEF messages
  <2>15. \A i \in 1..Len(executions') : ExecutionOK(executions[i])'
    BY <1>3, <2>9
  <2> QED
    BY <2>10, <2>13, <2>14, <2>15 DEF AgentInv
<1> QED
  BY <1>2, <1>3 DEF Complete

\* Every id has a tool message of its own once the executions are over.
LEMMA ResultsAnswer ==
    ASSUME AgentInv, AllReplied, NEW id
    PROVE  ReplyOK(ResultOf(id)) /\ ResultOf(id).id = id
<1> DEFINE same == {n \in 1..Len(executions) : executions[n].id = id}
           latest == CHOOSE n \in DOMAIN executions :
                       executions[n].id = id /\ \A m \in DOMAIN executions :
                           executions[m].id = id => m <= n
           rejected == lastCalls[CHOOSE i \in DOMAIN lastCalls :
                         CallId(lastCalls[i], i) = id /\ \A j \in DOMAIN lastCalls :
                             CallId(lastCalls[j], j) = id => j <= i]
<1>1. /\ DOMAIN executions = 1..Len(executions) /\ Len(executions) \in Nat
      /\ \A k \in 1..Len(executions) : ExecutionOK(executions[k])
  BY SeqFacts DEF AgentInv, Shape
<1>2. ResultOf(id) = IF \E n \in DOMAIN executions : executions[n].id = id
                     THEN executions[latest].reply ELSE Rejection(rejected, id)
  BY DEF ResultOf
<1> HIDE DEF rejected
<1>3. CASE same # {}
  <2>1. PICK m \in same : \A y \in same : y <= m
    <3>1. same \subseteq 1..Len(executions)
      OBVIOUS
    <3> HIDE DEF same
    <3> QED
      BY <1>1, <1>3, <3>1, GreatestOfNaturals
  <2>2. latest \in DOMAIN executions /\ executions[latest].id = id
    <3>1. m \in DOMAIN executions /\ executions[m].id = id
      BY <1>1, <2>1
    <3>2. \A k \in DOMAIN executions : executions[k].id = id => k <= m
      BY <1>1, <2>1
    <3> QED
      BY <3>1, <3>2
  <2>3. ResultOf(id) = executions[latest].reply
    BY <1>2, <2>2
  <2> HIDE DEF latest
  <2>4. ExecutionOK(executions[latest]) /\ executions[latest].reply # None
    BY <1>1, <2>2 DEF AllReplied
  <2> QED
    BY <2>2, <2>3, <2>4 DEF ExecutionOK
<1>4. CASE same = {}
  <2>1. ResultOf(id) = Rejection(rejected, id)
    BY <1>1, <1>2, <1>4
  <2>2. /\ Rejection(rejected, id).type = "tool" /\ Rejection(rejected, id).id = id
        /\ Rejection(rejected, id).failure = None
    BY DEF Rejection, ToolMessage
  <2> QED
    BY <2>1, <2>2 DEF ReplyOK
<1> QED
  BY <1>3, <1>4

\* The tools node answers the calls of the last message.
LEMMA ToolsReturnStep ==
    ASSUME AgentInv, ToolsReturn
    PROVE  AgentInv'
<1> DEFINE ids == [i \in DOMAIN lastCalls |-> CallId(lastCalls[i], i)]
           order == FirstById(ids, ids)
           answers == [n \in DOMAIN order |-> ResultOf(order[n])]
           ms == messages \o answers
<1>1. /\ Running /\ graph.node = "executing" /\ AllReplied /\ turns' = turns /\ executions' = <<>>
      /\ graph' = [graph EXCEPT !.node = "model", !.messages = ms, !.steps = @ + 1, !.attempt = 1]
      /\ saved' = [saved EXCEPT !.newest = ms]
  BY DEF ToolsReturn, Superstep
<1>2. /\ saved.newest = messages /\ Settled(messages, turns, graph.node)
      /\ MessagesOK(messages, turn) /\ IsSeq(messages) /\ Len(messages) > 0
      /\ Len(messages) \in Nat /\ graph.steps \in Nat /\ RecursionLimit \in Nat
  BY <1>1, RunningFacts
<1>3. Shape
  BY DEF AgentInv
<1>4. IsSeq(lastCalls)
  <2>1. messages[Len(messages)].type = "ai"
    BY <1>1, <1>2 DEF Settled
  <2> QED
    BY <1>2, <2>1 DEF MessagesOK, MessageOK, lastCalls
<1>5. DOMAIN lastCalls = 1..Len(lastCalls) /\ Len(lastCalls) \in Nat
  BY <1>4, SeqFacts
<1>6. IsSeq(ids) /\ Len(ids) = Len(lastCalls)
  <2>1. ids = [i \in 1..Len(lastCalls) |-> ids[i]]
    BY <1>5
  <2> HIDE DEF ids
  <2> QED
    BY <1>5, <2>1, FunctionIsSeq
<1>7. /\ IsSeq(order) /\ DOMAIN order = 1..Len(order) /\ Len(order) \in Nat
      /\ \A i \in 1..Len(ids) : \E n \in 1..Len(order) : order[n] = ids[i]
  <2> HIDE DEF ids
  <2> QED
    BY <1>6, FirstByIdKeepsAll, SeqFacts
<1>8. \A i \in 1..Len(lastCalls) : \E n \in 1..Len(order) : order[n] = CallId(lastCalls[i], i)
  <2> HIDE DEF order
  <2> QED
    BY <1>5, <1>6, <1>7
<1> HIDE DEF ids, order
<1>9. IsSeq(answers) /\ Len(answers) = Len(order)
  <2>1. answers = [n \in 1..Len(order) |-> answers[n]]
    BY <1>7
  <2> HIDE DEF answers
  <2> QED
    BY <1>7, <2>1, FunctionIsSeq
<1>10. \A n \in 1..Len(order) : ReplyOK(answers[n]) /\ answers[n].id = order[n]
  BY <1>1, <1>7, ResultsAnswer
<1> HIDE DEF answers
<1>11. /\ IsSeq(ms) /\ Len(ms) = Len(messages) + Len(order)
       /\ \A i \in 1..Len(messages) : ms[i] = messages[i]
       /\ \A n \in 1..Len(order) : ms[Len(messages) + n] = answers[n]
  <2>2. IsSeq(messages) /\ IsSeq(answers)
    BY <1>2, <1>9
  <2>3. /\ IsSeq(messages \o answers) /\ Len(messages \o answers) = Len(messages) + Len(answers)
        /\ \A i \in 1..Len(messages) : (messages \o answers)[i] = messages[i]
        /\ \A n \in 1..Len(answers) : (messages \o answers)[Len(messages) + n] = answers[n]
    BY <2>2, ConcatFacts
  <2>4. /\ IsSeq(ms) /\ Len(ms) = Len(messages) + Len(answers)
        /\ \A i \in 1..Len(messages) : ms[i] = messages[i]
        /\ \A n \in 1..Len(answers) : ms[Len(messages) + n] = answers[n]
    BY <2>3
  <2> HIDE DEF ms
  <2> QED
    BY <1>9, <2>4
<1> HIDE DEF ms
<1>12. \A n \in 1..Len(order) : ms[Len(messages) + n].type = "tool"
  BY <1>10, <1>11 DEF ReplyOK
<1>13. \A p \in 1..Len(ms) : p \in 1..Len(messages)
                             \/ \E n \in 1..Len(order) : p = Len(messages) + n
  <2> TAKE p \in 1..Len(ms)
  <2>1. CASE p > Len(messages)
    <3>1. p - Len(messages) \in 1..Len(order) /\ p = Len(messages) + (p - Len(messages))
      BY <1>2, <1>7, <1>11, <2>1
    <3> QED
      BY <3>1
  <2>2. CASE ~ (p > Len(messages))
    BY <1>2, <1>7, <1>11, <2>2
  <2> QED
    BY <2>1, <2>2
<1>14. MessagesOK(ms, turn)
  <2> SUFFICES ASSUME NEW p \in 1..Len(ms) PROVE MessageOK(ms[p], turn)
    BY <1>11 DEF MessagesOK
  <2>1. CASE p \in 1..Len(messages)
    BY <1>2, <1>11, <2>1 DEF MessagesOK
  <2>2. ASSUME NEW n \in 1..Len(order), p = Len(messages) + n PROVE MessageOK(ms[p], turn)
    <3>1. ReplyOK(ms[p]) /\ ms[p].type = "tool"
      BY <1>10, <1>11, <1>12, <2>2
    <3> QED
      BY <3>1 DEF MessageOK
  <2> QED
    BY <1>13, <2>1, <2>2
<1>15. AnsweredAt(ms, Len(messages))
  <2> DEFINE p == Len(messages)
  <2>1. ms[p].calls = lastCalls
    BY <1>2, <1>11 DEF lastCalls
  <2>2. ASSUME NEW i \in 1..Len(lastCalls)
        PROVE  \E q \in (p + 1)..Len(ms) :
                  /\ ms[q].type = "tool" /\ ms[q].id = CallId(lastCalls[i], i)
                  /\ \A r \in (p + 1)..q : ms[r].type = "tool"
    <3>1. PICK n \in 1..Len(order) : order[n] = CallId(lastCalls[i], i)
      BY <1>8
    <3>2. p + n \in (p + 1)..Len(ms)
      BY <1>2, <1>7, <1>11
    <3>3. ms[p + n].type = "tool" /\ ms[p + n].id = CallId(lastCalls[i], i)
      BY <1>10, <1>11, <1>12, <3>1
    <3>4. ASSUME NEW r \in (p + 1)..(p + n) PROVE ms[r].type = "tool"
      <4>1. r - p \in 1..Len(order) /\ r = p + (r - p)
        BY <1>2, <1>7
      <4> QED
        BY <1>12, <4>1
    <3> QED
      BY <3>2, <3>3, <3>4
  <2> QED
    BY <1>5, <2>1, <2>2 DEF AnsweredAt
<1>16. Settled(ms, turns, "model")
  <2> SUFFICES ASSUME NEW p \in 1..Len(ms), ms[p].type = "ai"
               PROVE  AnsweredAt(ms, p) \/ Excused(turns, ms[p].turn)
    BY <1>2, <1>7, <1>11 DEF Settled
  <2>1. p \in 1..Len(messages) /\ ms[p] = messages[p] /\ Len(messages) <= Len(ms)
    BY <1>2, <1>7, <1>11, <1>12, <1>13
  <2>2. AnsweredAt(messages, p) \/ Excused(turns, messages[p].turn) \/ p = Len(messages)
    BY <1>2, <2>1 DEF Settled
  <2>3. ASSUME AnsweredAt(messages, p) PROVE AnsweredAt(ms, p)
    BY <1>2, <1>11, <2>1, <2>3, AnswersStay
  <2> QED
    BY <1>15, <2>1, <2>2, <2>3, Zenon
<1>17. graph' = [node |-> "model", messages |-> ms, steps |-> graph.steps + 1, attempt |-> 1,
                 selected |-> graph.selected]
  BY <1>1, <1>3 DEF Shape
<1>18. /\ graph'.node = "model" /\ graph'.messages = ms /\ graph'.steps = graph.steps + 1
       /\ graph'.attempt = 1 /\ graph'.selected = graph.selected
  BY <1>17
<1>19. saved' = [newest |-> ms, published |-> saved.published]
  BY <1>1, <1>3 DEF Shape
<1>20. saved'.newest = ms /\ saved'.published = saved.published
  BY <1>19
<1>21. turn' = turn /\ Running'
  BY <1>1 DEF turn, Running
<1>22. Shape'
  <2>1. graph.steps + 1 \in 0..RecursionLimit /\ 1 \in 1..ModelAttempts
    BY <1>1, <1>2, <1>3, AgentAssumption DEF Shape
  <2>2. saved' = [newest |-> saved'.newest, published |-> saved'.published]
    BY <1>19
  <2>3. IsSeq(executions') /\ executions' = <<>>
    BY <1>1 DEF IsSeq
  <2> QED
    BY <1>1, <1>3, <1>17, <1>18, <1>21, <2>1, <2>2, <2>3 DEF Shape, Nodes
<1>23. messages' = ms
  BY <1>18 DEF messages
<1>24. \A i \in 1..Len(executions') : ExecutionOK(executions'[i])
  BY <1>1
<1>25. Settled(ms, turns, graph'.node)
  BY <1>16, <1>18
<1> HIDE DEF messages
<1> QED
  BY <1>1, <1>14, <1>20, <1>22, <1>23, <1>24, <1>25, RunningStep

\* The invariant holds of a thread without turns.
LEMMA InitHasInv == Init => AgentInv
<1> SUFFICES ASSUME Init PROVE AgentInv
  OBVIOUS
<1>1. /\ executions = <<>> /\ turns = <<>> /\ saved = [newest |-> <<>>, published |-> <<>>]
      /\ graph = [node |-> "end", messages |-> <<>>, steps |-> 0, attempt |-> 1, selected |-> {}]
  BY DEF Init
<1>2. IsSeq(<<>>) /\ MessagesOK(<<>>, turn) /\ Clean(<<>>, turns)
  BY DEF IsSeq, MessagesOK, Clean
<1>3. turn = 0 /\ ~ Running /\ messages = <<>>
  BY <1>1 DEF turn, Running, messages
<1>4. Shape
  BY <1>1, <1>2, <1>3, AgentAssumption DEF Shape, Nodes, Outcome
<1>5. History
  BY <1>1, <1>2, <1>3 DEF History
<1> QED
  BY <1>1, <1>2, <1>3, <1>4, <1>5 DEF AgentInv

\* Every step keeps it.
LEMMA NextKeepsInv == AgentInv /\ [Next]_vars => AgentInv'
<1> SUFFICES ASSUME AgentInv, [Next]_vars PROVE AgentInv'
  OBVIOUS
<1>1. CASE StartTurn
  BY <1>1, StartTurnStep
<1>2. ASSUME NEW conceptual \in BOOLEAN, NEW financial \in BOOLEAN, NEW groups \in SUBSET Tools,
             NEW bundle \in SUBSET Tools, RouteTools(conceptual, financial, groups, bundle)
      PROVE  AgentInv'
  BY <1>2, RouteToolsStep
<1>3. ASSUME NEW blank \in BOOLEAN, ModelAnswers(blank) PROVE AgentInv'
  BY <1>3, ModelAnswersStep
<1>4. ASSUME NEW c1 \in Calls, ModelCalls(<<c1>>) PROVE AgentInv'
  BY <1>4, ModelCallsStep
<1>5. ASSUME NEW c1 \in Calls, NEW c2 \in Calls, ModelCalls(<<c1, c2>>) PROVE AgentInv'
  <2>1. <<c1, c2>> \in Seq(Calls)
    OBVIOUS
  <2> QED
    BY <1>5, <2>1, ModelCallsStep, Zenon
<1>6. ASSUME NEW transient \in BOOLEAN, ModelFails(transient) PROVE AgentInv'
  BY <1>6, ModelFailsStep
<1>7. CASE CallTools
  BY <1>7, CallToolsStep
<1>8. ASSUME NEW i \in DOMAIN executions, NEW outcome \in Outcomes, ToolAttempt(i, outcome)
      PROVE  AgentInv'
  BY <1>8, ToolAttemptStep
<1>9. CASE ToolsReturn
  BY <1>9, ToolsReturnStep
<1>10. CASE Complete
  BY <1>10, CompleteStep
<1>11. CASE RecursionExceeded
  BY <1>11, EndsStep DEF RecursionExceeded
<1>12. CASE Cancel
  BY <1>12, EndsStep DEF Cancel
<1>13. CASE UNCHANGED vars
  <2>1. /\ executions' = executions /\ turns' = turns /\ graph' = graph /\ saved' = saved
    BY <1>13 DEF vars
  <2>2. turn' = turn /\ messages' = messages /\ Running' = Running
    BY <2>1 DEF turn, messages, Running
  <2>3. Shape' /\ History'
    BY <2>1, <2>2 DEF AgentInv, Shape, History
  <2> QED
    BY <2>1, <2>2, <2>3 DEF AgentInv, ExecutionOK
<1>14. CASE AgentStep
  BY <1>2, <1>3, <1>4, <1>5, <1>6, <1>7, <1>8, <1>9, <1>10, <1>11, <1>14 DEF AgentStep
<1> QED
  BY <1>1, <1>12, <1>13, <1>14 DEF Next

\* For any tools, ids and budgets and any number of turns, every reachable state
\* of a thread has the shapes and the history AgentInv describes.
THEOREM AgentInvariant == Spec => []AgentInv
<1>1. Init => AgentInv
  BY InitHasInv
<1>2. AgentInv /\ [Next]_vars => AgentInv'
  BY NextKeepsInv
<1> QED
  BY <1>1, <1>2, PTL DEF Spec

\* BudgetsHold: steps, attempts and retries keep to their budgets, and no tool
\* message tells the model to retry what was retried already.
THEOREM BudgetsAlwaysHold == Spec => []BudgetsHold
<1>1. AgentInv => BudgetsHold
  <2> SUFFICES ASSUME AgentInv PROVE AgentTypeOK /\ BudgetsAreSpent
    BY DEF BudgetsHold
  <2>1. Shape /\ MessagesOK(messages, turn)
        /\ \A i \in 1..Len(executions) : ExecutionOK(executions[i])
    BY DEF AgentInv
  <2>2. turns \in BoundedSeq(Outcome, MaxTurns)
    <3>1. turns \in Seq(Outcome) /\ Len(turns) <= MaxTurns /\ MaxTurns \in Nat
      BY <2>1, AgentAssumption DEF Shape
    <3>2. turns \in [1..Len(turns) -> Outcome] /\ Len(turns) \in 0..MaxTurns
      BY <3>1
    <3> QED
      BY <3>2 DEF BoundedSeq, SeqOf
  <2>3. /\ DOMAIN executions = 1..Len(executions) /\ DOMAIN messages = 1..Len(messages)
        /\ DOMAIN turns = 1..Len(turns)
    BY <2>1, SeqFacts DEF Shape, MessagesOK
  <2>4. \A i \in DOMAIN executions : executions[i].attempt \in 1..MaxAttempts
    BY <2>1, <2>3 DEF ExecutionOK
  <2>5. AgentTypeOK
    BY <2>1, <2>2, <2>3, <2>4 DEF AgentTypeOK, Shape, Nodes
  <2>6. BudgetsAreSpent
    <3> SUFFICES ASSUME NEW p \in 1..Len(messages), messages[p].type = "tool",
                        messages[p].failure # None
                 PROVE  LET f == messages[p].failure IN
                        /\ ParseAccepts(f)
                        /\ f.retryable => f.attempt = MaxAttempts /\ f.recovery = "exhausted"
      BY <2>3 DEF BudgetsAreSpent
    <3>1. ReplyOK(messages[p])
      BY <2>1 DEF MessagesOK, MessageOK
    <3> QED
      BY <3>1 DEF ReplyOK
  <2> QED
    BY <2>5, <2>6
<1> QED
  BY <1>1, AgentInvariant, PTL

\* ModelSeesAnsweredCalls: whenever the model is invoked, each tool call in its
\* context has its result, but for those a turn left that ended before anything
\* was published.
THEOREM ModelAlwaysSeesAnswers == Spec => []ModelSeesAnsweredCalls
<1>1. AgentInv => ModelSeesAnsweredCalls
  <2> SUFFICES ASSUME AgentInv, Invoked, NEW p \in DOMAIN messages, messages[p].type = "ai"
               PROVE  AnsweredAt(messages, p) \/ LeftUnpublished(messages[p].turn)
    BY DEF ModelSeesAnsweredCalls
  <2>1. /\ Settled(messages, turns, graph.node) /\ IsSeq(messages) /\ turn = Len(turns)
        /\ turns[turn] = "running" /\ turn \in Nat
    BY RunningFacts DEF Invoked
  <2>2. p \in 1..Len(messages)
    BY <2>1, SeqFacts
  <2>3. graph.node = "model"
    BY DEF Invoked
  <2>4. AnsweredAt(messages, p) \/ Excused(turns, messages[p].turn)
    BY <2>1, <2>2, <2>3 DEF Settled
  <2>5. ASSUME NEW t, Excused(turns, t) PROVE LeftUnpublished(t)
    BY <2>1, <2>5 DEF Excused, LeftUnpublished
  <2> QED
    BY <2>4, <2>5
<1> QED
  BY <1>1, AgentInvariant, PTL

-----------------------------------------------------------------------------
\* A turn that ends needs no budget.
LEMMA EndingSpends ==
    ASSUME AgentInv, Running, NEW outcome \in {"completed", "failed", "cancelled"},
           turns' = [turns EXCEPT ![turn] = outcome]
    PROVE  SpendsBudget
<1>1. turn \in Nat /\ turn > 0 /\ turn = Len(turns) /\ turns \in Seq(Outcome)
  BY RunningFacts
<1>2. Len(turns') = Len(turns) /\ turns'[turn] = outcome
  BY <1>1 DEF Outcome
<1>3. ~ Running'
  BY <1>1, <1>2 DEF turn, Running
<1> QED
  BY <1>3 DEF SpendsBudget

\* A superstep is one of those the recursion limit allows.
LEMMA SuperstepSpends ==
    ASSUME AgentInv, graph'.steps = graph.steps + 1
    PROVE  SpendsBudget
<1>1. graph.steps \in Nat
  BY AgentAssumption DEF AgentInv, Shape
<1> QED
  BY <1>1 DEF SpendsBudget

\* An attempt of a call is one of those its retry policy allows.
LEMMA ToolAttemptSpends ==
    ASSUME AgentInv, NEW i \in DOMAIN executions, NEW outcome \in Outcomes, ToolAttempt(i, outcome)
    PROVE  [SpendsBudget]_vars
<1> DEFINE e == executions[i]
<1>1. /\ graph.node = "executing" /\ e.reply = None
      /\ turns' = turns /\ graph' = graph /\ saved' = saved /\ stream' = stream /\ result' = result
      /\ executions' = IF Retryable(outcome) /\ e.attempt < MaxAttempts
                       THEN [executions EXCEPT ![i].attempt = @ + 1]
                       ELSE [executions EXCEPT ![i].reply = Reply(e, outcome)]
  BY DEF ToolAttempt, AttemptEnds
<1>2. IsSeq(executions) /\ \A k \in 1..Len(executions) : ExecutionOK(executions[k])
  BY DEF AgentInv, Shape
<1>3. DOMAIN executions = 1..Len(executions) /\ executions = [k \in 1..Len(executions) |-> executions[k]]
  BY <1>2, SeqFacts DEF IsSeq
<1>4. /\ e = [call |-> e.call, id |-> e.id, attempt |-> e.attempt, reply |-> e.reply]
      /\ e.attempt \in 1..MaxAttempts /\ MaxAttempts \in Nat
  BY <1>2, <1>3, ExecutorAssumption DEF ExecutionOK
<1>5. PICK x : /\ executions' = [executions EXCEPT ![i] = x]
               /\ x.reply # None \/ (x.reply = None /\ x.attempt = e.attempt + 1) \/ x = e
  <2>1. CASE Retryable(outcome) /\ e.attempt < MaxAttempts
    <3> DEFINE x == [call |-> e.call, id |-> e.id, attempt |-> e.attempt + 1, reply |-> e.reply]
    <3>1. [e EXCEPT !.attempt = @ + 1] = x
      BY <1>4
    <3>2. executions' = [executions EXCEPT ![i] = x]
      BY <1>1, <2>1, <3>1
    <3> QED
      BY <1>1, <3>2
  <2>2. CASE ~ (Retryable(outcome) /\ e.attempt < MaxAttempts)
    <3> DEFINE m == Reply(e, outcome)
               x == [call |-> e.call, id |-> e.id, attempt |-> e.attempt, reply |-> m]
    <3> HIDE DEF m
    <3>1. [e EXCEPT !.reply = m] = x
      BY <1>4
    <3>2. executions' = [executions EXCEPT ![i] = x]
      BY <1>1, <2>2, <3>1 DEF m
    <3>3. x.reply # None \/ x = e
      BY <1>1, <1>4
    <3> QED
      BY <3>2, <3>3
  <2> QED
    BY <2>1, <2>2
<1>6. CASE x = e
  <2>1. executions' = executions
    BY <1>3, <1>5, <1>6
  <2> QED
    BY <1>1, <2>1 DEF vars
<1>7. CASE x # e
  <2>1. /\ DOMAIN executions' = DOMAIN executions /\ executions'[i] = x
        /\ \A k \in DOMAIN executions : k # i => executions'[k] = executions[k]
    BY <1>3, <1>5
  <2>2. \A k \in DOMAIN executions : executions[k].attempt \in 1..MaxAttempts
    BY <1>2, <1>3 DEF ExecutionOK
  <2>3. AttemptsLeft(i)' < AttemptsLeft(i)
    BY <1>1, <1>4, <1>5, <1>7, <2>1 DEF AttemptsLeft
  <2>4. ASSUME NEW k \in DOMAIN executions PROVE AttemptsLeft(k)' <= AttemptsLeft(k)
    <3>1. CASE k = i
      BY <1>1, <1>4, <1>5, <1>7, <2>1, <3>1 DEF AttemptsLeft
    <3>2. CASE k # i
      BY <1>4, <2>1, <2>2, <3>2 DEF AttemptsLeft
    <3> QED
      BY <3>1, <3>2
  <2> HIDE DEF AttemptsLeft
  <2> QED
    BY <1>1, <2>1, <2>3, <2>4 DEF SpendsBudget
<1> QED
  BY <1>6, <1>7

\* TurnsSpendBudgets: for any number of turns, calls and retries, each step of a
\* turn ends it or draws on a budget, so that no turn goes on for ever.
THEOREM TurnsDrawOnBudgets == Spec => TurnsSpendBudgets
<1>1. AgentInv /\ [Next]_vars => [SpendsBudget]_vars
  <2> SUFFICES ASSUME AgentInv, [Next]_vars PROVE [SpendsBudget]_vars
    OBVIOUS
  <2>1. Shape
    BY DEF AgentInv
  <2>2. CASE StartTurn
    <3>1. turns' = Append(turns, "running") /\ turns \in Seq(Outcome)
      BY <2>1, <2>2 DEF StartTurn, Shape
    <3>2. turn' # turn
      BY <3>1 DEF turn, Outcome
    <3> QED
      BY <3>2 DEF SpendsBudget
  <2>3. ASSUME NEW outcome \in {"failed", "cancelled"}, Running, Ends(outcome) PROVE SpendsBudget
    BY <2>3, EndingSpends DEF Ends
  <2>4. ASSUME NEW conceptual, NEW financial, NEW groups, NEW bundle,
               RouteTools(conceptual, financial, groups, bundle)
        PROVE  SpendsBudget
    BY <2>1, <2>4, SuperstepSpends DEF RouteTools, Shape
  <2>5. ASSUME NEW blank, ModelAnswers(blank) PROVE SpendsBudget
    BY <2>1, <2>5, SuperstepSpends DEF ModelAnswers, Shape
  <2>6. ASSUME NEW calls, ModelCalls(calls) PROVE SpendsBudget
    BY <2>1, <2>6, SuperstepSpends DEF ModelCalls, Superstep, Shape
  <2>7. ASSUME NEW transient, ModelFails(transient) PROVE SpendsBudget
    <3>1. CASE Ends("failed")
      BY <2>3, <2>7, <3>1 DEF ModelFails, Invoked
    <3>2. CASE graph' = [graph EXCEPT !.attempt = @ + 1]
      <4>1. graph'.node = graph.node /\ graph'.steps = graph.steps
            /\ graph'.attempt = graph.attempt + 1 /\ graph.attempt \in Nat
        BY <2>1, <3>2, AgentAssumption DEF Shape
      <4> QED
        BY <2>7, <4>1 DEF SpendsBudget, ModelFails, Invoked
    <3> QED
      BY <2>7, <3>1, <3>2 DEF ModelFails
  <2>8. CASE CallTools
    <3>1. graph.node = "tools" /\ graph' = [graph EXCEPT !.node = "executing"]
      BY <2>8 DEF CallTools
    <3>2. graph'.node = "executing" /\ graph'.steps = graph.steps
      BY <2>1, <3>1 DEF Shape
    <3> QED
      BY <3>1, <3>2 DEF SpendsBudget
  <2>9. CASE ToolsReturn
    <3> DEFINE ids == [i \in DOMAIN lastCalls |-> CallId(lastCalls[i], i)]
               order == FirstById(ids, ids)
               ms == messages \o [n \in DOMAIN order |-> ResultOf(order[n])]
    <3>1. Superstep(ms, "model")
      BY <2>9 DEF ToolsReturn
    <3> HIDE DEF ms
    <3> QED
      BY <2>1, <3>1, SuperstepSpends DEF Superstep, Shape
  <2>10. CASE Complete
    <3>1. Running /\ (Ends("failed") \/ turns' = [turns EXCEPT ![turn] = "completed"])
      BY <2>10 DEF Complete
    <3> QED
      BY <2>3, <3>1, EndingSpends
  <2>11. CASE RecursionExceeded
    BY <2>3, <2>11 DEF RecursionExceeded
  <2>12. CASE Cancel
    BY <2>3, <2>12 DEF Cancel
  <2>13. CASE AgentStep
    BY <2>4, <2>5, <2>6, <2>7, <2>8, <2>9, <2>10, <2>11, <2>13, ToolAttemptSpends DEF AgentStep
  <2> QED
    BY <2>2, <2>12, <2>13 DEF Next
<1> QED
  BY <1>1, AgentInvariant, PTL DEF Spec, TurnsSpendBudgets

-----------------------------------------------------------------------------
\* Sequences with the same elements are the same.
LEMMA SameElements ==
    ASSUME NEW s, IsSeq(s), NEW u, IsSeq(u), Len(s) = Len(u), \A i \in 1..Len(s) : s[i] = u[i]
    PROVE  s = u
<1>1. s = [i \in 1..Len(s) |-> s[i]] /\ u = [i \in 1..Len(s) |-> u[i]]
  BY DEF IsSeq
<1> QED
  BY <1>1

\* Nothing appended changes nothing.
LEMMA ConcatNothing ==
    ASSUME NEW s, IsSeq(s)
    PROVE  s \o <<>> = s /\ <<>> \o s = s
<1>1. IsSeq(<<>>) /\ Len(<<>>) = 0 /\ Len(s) \in Nat
  BY DEF IsSeq
<1>2. /\ IsSeq(s \o <<>>) /\ Len(s \o <<>>) = Len(s)
      /\ \A i \in 1..Len(s) : (s \o <<>>)[i] = s[i]
  BY <1>1, ConcatFacts
<1>3. /\ IsSeq(<<>> \o s) /\ Len(<<>> \o s) = Len(s)
      /\ \A i \in 1..Len(s) : (<<>> \o s)[0 + i] = s[i]
  BY <1>1, ConcatFacts
<1>4. \A i \in 1..Len(s) : (<<>> \o s)[i] = s[i]
  BY <1>1, <1>3
<1>5. s \o <<>> = s
  BY <1>2, SameElements
<1>6. <<>> \o s = s
  BY <1>3, <1>4, SameElements
<1> QED
  BY <1>5, <1>6

\* What FlattenSeq computes recursively, up to place n.
IsFlat(s, n, f) == f = [i \in 1..n |-> IF i = 1 THEN s[i] ELSE f[i - 1] \o s[i]]

\* There is such a function.
LEMMA FlatExists ==
    ASSUME NEW s, NEW n \in Nat
    PROVE  \E f : IsFlat(s, n, f)
<1> DEFINE T == {m \in Nat : ~ \E f : IsFlat(s, m, f)}
<1> SUFFICES ASSUME T # {} PROVE FALSE
  OBVIOUS
<1>1. PICK m \in T : \A y \in T : m <= y
  <2>1. T \subseteq Nat
    OBVIOUS
  <2> HIDE DEF T
  <2> QED
    BY <2>1, LeastOfNaturals
<1>2. m \in Nat /\ ~ \E f : IsFlat(s, m, f)
  BY <1>1
<1>3. CASE m = 0
  <2> DEFINE f == [i \in 1..0 |-> i]
  <2>1. f = [i \in 1..0 |-> IF i = 1 THEN s[i] ELSE f[i - 1] \o s[i]]
    OBVIOUS
  <2> QED
    BY <1>2, <1>3, <2>1 DEF IsFlat
<1>4. CASE m > 0
  <2>1. m - 1 \in Nat /\ m - 1 \notin T
    BY <1>1, <1>2, <1>4
  <2>2. PICK f : IsFlat(s, m - 1, f)
    BY <2>1
  <2> DEFINE rest(i) == IF i = 1 THEN s[i] ELSE f[i - 1] \o s[i]
             g == [i \in 1..m |-> rest(i)]
             next(i) == IF i = 1 THEN s[i] ELSE g[i - 1] \o s[i]
  <2>3. \A i \in 1..(m - 1) : f[i] = rest(i)
    BY <2>2, <2>1 DEF IsFlat
  <2>4. \A i \in 1..m : g[i] = rest(i)
    OBVIOUS
  <2> HIDE DEF g
  <2>5. ASSUME NEW i \in 1..m PROVE rest(i) = next(i)
    <3>1. CASE i = 1
      BY <3>1
    <3>2. CASE i # 1
      <4>1. i - 1 \in 1..(m - 1) /\ i - 1 \in 1..m
        BY <1>2, <3>2
      <4>2. g[i - 1] = f[i - 1]
        BY <4>1, <2>3, <2>4
      <4> QED
        BY <3>2, <4>2
    <3> QED
      BY <3>1, <3>2
  <2>6. g = [i \in 1..m |-> next(i)]
    <3> HIDE DEF rest, next
    <3> QED
      BY <2>5 DEF g
  <2>7. IsFlat(s, m, g)
    BY <2>6 DEF IsFlat
  <2> QED
    BY <1>2, <2>7
<1> QED
  BY <1>2, <1>3, <1>4

\* Two functions agree up to n.
Alike(u, s, n) == \A i \in 1..n : u[i] = s[i]

\* It is the same for sequences that begin alike.
LEMMA FlatSame ==
    ASSUME NEW s, NEW n \in Nat, NEW f, IsFlat(s, n, f),
           NEW u, NEW m \in Nat, NEW g, IsFlat(u, m, g), n <= m, Alike(u, s, n)
    PROVE  Alike(g, f, n)
<1> DEFINE T == {i \in 1..n : g[i] # f[i]}
<1> SUFFICES ASSUME T # {} PROVE FALSE
  BY DEF Alike
<1>1. PICK i \in T : \A y \in T : i <= y
  <2>1. T \subseteq Nat
    OBVIOUS
  <2> HIDE DEF T
  <2> QED
    BY <2>1, LeastOfNaturals
<1>2. i \in 1..n /\ i \in 1..m /\ g[i] # f[i] /\ u[i] = s[i]
  BY <1>1 DEF Alike
<1>3. /\ f[i] = IF i = 1 THEN s[i] ELSE f[i - 1] \o s[i]
      /\ g[i] = IF i = 1 THEN u[i] ELSE g[i - 1] \o u[i]
  BY <1>2 DEF IsFlat
<1>4. CASE i # 1
  <2>1. i - 1 \in 1..n /\ i - 1 \notin T
    BY <1>1, <1>2, <1>4
  <2>2. g[i - 1] = f[i - 1]
    BY <2>1
  <2> QED
    BY <1>2, <1>3, <1>4, <2>2
<1> QED
  BY <1>2, <1>3, <1>4

\* FlattenSeq is what it computes at the last place.
LEMMA FlattenIs ==
    ASSUME NEW s, IsSeq(s), Len(s) # 0
    PROVE  \E f : IsFlat(s, Len(s), f) /\ FlattenSeq(s) = f[Len(s)]
<1> DEFINE f == CHOOSE f : f = [i \in 1..Len(s) |-> IF i = 1 THEN s[i] ELSE f[i - 1] \o s[i]]
<1>1. Len(s) \in Nat
  BY DEF IsSeq
<1>2. FlattenSeq(s) = f[Len(s)]
  BY DEF FlattenSeq
<1>3. \E g : g = [i \in 1..Len(s) |-> IF i = 1 THEN s[i] ELSE g[i - 1] \o s[i]]
  BY <1>1, FlatExists DEF IsFlat
<1>4. f = [i \in 1..Len(s) |-> IF i = 1 THEN s[i] ELSE f[i - 1] \o s[i]]
  BY <1>3
<1> QED
  BY <1>2, <1>4 DEF IsFlat

\* One more sequence comes after the others.
LEMMA FlattenMore ==
    ASSUME NEW s, IsSeq(s), NEW u, IsSeq(u), Len(u) = Len(s) + 1, \A i \in 1..Len(s) : u[i] = s[i],
           IsSeq(u[Len(u)])
    PROVE  FlattenSeq(u) = FlattenSeq(s) \o u[Len(u)]
<1>1. Len(s) \in Nat /\ Len(u) \in Nat /\ Len(u) # 0
  BY DEF IsSeq
<1>2. PICK g : IsFlat(u, Len(u), g) /\ FlattenSeq(u) = g[Len(u)]
  BY <1>1, FlattenIs
<1>3. g[Len(u)] = IF Len(u) = 1 THEN u[Len(u)] ELSE g[Len(u) - 1] \o u[Len(u)]
  <2>1. Len(u) \in 1..Len(u)
    BY <1>1
  <2> QED
    BY <1>2, <2>1 DEF IsFlat
<1>4. CASE Len(s) = 0
  <2>1. FlattenSeq(s) = s
    BY <1>4 DEF FlattenSeq
  <2>2. s = <<>>
    <3>1. IsSeq(<<>>) /\ Len(<<>>) = 0
      BY DEF IsSeq
    <3>2. \A i \in 1..Len(s) : s[i] = <<>>[i]
      BY <1>4
    <3> QED
      BY <1>4, <3>1, <3>2, SameElements
  <2> QED
    BY <1>2, <1>3, <1>4, <2>1, <2>2, ConcatNothing
<1>5. CASE Len(s) # 0
  <2>1. PICK f : IsFlat(s, Len(s), f) /\ FlattenSeq(s) = f[Len(s)]
    BY <1>5, FlattenIs
  <2>2. \A i \in 1..Len(s) : g[i] = f[i]
    <3>1. Len(s) <= Len(u) /\ Len(s) \in Nat /\ Len(u) \in Nat
      BY <1>1
    <3>2. IsFlat(s, Len(s), f) /\ IsFlat(u, Len(u), g)
      BY <1>2, <2>1
    <3>3. Alike(u, s, Len(s))
      BY DEF Alike
    <3>4. Alike(g, f, Len(s))
      BY <3>1, <3>2, <3>3, FlatSame
    <3> QED
      BY <3>4 DEF Alike
  <2>3. Len(u) - 1 = Len(s) /\ Len(s) \in 1..Len(s) /\ Len(u) # 1
    BY <1>1, <1>5
  <2>4. g[Len(u) - 1] = f[Len(s)]
    BY <2>2, <2>3
  <2> QED
    BY <1>2, <1>3, <2>1, <2>3, <2>4
<1> QED
  BY <1>4, <1>5

\* Empty sequences add nothing.
LEMMA FlattenNothing ==
    ASSUME NEW s, IsSeq(s), NEW u, IsSeq(u), Len(s) > 0, Len(s) <= Len(u),
           \A i \in 1..Len(s) : u[i] = s[i], \A i \in (Len(s) + 1)..Len(u) : u[i] = <<>>,
           IsSeq(FlattenSeq(s))
    PROVE  FlattenSeq(u) = FlattenSeq(s)
<1>1. Len(s) \in Nat /\ Len(u) \in Nat /\ Len(s) # 0 /\ Len(u) # 0
  BY DEF IsSeq
<1>2. PICK f : IsFlat(s, Len(s), f) /\ FlattenSeq(s) = f[Len(s)]
  BY <1>1, FlattenIs
<1>3. PICK g : IsFlat(u, Len(u), g) /\ FlattenSeq(u) = g[Len(u)]
  BY <1>1, FlattenIs
<1>4. g[Len(s)] = f[Len(s)]
  <2>1. \A i \in 1..Len(s) : g[i] = f[i]
    <3>1. Len(s) <= Len(u) /\ Len(s) \in Nat /\ Len(u) \in Nat
      BY <1>1
    <3>2. IsFlat(s, Len(s), f) /\ IsFlat(u, Len(u), g)
      BY <1>2, <1>3
    <3>3. Alike(u, s, Len(s))
      BY DEF Alike
    <3>4. Alike(g, f, Len(s))
      BY <3>1, <3>2, <3>3, FlatSame
    <3> QED
      BY <3>4 DEF Alike
  <2> QED
    BY <1>1, <2>1
<1> DEFINE T == {i \in Len(s)..Len(u) : g[i] # f[Len(s)]}
<1>5. T = {}
  <2> SUFFICES ASSUME T # {} PROVE FALSE
    OBVIOUS
  <2>1. PICK i \in T : \A y \in T : i <= y
    <3>1. T \subseteq Nat
      BY <1>1
    <3> HIDE DEF T
    <3> QED
      BY <3>1, LeastOfNaturals
  <2>2. i \in Len(s)..Len(u) /\ g[i] # f[Len(s)]
    BY <2>1
  <2>3. i # Len(s)
    BY <1>4, <2>2
  <2>4. i - 1 \in Len(s)..Len(u) /\ i - 1 \notin T
    BY <1>1, <2>1, <2>2, <2>3
  <2>5. g[i - 1] = f[Len(s)]
    BY <2>4
  <2>6. i \in 1..Len(u) /\ i # 1 /\ u[i] = <<>>
    BY <1>1, <2>2, <2>3
  <2>7. g[i] = g[i - 1] \o u[i]
    BY <1>3, <2>6 DEF IsFlat
  <2>8. f[Len(s)] \o <<>> = f[Len(s)]
    BY <1>2, ConcatNothing
  <2> QED
    BY <2>2, <2>5, <2>6, <2>7, <2>8
<1>6. Len(u) \in Len(s)..Len(u)
  BY <1>1
<1> QED
  BY <1>2, <1>3, <1>5, <1>6

-----------------------------------------------------------------------------
\* Every place among the members of a set of numbers is taken by one of them.
LEMMA RankTaken ==
    ASSUME NEW n \in Nat, NEW keep, keep \subseteq 1..n, NEW k \in 1..Cardinality(keep)
    PROVE  \E i \in keep : Rank(keep, i) = k
<1>1. IsFiniteSet(keep) /\ Cardinality(keep) \in Nat /\ keep \subseteq Nat
  <2>1. IsFiniteSet(1..n)
    BY FS_Interval
  <2>2. IsFiniteSet(keep)
    BY <2>1, FS_Subset
  <2> QED
    BY <2>2, FS_CardinalityType
<1> DEFINE Taken(j) == \E r \in keep : Rank(keep, r) = j
           Free == {j \in 1..Cardinality(keep) : ~ Taken(j)}
           UpTo(r) == {q \in keep : q <= r}
<1>2. Free = {}
  <2> SUFFICES ASSUME Free # {} PROVE FALSE
    OBVIOUS
  <2>1. Free \subseteq Nat
    BY <1>1
  <2>2. PICK m \in Free : \A j \in Free : m <= j
    <3> HIDE DEF Free
    <3> QED
      BY <2>1, LeastOfNaturals
  <2>3. m \in 1..Cardinality(keep) /\ ~ Taken(m)
    BY <2>2
  <2>4. PICK low \in SUBSET keep : /\ Cardinality(low) = m - 1 /\ IsFiniteSet(low)
                                   /\ \A q \in low, r \in keep \ low : q < r
    <3>1. CASE m = 1
      <4>1. IsFiniteSet({}) /\ Cardinality({}) = 0
        BY FS_EmptySet
      <4> QED
        BY <3>1, <4>1
    <3>2. CASE m # 1
      <4>1. m - 1 \in 1..Cardinality(keep) /\ ~ (m <= m - 1)
        BY <3>2, <2>3, <1>1
      <4>2. Taken(m - 1)
        BY <4>1, <2>2
      <4>3. PICK r \in keep : Cardinality(UpTo(r)) = m - 1
        BY <4>2 DEF Rank
      <4>4. UpTo(r) \in SUBSET keep
        OBVIOUS
      <4>5. \A q \in UpTo(r), y \in keep \ UpTo(r) : q < y
        BY <1>1
      <4> HIDE DEF UpTo
      <4>6. IsFiniteSet(UpTo(r))
        BY <1>1, <4>4, FS_Subset
      <4> QED
        BY <4>3, <4>4, <4>5, <4>6
    <3> QED
      BY <3>1, <3>2
  <2>5. keep \ low # {}
    <3> SUFFICES ASSUME keep = low PROVE FALSE
      BY <2>4
    <3> QED
      BY <2>3, <2>4, <1>1
  <2>6. PICK r \in keep \ low : \A y \in keep \ low : r <= y
    <3>1. keep \ low \subseteq Nat
      BY <1>1
    <3> QED
      BY <2>5, <3>1, LeastOfNaturals
  <2>7. UpTo(r) = low \cup {r}
    <3>1. \A q \in keep : q <= r <=> (q \in low \/ q = r)
      <4> TAKE q \in keep
      <4>1. q \in Nat /\ r \in Nat
        BY <1>1
      <4>2. CASE q \in low
        BY <4>1, <4>2, <2>4
      <4>3. CASE q \notin low
        BY <4>1, <4>3, <2>6
      <4> QED
        BY <4>2, <4>3
    <3> QED
      BY <2>4, <2>6, <3>1
  <2>8. Cardinality(UpTo(r)) = m
    <3>1. Cardinality(low \cup {r}) = Cardinality(low) + 1
      BY <2>4, <2>6, FS_AddElement
    <3> HIDE DEF UpTo
    <3> QED
      BY <3>1, <2>3, <2>4, <2>7, <1>1
  <2>9. Rank(keep, r) = m
    BY <2>8 DEF Rank
  <2> QED
    BY <2>3, <2>6, <2>9
<1> QED
  BY <1>2

\* p has what s has at the places kept, in order.
Picks(p, s, keep) ==
    /\ IsSeq(p) /\ Len(p) = Cardinality(keep) /\ Cardinality(keep) \in Nat
    /\ \A i \in keep : Rank(keep, i) \in 1..Cardinality(keep) /\ p[Rank(keep, i)] = s[i]

\* That is what Picked picks.
LEMMA PickedFacts ==
    ASSUME NEW n \in Nat, NEW keep, keep \subseteq 1..n, NEW s
    PROVE  Picks(Picked(s, keep), s, keep)
<1> DEFINE at(k) == CHOOSE i \in keep : Cardinality({j \in keep : j <= i}) = k
           p == [k \in 1..Cardinality(keep) |-> s[at(k)]]
<1>1. Picked(s, keep) = p
  BY DEF Picked
<1>2. /\ Cardinality(keep) \in Nat
      /\ \A i \in keep : Rank(keep, i) \in 1..Cardinality(keep)
      /\ \A i, k \in keep : Rank(keep, i) = Rank(keep, k) => i = k
  BY RankFacts
<1>3. ASSUME NEW k \in keep PROVE at(Rank(keep, k)) = k
  <2>1. \A i \in keep : Cardinality({j \in keep : j <= i}) = Rank(keep, k) <=> i = k
    BY <1>2, <1>3 DEF Rank
  <2> QED
    BY <1>3, <2>1
<1>4. IsSeq(p) /\ Len(p) = Cardinality(keep)
  <2>1. p = [k \in 1..Cardinality(keep) |-> p[k]]
    OBVIOUS
  <2> HIDE DEF p
  <2> QED
    BY <1>2, <2>1, FunctionIsSeq
<1>5. \A i \in keep : p[Rank(keep, i)] = s[i]
  <2> TAKE k \in keep
  <2>1. Rank(keep, k) \in 1..Cardinality(keep) /\ at(Rank(keep, k)) = k
    BY <1>2, <1>3
  <2> HIDE DEF at
  <2> QED
    BY <2>1
<1> QED
  BY <1>1, <1>2, <1>4, <1>5 DEF Picks

\* Picking the same places of sequences that agree there picks the same.
LEMMA PickedSame ==
    ASSUME NEW n \in Nat, NEW keep, keep \subseteq 1..n, NEW s, NEW u, \A i \in keep : u[i] = s[i]
    PROVE  Picked(u, keep) = Picked(s, keep)
<1>1. Picks(Picked(s, keep), s, keep) /\ Picks(Picked(u, keep), u, keep)
  BY PickedFacts
<1>2. /\ IsSeq(Picked(s, keep)) /\ Len(Picked(s, keep)) = Cardinality(keep)
      /\ IsSeq(Picked(u, keep)) /\ Len(Picked(u, keep)) = Cardinality(keep)
      /\ \A i \in keep : /\ Picked(s, keep)[Rank(keep, i)] = s[i]
                         /\ Picked(u, keep)[Rank(keep, i)] = u[i]
  BY <1>1 DEF Picks
<1>3. \A k \in 1..Cardinality(keep) : Picked(u, keep)[k] = Picked(s, keep)[k]
  <2> TAKE k \in 1..Cardinality(keep)
  <2>1. PICK i \in keep : Rank(keep, i) = k
    BY RankTaken
  <2> QED
    BY <1>1, <1>2, <2>1
<1> QED
  BY <1>1, <1>2, <1>3, SameElements

\* Picking every place picks the sequence.
LEMMA PickedAll ==
    ASSUME NEW s, IsSeq(s)
    PROVE  Picked(s, 1..Len(s)) = s
<1> DEFINE n == Len(s)
           keep == 1..n
<1>1. n \in Nat
  BY DEF IsSeq
<1>2. Cardinality(keep) = n
  BY <1>1, FS_Interval
<1>3. \A i \in keep : Rank(keep, i) = i
  <2> TAKE i \in keep
  <2>1. {j \in keep : j <= i} = 1..i
    BY <1>1
  <2>2. Cardinality(1..i) = i
    BY <1>1, FS_Interval
  <2> QED
    BY <2>1, <2>2 DEF Rank
<1>4. /\ IsSeq(Picked(s, keep)) /\ Len(Picked(s, keep)) = Cardinality(keep)
      /\ \A i \in keep : Picked(s, keep)[Rank(keep, i)] = s[i]
  <2>1. keep \subseteq 1..n
    OBVIOUS
  <2> HIDE DEF n, keep
  <2>2. Picks(Picked(s, keep), s, keep)
    BY <1>1, <2>1, PickedFacts
  <2> QED
    BY <2>2 DEF Picks
<1>5. \A i \in 1..Len(s) : Picked(s, keep)[i] = s[i]
  BY <1>3, <1>4
<1> HIDE DEF keep
<1>6. Picked(s, keep) = s
  BY <1>2, <1>4, <1>5, SameElements
<1> QED
  BY <1>6 DEF keep

\* Places picked at the end are appended.
LEMMA PickedMore ==
    ASSUME NEW s, IsSeq(s), NEW a, IsSeq(a), NEW keep, keep \subseteq 1..Len(s),
           NEW more, more = keep \cup ((Len(s) + 1)..(Len(s) + Len(a)))
    PROVE  Picked(s \o a, more) = Picked(s, keep) \o a
<1>1. Len(s) \in Nat /\ Len(a) \in Nat
  BY DEF IsSeq
<1>2. /\ IsSeq(s \o a) /\ Len(s \o a) = Len(s) + Len(a)
      /\ \A i \in 1..Len(s) : (s \o a)[i] = s[i]
      /\ \A i \in 1..Len(a) : (s \o a)[Len(s) + i] = a[i]
  BY ConcatFacts
<1>3. Len(s) + Len(a) \in Nat /\ more \subseteq 1..(Len(s) + Len(a))
  <2>1. \A x \in more : x \in 1..Len(s) \/ x \in (Len(s) + 1)..(Len(s) + Len(a))
    OBVIOUS
  <2>2. \A x \in more : x \in 1..(Len(s) + Len(a))
    BY <1>1, <2>1
  <2>3. more \subseteq 1..(Len(s) + Len(a))
    BY <2>2, Zenon
  <2>4. Len(s) + Len(a) \in Nat
    BY <1>1
  <2> QED
    BY <2>3, <2>4
<1>4. /\ IsSeq(Picked(s, keep)) /\ Len(Picked(s, keep)) = Cardinality(keep)
      /\ Cardinality(keep) \in Nat
      /\ \A i \in keep : /\ Rank(keep, i) \in 1..Cardinality(keep)
                         /\ Picked(s, keep)[Rank(keep, i)] = s[i]
  <2>1. Picks(Picked(s, keep), s, keep)
    BY <1>1, PickedFacts
  <2> QED
    BY <2>1 DEF Picks
<1>5. /\ IsSeq(Picked(s \o a, more)) /\ Len(Picked(s \o a, more)) = Cardinality(more)
      /\ \A i \in more : Picked(s \o a, more)[Rank(more, i)] = (s \o a)[i]
  <2>1. Picks(Picked(s \o a, more), s \o a, more)
    BY <1>3, PickedFacts
  <2> QED
    BY <2>1 DEF Picks
<1>6. ASSUME NEW j \in 0..Len(a)
      PROVE  Cardinality(keep \cup ((Len(s) + 1)..(Len(s) + j))) = Cardinality(keep) + j
  <2>1. IsFiniteSet(1..Len(s))
    BY <1>1, FS_Interval
  <2>2. IsFiniteSet(keep)
    BY <2>1, FS_Subset
  <2>3. /\ IsFiniteSet((Len(s) + 1)..(Len(s) + j))
        /\ Cardinality((Len(s) + 1)..(Len(s) + j)) = j
    <3>1. PICK low, high : low = Len(s) + 1 /\ high = Len(s) + j
      OBVIOUS
    <3>2. low \in Int /\ high \in Int /\ (IF low > high THEN 0 ELSE high - low + 1) = j
      BY <1>1, <3>1
    <3>3. IsFiniteSet(low..high) /\ Cardinality(low..high) = IF low > high THEN 0 ELSE high - low + 1
      BY <3>2, FS_Interval
    <3> QED
      BY <3>1, <3>2, <3>3
  <2>4. keep \cap ((Len(s) + 1)..(Len(s) + j)) = {}
    BY <1>1
  <2>5. Cardinality({}) = 0
    BY FS_EmptySet
  <2> QED
    <3>1. PICK t : t = (Len(s) + 1)..(Len(s) + j)
      OBVIOUS
    <3>2. IsFiniteSet(t) /\ Cardinality(t) = j /\ keep \cap t = {} /\ IsFiniteSet(keep)
      BY <2>2, <2>3, <2>4, <3>1
    <3>3. Cardinality(keep \cup t) = Cardinality(keep) + Cardinality(t) - Cardinality(keep \cap t)
      BY <3>2, FS_Union
    <3>4. Cardinality(keep \cap t) = 0
      BY <2>5, <3>2
    <3>5. Cardinality(keep \cup t) = Cardinality(keep) + j
      BY <1>4, <3>2, <3>3, <3>4
    <3> QED
      BY <3>1, <3>5
<1>7. Cardinality(more) = Cardinality(keep) + Len(a)
  BY <1>1, <1>6
<1>8. ASSUME NEW k \in 1..Cardinality(keep)
      PROVE  Picked(s \o a, more)[k] = Picked(s, keep)[k]
  <2>1. PICK i \in keep : Rank(keep, i) = k
    BY <1>1, RankTaken
  <2>2. {j \in more : j <= i} = {j \in keep : j <= i}
    BY <1>1
  <2>3. Rank(more, i) = k /\ i \in more
    BY <2>1, <2>2 DEF Rank
  <2>4. (s \o a)[i] = s[i]
    BY <1>2
  <2> QED
    BY <1>4, <1>5, <2>1, <2>3, <2>4
<1>9. ASSUME NEW j \in 1..Len(a)
      PROVE  Picked(s \o a, more)[Cardinality(keep) + j] = a[j]
  <2> DEFINE i == Len(s) + j
  <2>1. i \in more /\ i \in Nat
    BY <1>1
  <2>2. {x \in more : x <= i} = keep \cup ((Len(s) + 1)..(Len(s) + j))
    <3>1. ASSUME NEW x, x \in more, x <= i PROVE x \in keep \/ x \in (Len(s) + 1)..(Len(s) + j)
      BY <1>1, <3>1
    <3>2. ASSUME NEW x, x \in keep PROVE x \in more /\ x <= i
      BY <1>1, <3>2
    <3>3. ASSUME NEW x, x \in (Len(s) + 1)..(Len(s) + j) PROVE x \in more /\ x <= i
      BY <1>1, <3>3
    <3> QED
      BY <3>1, <3>2, <3>3
  <2>3. Rank(more, i) = Cardinality(keep) + j
    BY <1>1, <1>6, <2>2 DEF Rank
  <2>4. (s \o a)[i] = a[j]
    BY <1>2
  <2> QED
    BY <1>5, <2>1, <2>3, <2>4
<1> DEFINE p == Picked(s, keep)
           q == Picked(s \o a, more)
<1>10. /\ IsSeq(p \o a) /\ Len(p \o a) = Len(p) + Len(a)
       /\ \A i \in 1..Len(p) : (p \o a)[i] = p[i]
       /\ \A i \in 1..Len(a) : (p \o a)[Len(p) + i] = a[i]
  <2>1. IsSeq(p)
    BY <1>4
  <2> HIDE DEF p
  <2> QED
    BY <2>1, ConcatFacts
<1>11. \A i \in 1..Len(q) : q[i] = (p \o a)[i]
  <2> TAKE i \in 1..Len(q)
  <2>1. CASE i \in 1..Cardinality(keep)
    BY <1>4, <1>8, <1>10, <2>1
  <2>2. CASE i \notin 1..Cardinality(keep)
    <3>1. PICK j \in 1..Len(a) : i = Cardinality(keep) + j
      <4>1. i - Cardinality(keep) \in 1..Len(a)
        BY <1>1, <1>4, <1>5, <1>7, <2>2
      <4> QED
        BY <1>4, <4>1
    <3> QED
      BY <1>4, <1>9, <1>10, <3>1
  <2> QED
    BY <2>1, <2>2
<1>12. Len(q) = Len(p \o a)
  BY <1>4, <1>5, <1>7, <1>10
<1> HIDE DEF p, q
<1>13. IsSeq(q) /\ IsSeq(p \o a)
  BY <1>5, <1>10 DEF q
<1>14. q = p \o a
  BY <1>11, <1>12, <1>13, SameElements
<1> QED
  BY <1>14 DEF p, q

\* Distinct ids leave nothing to drop.
LEMMA FirstOfDistinct ==
    ASSUME NEW s, IsSeq(s), NEW id, \A i, j \in 1..Len(s) : id[i] = id[j] => i = j
    PROVE  FirstById(s, id) = s
<1>1. Len(s) \in Nat /\ DOMAIN s = 1..Len(s)
  BY SeqFacts
<1>2. {i \in DOMAIN s : \A j \in 1..(i - 1) : id[j] # id[i]} = 1..Len(s)
  BY <1>1
<1> QED
  BY <1>2, PickedAll DEF FirstById

-----------------------------------------------------------------------------
\* Calls that have ids are named after them.
Named(names, calls) ==
    /\ IsSeq(names) /\ IsSeq(calls) /\ Len(names) = Len(calls)
    /\ \A i \in 1..Len(calls) : calls[i].id # None => names[i] = calls[i].id

\* The names of the calls of a message at place p.
NamesAt(m, p) == [i \in DOMAIN m.calls |-> StreamId(m.calls[i], p, i)]

\* A further message with calls adds its calls and their names.
LEMMA CallsAreAdded ==
    ASSUME NEW own, IsSeq(own), NEW m, m.type = "ai", IsSeq(m.calls)
    PROVE  /\ CallsOf(Append(own, m)) = CallsOf(own) \o m.calls
           /\ ResultsOf(Append(own, m)) = ResultsOf(own)
           /\ NamesOf(Append(own, m)) = NamesOf(own) \o NamesAt(m, Len(own) + 1)
           /\ Named(NamesAt(m, Len(own) + 1), m.calls)
<1> DEFINE u == Append(own, m)
           callsAt(p) == IF own[p].type = "ai" THEN own[p].calls ELSE <<>>
           callsIn(p) == IF u[p].type = "ai" THEN u[p].calls ELSE <<>>
           namesAt(p) == IF own[p].type = "ai"
                         THEN [i \in DOMAIN own[p].calls |-> StreamId(own[p].calls[i], p, i)] ELSE <<>>
           namesIn(p) == IF u[p].type = "ai"
                         THEN [i \in DOMAIN u[p].calls |-> StreamId(u[p].calls[i], p, i)] ELSE <<>>
<1>1. Len(own) \in Nat /\ DOMAIN own = 1..Len(own)
  BY SeqFacts
<1>2. /\ IsSeq(u) /\ Len(u) = Len(own) + 1 /\ \A i \in 1..Len(own) : u[i] = own[i]
      /\ u[Len(own) + 1] = m
  BY AppendFacts
<1>3. DOMAIN u = 1..(Len(own) + 1) /\ Len(own) + 1 \in Nat
  BY <1>1, <1>2, SeqFacts
<1> HIDE DEF u
<1>4. \A p \in 1..Len(own) : callsIn(p) = callsAt(p) /\ namesIn(p) = namesAt(p)
  BY <1>2
<1>5. callsIn(Len(own) + 1) = m.calls
  BY <1>2
<1>6. namesIn(Len(own) + 1) = NamesAt(m, Len(own) + 1)
  BY <1>2 DEF NamesAt
<1>7. DOMAIN m.calls = 1..Len(m.calls) /\ Len(m.calls) \in Nat
  BY SeqFacts
<1>8. CallsOf(u) = CallsOf(own) \o m.calls
  <2>1. /\ CallsOf(own) = FlattenSeq([p \in 1..Len(own) |-> callsAt(p)])
        /\ CallsOf(u) = FlattenSeq([p \in 1..(Len(own) + 1) |-> callsIn(p)])
    BY <1>1, <1>3 DEF CallsOf
  <2>7. \A p \in 1..Len(own) : callsIn(p) = callsAt(p)
    BY <1>4
  <2> HIDE DEF callsAt, callsIn
  <2>2. PICK a, b : a = [p \in 1..Len(own) |-> callsAt(p)] /\ b = [p \in 1..(Len(own) + 1) |-> callsIn(p)]
    OBVIOUS
  <2>3. IsSeq(a) /\ Len(a) = Len(own) /\ IsSeq(b) /\ Len(b) = Len(own) + 1
    <3>1. a = [p \in 1..Len(own) |-> a[p]] /\ b = [p \in 1..(Len(own) + 1) |-> b[p]]
      BY <2>2
    <3> QED
      BY <1>1, <1>3, <3>1, FunctionIsSeq
  <2>4. \A p \in 1..Len(own) : b[p] = a[p]
    BY <1>1, <2>2, <2>7
  <2>5. b[Len(own) + 1] = m.calls
    BY <1>1, <1>5, <2>2
  <2>6. FlattenSeq(b) = FlattenSeq(a) \o b[Len(b)]
    <3>1. Len(b) = Len(a) + 1 /\ IsSeq(b[Len(b)]) /\ \A p \in 1..Len(a) : b[p] = a[p]
      BY <2>3, <2>4, <2>5
    <3> QED
      BY <2>3, <3>1, FlattenMore
  <2> QED
    BY <2>1, <2>2, <2>3, <2>5, <2>6
<1>9. PICK names : names = NamesAt(m, Len(own) + 1)
  OBVIOUS
<1>10. IsSeq(names) /\ Len(names) = Len(m.calls)
  <2>1. names = [i \in 1..Len(m.calls) |-> names[i]]
    BY <1>7, <1>9 DEF NamesAt
  <2> QED
    BY <1>7, <2>1, FunctionIsSeq
<1>11. \A i \in 1..Len(names) : m.calls[i].id # None => names[i] = m.calls[i].id
  BY <1>7, <1>9, <1>10 DEF StreamId, NamesAt
<1>12. NamesOf(u) = NamesOf(own) \o names
  <2>1. /\ NamesOf(own) = FlattenSeq([p \in 1..Len(own) |-> namesAt(p)])
        /\ NamesOf(u) = FlattenSeq([p \in 1..(Len(own) + 1) |-> namesIn(p)])
    BY <1>1, <1>3 DEF NamesOf
  <2>7. \A p \in 1..Len(own) : namesIn(p) = namesAt(p)
    BY <1>4
  <2> HIDE DEF namesAt, namesIn
  <2>2. PICK a, b : a = [p \in 1..Len(own) |-> namesAt(p)] /\ b = [p \in 1..(Len(own) + 1) |-> namesIn(p)]
    OBVIOUS
  <2>3. IsSeq(a) /\ Len(a) = Len(own) /\ IsSeq(b) /\ Len(b) = Len(own) + 1
    <3>1. a = [p \in 1..Len(own) |-> a[p]] /\ b = [p \in 1..(Len(own) + 1) |-> b[p]]
      BY <2>2
    <3> QED
      BY <1>1, <1>3, <3>1, FunctionIsSeq
  <2>4. \A p \in 1..Len(own) : b[p] = a[p]
    BY <1>1, <2>2, <2>7
  <2>5. b[Len(own) + 1] = names
    BY <1>1, <1>6, <1>9, <2>2
  <2>6. FlattenSeq(b) = FlattenSeq(a) \o b[Len(b)]
    <3>1. Len(b) = Len(a) + 1 /\ IsSeq(b[Len(b)]) /\ \A p \in 1..Len(a) : b[p] = a[p]
      BY <1>10, <2>3, <2>4, <2>5
    <3> QED
      BY <2>3, <3>1, FlattenMore
  <2> QED
    BY <2>1, <2>2, <2>3, <2>5, <2>6
<1>13. ResultsOf(u) = ResultsOf(own)
  <2> DEFINE keep == {i \in 1..Len(own) : own[i].type = "tool"}
  <2>1. keep = {i \in DOMAIN own : own[i].type = "tool"}
    BY <1>1
  <2>2. keep = {i \in DOMAIN u : u[i].type = "tool"}
    BY <1>1, <1>2, <1>3
  <2>3. keep \subseteq 1..Len(own) /\ \A i \in keep : u[i] = own[i]
    BY <1>2
  <2> HIDE DEF keep
  <2>4. Picked(u, keep) = Picked(own, keep)
    BY <1>1, <2>3, PickedSame
  <2> QED
    BY <2>1, <2>2, <2>4 DEF ResultsOf
<1> QED
  BY <1>8, <1>9, <1>10, <1>11, <1>12, <1>13 DEF u, Named

\* Answers add results and nothing else.
LEMMA ResultsAreAdded ==
    ASSUME NEW own, IsSeq(own), Len(own) > 0, NEW a, IsSeq(a),
           \A i \in 1..Len(a) : a[i].type = "tool", IsSeq(CallsOf(own)), IsSeq(NamesOf(own))
    PROVE  /\ CallsOf(own \o a) = CallsOf(own)
           /\ NamesOf(own \o a) = NamesOf(own)
           /\ ResultsOf(own \o a) = ResultsOf(own) \o a
<1> DEFINE u == own \o a
           callsAt(p) == IF own[p].type = "ai" THEN own[p].calls ELSE <<>>
           callsIn(p) == IF u[p].type = "ai" THEN u[p].calls ELSE <<>>
           namesAt(p) == IF own[p].type = "ai"
                         THEN [i \in DOMAIN own[p].calls |-> StreamId(own[p].calls[i], p, i)] ELSE <<>>
           namesIn(p) == IF u[p].type = "ai"
                         THEN [i \in DOMAIN u[p].calls |-> StreamId(u[p].calls[i], p, i)] ELSE <<>>
<1>1. Len(own) \in Nat /\ DOMAIN own = 1..Len(own) /\ Len(a) \in Nat
  BY SeqFacts
<1>2. /\ IsSeq(u) /\ Len(u) = Len(own) + Len(a) /\ \A i \in 1..Len(own) : u[i] = own[i]
      /\ \A i \in 1..Len(a) : u[Len(own) + i] = a[i]
  BY ConcatFacts
<1>3. DOMAIN u = 1..Len(u) /\ Len(u) \in Nat /\ Len(own) <= Len(u)
  BY <1>1, <1>2, SeqFacts
<1> HIDE DEF u
<1>4. \A p \in 1..Len(own) : callsIn(p) = callsAt(p) /\ namesIn(p) = namesAt(p)
  BY <1>2
<1>5. \A p \in (Len(own) + 1)..Len(u) : u[p].type = "tool"
  <2> TAKE p \in (Len(own) + 1)..Len(u)
  <2>1. p - Len(own) \in 1..Len(a) /\ p = Len(own) + (p - Len(own))
    BY <1>1, <1>2
  <2>2. u[p] = a[p - Len(own)]
    BY <1>2, <2>1
  <2> QED
    BY <2>1, <2>2
<1>6. \A p \in (Len(own) + 1)..Len(u) : callsIn(p) = <<>> /\ namesIn(p) = <<>>
  BY <1>5
<1>7. CallsOf(u) = CallsOf(own)
  <2>1. /\ CallsOf(own) = FlattenSeq([p \in 1..Len(own) |-> callsAt(p)])
        /\ CallsOf(u) = FlattenSeq([p \in 1..Len(u) |-> callsIn(p)])
    BY <1>1, <1>3 DEF CallsOf
  <2>8. \A p \in 1..Len(own) : callsIn(p) = callsAt(p)
    BY <1>4
  <2>9. \A p \in (Len(own) + 1)..Len(u) : callsIn(p) = <<>>
    BY <1>6
  <2> HIDE DEF callsAt, callsIn
  <2>2. PICK s, t : s = [p \in 1..Len(own) |-> callsAt(p)] /\ t = [p \in 1..Len(u) |-> callsIn(p)]
    OBVIOUS
  <2>3. IsSeq(s) /\ Len(s) = Len(own) /\ IsSeq(t) /\ Len(t) = Len(u)
    <3>1. s = [p \in 1..Len(own) |-> s[p]] /\ t = [p \in 1..Len(u) |-> t[p]]
      BY <2>2
    <3> QED
      BY <1>1, <1>3, <3>1, FunctionIsSeq
  <2>4. \A p \in 1..Len(own) : t[p] = s[p]
    BY <1>1, <1>3, <2>2, <2>8
  <2>5. \A p \in (Len(own) + 1)..Len(u) : t[p] = <<>>
    BY <1>1, <1>3, <2>2, <2>9
  <2>6. IsSeq(FlattenSeq(s))
    BY <2>1, <2>2
  <2>7. FlattenSeq(t) = FlattenSeq(s)
    <3>1. /\ Len(s) > 0 /\ Len(s) <= Len(t) /\ \A p \in 1..Len(s) : t[p] = s[p]
          /\ \A p \in (Len(s) + 1)..Len(t) : t[p] = <<>>
      BY <1>3, <2>3, <2>4, <2>5
    <3> QED
      BY <2>3, <2>6, <3>1, FlattenNothing
  <2> QED
    BY <2>1, <2>2, <2>7
<1>8. NamesOf(u) = NamesOf(own)
  <2>1. /\ NamesOf(own) = FlattenSeq([p \in 1..Len(own) |-> namesAt(p)])
        /\ NamesOf(u) = FlattenSeq([p \in 1..Len(u) |-> namesIn(p)])
    BY <1>1, <1>3 DEF NamesOf
  <2>8. \A p \in 1..Len(own) : namesIn(p) = namesAt(p)
    BY <1>4
  <2>9. \A p \in (Len(own) + 1)..Len(u) : namesIn(p) = <<>>
    BY <1>6
  <2> HIDE DEF namesAt, namesIn
  <2>2. PICK s, t : s = [p \in 1..Len(own) |-> namesAt(p)] /\ t = [p \in 1..Len(u) |-> namesIn(p)]
    OBVIOUS
  <2>3. IsSeq(s) /\ Len(s) = Len(own) /\ IsSeq(t) /\ Len(t) = Len(u)
    <3>1. s = [p \in 1..Len(own) |-> s[p]] /\ t = [p \in 1..Len(u) |-> t[p]]
      BY <2>2
    <3> QED
      BY <1>1, <1>3, <3>1, FunctionIsSeq
  <2>4. \A p \in 1..Len(own) : t[p] = s[p]
    BY <1>1, <1>3, <2>2, <2>8
  <2>5. \A p \in (Len(own) + 1)..Len(u) : t[p] = <<>>
    BY <1>1, <1>3, <2>2, <2>9
  <2>6. IsSeq(FlattenSeq(s))
    BY <2>1, <2>2
  <2>7. FlattenSeq(t) = FlattenSeq(s)
    <3>1. /\ Len(s) > 0 /\ Len(s) <= Len(t) /\ \A p \in 1..Len(s) : t[p] = s[p]
          /\ \A p \in (Len(s) + 1)..Len(t) : t[p] = <<>>
      BY <1>3, <2>3, <2>4, <2>5
    <3> QED
      BY <2>3, <2>6, <3>1, FlattenNothing
  <2> QED
    BY <2>1, <2>2, <2>7
<1>9. ResultsOf(u) = ResultsOf(own) \o a
  <2> DEFINE keep == {i \in 1..Len(own) : own[i].type = "tool"}
             more == {i \in 1..Len(u) : u[i].type = "tool"}
  <2>1. keep = {i \in DOMAIN own : own[i].type = "tool"}
    BY <1>1
  <2>2. more = {i \in DOMAIN u : u[i].type = "tool"}
    BY <1>3
  <2>3. more = keep \cup ((Len(own) + 1)..(Len(own) + Len(a)))
    <3>1. ASSUME NEW x \in more
          PROVE  x \in keep \/ x \in (Len(own) + 1)..(Len(own) + Len(a))
      BY <1>1, <1>2
    <3>2. ASSUME NEW x \in keep PROVE x \in more
      BY <1>1, <1>2, <1>3
    <3>3. ASSUME NEW x \in (Len(own) + 1)..(Len(own) + Len(a)) PROVE x \in more
      BY <1>1, <1>2, <1>5
    <3> HIDE DEF keep, more
    <3> QED
      BY <3>1, <3>2, <3>3, Zenon
  <2>4. keep \subseteq 1..Len(own)
    OBVIOUS
  <2> HIDE DEF keep, more
  <2>5. Picked(u, more) = Picked(own, keep) \o a
    BY <2>3, <2>4, PickedMore DEF u
  <2> QED
    BY <2>1, <2>2, <2>5 DEF ResultsOf
<1> QED
  BY <1>7, <1>8, <1>9 DEF u

-----------------------------------------------------------------------------
\* The provider gave every call an id of its own.
Distinct(calls) ==
    \A i, j \in 1..Len(calls) : calls[i].id # None /\ (calls[i].id = calls[j].id => i = j)

\* The results are those of the first calls, in their order.
Answer(results, calls) ==
    \A i \in 1..Len(results) : results[i].id = calls[i].id /\ results[i].name = calls[i].name

\* What the messages of a turn tell: every call has its name and, given ids that
\* tell calls apart, its result in the order of the calls; the last ones are pending.
Told(own, pending) ==
    /\ Named(NamesOf(own), CallsOf(own)) /\ IsSeq(ResultsOf(own)) /\ IsSeq(pending)
    /\ Len(pending) <= Len(CallsOf(own))
    /\ \A i \in 1..Len(pending) : CallsOf(own)[Len(CallsOf(own)) - Len(pending) + i] = pending[i]
    /\ Distinct(CallsOf(own)) => /\ Len(ResultsOf(own)) + Len(pending) = Len(CallsOf(own))
                                 /\ Answer(ResultsOf(own), CallsOf(own))

\* A turn that said nothing tells nothing.
LEMMA NothingTold ==
    ASSUME NEW own, IsSeq(own), Len(own) = 0
    PROVE  Told(own, <<>>) /\ NamesOf(own) = <<>> /\ ResultsOf(own) = <<>>
<1>1. IsSeq(<<>>) /\ Len(<<>>) = 0 /\ DOMAIN own = 1..0
  BY SeqFacts DEF IsSeq
<1>2. \A s : IsSeq(s) /\ Len(s) = 0 => s = <<>>
  BY <1>1, SameElements
<1>3. \A s : IsSeq(s) /\ Len(s) = 0 => FlattenSeq(s) = <<>>
  BY <1>2 DEF FlattenSeq
<1>4. ASSUME NEW f, f = [p \in 1..0 |-> f[p]] PROVE IsSeq(f) /\ Len(f) = 0
  <2>1. 0 \in Nat
    OBVIOUS
  <2> QED
    BY <1>4, <2>1, FunctionIsSeq
<1>5. CallsOf(own) = <<>>
  <2> DEFINE f == [p \in 1..0 |-> IF own[p].type = "ai" THEN own[p].calls ELSE <<>>]
  <2>1. f = [p \in 1..0 |-> f[p]]
    OBVIOUS
  <2>2. CallsOf(own) = FlattenSeq(f)
    BY <1>1 DEF CallsOf
  <2> HIDE DEF f
  <2> QED
    BY <1>3, <1>4, <2>1, <2>2
<1>6. NamesOf(own) = <<>>
  <2> DEFINE f == [p \in 1..0 |->
                    IF own[p].type = "ai"
                    THEN [i \in DOMAIN own[p].calls |-> StreamId(own[p].calls[i], p, i)] ELSE <<>>]
  <2>1. f = [p \in 1..0 |-> f[p]]
    OBVIOUS
  <2>2. NamesOf(own) = FlattenSeq(f)
    BY <1>1 DEF NamesOf
  <2> HIDE DEF f
  <2> QED
    BY <1>3, <1>4, <2>1, <2>2
<1>7. ResultsOf(own) = <<>>
  <2>1. {i \in DOMAIN own : own[i].type = "tool"} = {}
    BY <1>1
  <2>2. ResultsOf(own) = Picked(own, {})
    BY <2>1 DEF ResultsOf
  <2>3. 0 \in Nat /\ {} \subseteq 1..0
    OBVIOUS
  <2>4. Picks(Picked(own, {}), own, {})
    BY <2>3, PickedFacts
  <2>5. IsSeq(Picked(own, {})) /\ Len(Picked(own, {})) = 0
    BY <2>4, FS_EmptySet DEF Picks
  <2> QED
    BY <1>2, <2>2, <2>5
<1> QED
  BY <1>1, <1>5, <1>6, <1>7 DEF Told, Named, Answer

\* The model says something: its calls are pending.
LEMMA CallsAreTold ==
    ASSUME NEW own, IsSeq(own), Told(own, <<>>), NEW m, m.type = "ai", IsSeq(m.calls)
    PROVE  Told(Append(own, m), m.calls)
<1> DEFINE u == Append(own, m)
<1>1. NamesOf(u) = NamesOf(own) \o NamesAt(m, Len(own) + 1) /\ Named(NamesAt(m, Len(own) + 1), m.calls)
  BY CallsAreAdded
<1>2. CallsOf(u) = CallsOf(own) \o m.calls /\ ResultsOf(u) = ResultsOf(own)
  BY CallsAreAdded
<1> HIDE DEF u
<1>3. PICK a, b, c, d, r : /\ a = CallsOf(own) /\ b = m.calls /\ c = NamesOf(own)
                           /\ d = NamesAt(m, Len(own) + 1) /\ r = ResultsOf(own)
  OBVIOUS
<1>4. IsSeq(a) /\ IsSeq(b) /\ IsSeq(c) /\ IsSeq(d) /\ Len(c) = Len(a) /\ Len(d) = Len(b) /\ IsSeq(r)
  BY <1>1, <1>3 DEF Told, Named
<1>5. Len(a) \in Nat /\ Len(b) \in Nat /\ Len(c) \in Nat /\ Len(d) \in Nat /\ Len(r) \in Nat
  BY <1>4 DEF IsSeq
<1>6. /\ IsSeq(a \o b) /\ Len(a \o b) = Len(a) + Len(b)
      /\ \A i \in 1..Len(a) : (a \o b)[i] = a[i]
      /\ \A i \in 1..Len(b) : (a \o b)[Len(a) + i] = b[i]
  BY <1>4, ConcatFacts
<1>7. /\ IsSeq(c \o d) /\ Len(c \o d) = Len(c) + Len(d)
      /\ \A i \in 1..Len(c) : (c \o d)[i] = c[i]
      /\ \A i \in 1..Len(d) : (c \o d)[Len(c) + i] = d[i]
  <2>1. IsSeq(c) /\ IsSeq(d)
    BY <1>4
  <2> QED
    BY <2>1, ConcatFacts
<1>8. Named(c \o d, a \o b)
  <2> SUFFICES ASSUME NEW i \in 1..Len(a \o b), (a \o b)[i].id # None
               PROVE  (c \o d)[i] = (a \o b)[i].id
    BY <1>4, <1>6, <1>7 DEF Named
  <2>1. CASE i \in 1..Len(a)
    <3>1. a[i].id # None => c[i] = a[i].id
      BY <1>3, <2>1 DEF Told, Named
    <3> QED
      BY <1>4, <1>6, <1>7, <2>1, <3>1
  <2>2. CASE i \notin 1..Len(a)
    <3>1. PICK j \in 1..Len(b) : i = Len(a) + j
      <4>1. i - Len(a) \in 1..Len(b) /\ i = Len(a) + (i - Len(a))
        BY <1>5, <1>6, <2>2
      <4> QED
        BY <4>1
    <3>2. b[j].id # None => d[j] = b[j].id
      BY <1>1, <1>3 DEF Named
    <3> QED
      BY <1>4, <1>6, <1>7, <3>1, <3>2
  <2> QED
    BY <2>1, <2>2
<1>9. Len(b) <= Len(a \o b) /\ \A i \in 1..Len(b) : (a \o b)[Len(a \o b) - Len(b) + i] = b[i]
  BY <1>5, <1>6
<1>10. ASSUME Distinct(a \o b) PROVE Len(r) + Len(b) = Len(a \o b) /\ Answer(r, a \o b)
  <2>1. Distinct(a)
    BY <1>5, <1>6, <1>10 DEF Distinct
  <2>2. Len(r) = Len(a) /\ Answer(r, a)
    <3>1. Len(<<>>) = 0
      OBVIOUS
    <3> QED
      BY <1>3, <1>5, <2>1, <3>1 DEF Told
  <2> QED
    BY <1>5, <1>6, <2>2 DEF Answer
<1>11. /\ CallsOf(u) = a \o b /\ NamesOf(u) = c \o d /\ ResultsOf(u) = r /\ m.calls = b
  BY <1>1, <1>2, <1>3
<1>12. Told(u, b)
  BY <1>4, <1>8, <1>9, <1>10, <1>11 DEF Told
<1> QED
  BY <1>3, <1>12 DEF u

\* The tools answer: nothing is pending.
LEMMA ResultsAreTold ==
    ASSUME NEW own, IsSeq(own), Len(own) > 0, NEW pending, Told(own, pending),
           NEW a, IsSeq(a), \A i \in 1..Len(a) : a[i].type = "tool",
           Distinct(pending) => Len(a) = Len(pending) /\ Answer(a, pending)
    PROVE  Told(own \o a, <<>>)
<1>1. /\ IsSeq(CallsOf(own)) /\ IsSeq(NamesOf(own)) /\ IsSeq(ResultsOf(own)) /\ IsSeq(pending)
      /\ Named(NamesOf(own), CallsOf(own))
  BY DEF Told, Named
<1>2. /\ CallsOf(own \o a) = CallsOf(own) /\ NamesOf(own \o a) = NamesOf(own)
      /\ ResultsOf(own \o a) = ResultsOf(own) \o a
  BY <1>1, ResultsAreAdded
<1>3. PICK c, r : c = CallsOf(own) /\ r = ResultsOf(own)
  OBVIOUS
<1>4. Len(c) \in Nat /\ Len(r) \in Nat /\ Len(pending) \in Nat /\ Len(a) \in Nat
  BY <1>1, <1>3 DEF IsSeq
<1>5. /\ IsSeq(r \o a) /\ Len(r \o a) = Len(r) + Len(a)
      /\ \A i \in 1..Len(r) : (r \o a)[i] = r[i]
      /\ \A i \in 1..Len(a) : (r \o a)[Len(r) + i] = a[i]
  BY <1>1, <1>3, ConcatFacts
<1>6. /\ Len(pending) <= Len(c)
      /\ \A i \in 1..Len(pending) : c[Len(c) - Len(pending) + i] = pending[i]
      /\ Distinct(c) => Len(r) + Len(pending) = Len(c) /\ Answer(r, c)
  BY <1>3 DEF Told
<1>7. ASSUME Distinct(c) PROVE Len(r \o a) = Len(c) /\ Answer(r \o a, c)
  <2>1. Len(r) + Len(pending) = Len(c) /\ Answer(r, c)
    BY <1>6, <1>7
  <2>2. \A i \in 1..Len(pending) : Len(r) + i \in 1..Len(c) /\ c[Len(r) + i] = pending[i]
    <3> TAKE i \in 1..Len(pending)
    <3>1. Len(c) - Len(pending) + i = Len(r) + i /\ Len(r) + i \in 1..Len(c)
      BY <1>4, <2>1
    <3>2. c[Len(c) - Len(pending) + i] = pending[i]
      BY <1>6
    <3> QED
      BY <3>1, <3>2
  <2>3. Distinct(pending)
    <3> SUFFICES ASSUME NEW i \in 1..Len(pending), NEW j \in 1..Len(pending)
                 PROVE  pending[i].id # None /\ (pending[i].id = pending[j].id => i = j)
      BY DEF Distinct
    <3>1. c[Len(r) + i].id # None /\ (c[Len(r) + i].id = c[Len(r) + j].id => Len(r) + i = Len(r) + j)
      BY <1>7, <2>2 DEF Distinct
    <3>2. Len(r) + i = Len(r) + j => i = j
      BY <1>4
    <3> QED
      BY <2>2, <3>1, <3>2
  <2>4. Len(a) = Len(pending) /\ Answer(a, pending)
    BY <2>3
  <2>5. Len(r \o a) = Len(c)
    BY <1>5, <2>1, <2>4
  <2>6. ASSUME NEW i \in 1..Len(r \o a)
        PROVE  (r \o a)[i].id = c[i].id /\ (r \o a)[i].name = c[i].name
    <3>1. CASE i \in 1..Len(r)
      BY <1>5, <2>1, <3>1 DEF Answer
    <3>2. CASE i \notin 1..Len(r)
      <4>1. PICK j \in 1..Len(a) : i = Len(r) + j
        <5>1. i - Len(r) \in 1..Len(a) /\ i = Len(r) + (i - Len(r))
          BY <1>4, <1>5, <3>2
        <5> QED
          BY <5>1
      <4>2. a[j].id = pending[j].id /\ a[j].name = pending[j].name
        BY <2>4 DEF Answer
      <4>3. c[Len(r) + j] = pending[j]
        BY <2>2, <2>4
      <4> QED
        BY <1>5, <4>1, <4>2, <4>3
    <3> QED
      BY <3>1, <3>2
  <2> QED
    BY <2>5, <2>6 DEF Answer
<1>8. IsSeq(<<>>) /\ Len(<<>>) = 0 /\ Len(r \o a) + 0 = Len(r \o a)
  BY <1>4, <1>5 DEF IsSeq
<1>9. CallsOf(own \o a) = c /\ NamesOf(own \o a) = NamesOf(own) /\ ResultsOf(own \o a) = r \o a
  BY <1>2, <1>3
<1>10. Named(NamesOf(own), c)
  BY <1>1, <1>3
<1> QED
  BY <1>4, <1>5, <1>7, <1>8, <1>9, <1>10 DEF Told

-----------------------------------------------------------------------------
\* Human messages are those of turns up to n.
HumansOK(ms, n) == \A p \in 1..Len(ms) : ms[p].type = "human" => ms[p].turn \in 1..n

\* Turn t begins at place k of the messages and nowhere else.
Begins(ms, t, k) == k \in 1..Len(ms) /\ \A i \in 1..Len(ms) : ms[i] = Human(t) <=> i = k

\* What _messages_after_marker returns of turn t.
OwnOf(ms, t) ==
    LET marker == CHOOSE i \in DOMAIN ms : ms[i] = Human(t) IN SubSeq(ms, marker + 1, Len(ms))

\* What the stream shows of those messages.
Shown(own) ==
    [calls |-> FirstById(NamesOf(own), NamesOf(own)),
     results |-> FirstById(ResultsOf(own), [i \in DOMAIN ResultsOf(own) |-> ResultsOf(own)[i].id])]

\* The messages after place k.
After(ms, k) == [i \in 1..(Len(ms) - k) |-> ms[k + i]]

\* The calls the tools node owes an answer.
Pending == IF graph.node \in {"tools", "executing"} THEN lastCalls ELSE <<>>

\* An execution is of one of the calls, under its id, and replies in its name.
FromCall(e, calls) ==
    /\ \E i \in 1..Len(calls) : e.call = calls[i] /\ e.id = CallId(calls[i], i)
    /\ e.reply # None => e.reply.name = e.call.name

\* The running turn begins once, its stream is what its messages show, and they
\* tell of every call; a completed turn's result and stream tell one story.
Story ==
    /\ HumansOK(saved.newest, turn) /\ HumansOK(saved.published, turn)
    /\ Running => /\ \E k \in 1..Len(messages) : Begins(messages, turn, k)
                  /\ stream = Shown(OwnOf(messages, turn))
                  /\ Told(OwnOf(messages, turn), Pending)
    /\ graph.node = "executing" =>
          \A n \in 1..Len(executions) : FromCall(executions[n], lastCalls)
    /\ ResultMatchesStream
-----------------------------------------------------------------------------
\* That is what follows the turn's own beginning.
LEMMA OwnMessages ==
    ASSUME NEW ms, IsSeq(ms), NEW t, NEW k, Begins(ms, t, k)
    PROVE  /\ OwnOf(ms, t) = After(ms, k)
           /\ IsSeq(After(ms, k)) /\ Len(After(ms, k)) = Len(ms) - k
<1>1. Len(ms) \in Nat /\ DOMAIN ms = 1..Len(ms) /\ k \in 1..Len(ms)
      /\ \A i \in 1..Len(ms) : ms[i] = Human(t) <=> i = k
  BY SeqFacts DEF Begins
<1> DEFINE marker == CHOOSE i \in DOMAIN ms : ms[i] = Human(t)
<1>2. marker = k
  BY <1>1
<1>3. OwnOf(ms, t) = SubSeq(ms, k + 1, Len(ms))
  BY <1>2 DEF OwnOf
<1>4. IsSeq(After(ms, k)) /\ Len(After(ms, k)) = Len(ms) - k
      /\ \A i \in 1..(Len(ms) - k) : After(ms, k)[i] = ms[k + i]
  <2>1. PICK n, f : n = Len(ms) - k /\ f = After(ms, k)
    OBVIOUS
  <2>2. n \in Nat
    BY <1>1, <2>1
  <2>3. f = [i \in 1..n |-> f[i]] /\ \A i \in 1..n : f[i] = ms[k + i]
    BY <2>1 DEF After
  <2> QED
    BY <2>1, <2>2, <2>3, FunctionIsSeq
<1>5. PICK S : ms \in Seq(S) /\ \A i \in 1..Len(ms) : ms[i] \in S
  <2> DEFINE S == {ms[i] : i \in 1..Len(ms)}
  <2>1. \A i \in 1..Len(ms) : ms[i] \in S
    OBVIOUS
  <2> HIDE DEF S
  <2>2. ms \in Seq(S)
    BY <2>1, SeqFacts
  <2> QED
    BY <2>1, <2>2
<1>6. PICK b : b = SubSeq(ms, k + 1, Len(ms))
  OBVIOUS
<1>7. /\ b \in Seq(S) /\ Len(b) = Len(ms) - k
      /\ \A i \in 1..(Len(ms) - k) : b[i] = ms[k + i]
  <2>1. k + 1 \in Int /\ Len(ms) \in Int /\ \A i \in (k + 1)..Len(ms) : ms[i] \in S
    BY <1>1, <1>5
  <2>2. /\ b \in Seq(S)
        /\ Len(b) = IF k + 1 <= Len(ms) THEN Len(ms) - (k + 1) + 1 ELSE 0
        /\ \A i \in 1..(Len(ms) - (k + 1) + 1) : b[i] = ms[k + 1 + i - 1]
    BY <1>5, <1>6, <2>1, SubSeqProperties
  <2>3. Len(ms) - (k + 1) + 1 = Len(ms) - k
    BY <1>1
  <2>4. Len(b) = Len(ms) - k
    <3>1. CASE k + 1 <= Len(ms)
      BY <2>2, <2>3, <3>1
    <3>2. CASE ~ (k + 1 <= Len(ms))
      <4>1. Len(ms) - k = 0
        <5>1. Len(ms) \in Nat /\ k \in 1..Len(ms)
          BY <1>1
        <5> HIDE <1>1
        <5>2. k \in Int /\ k <= Len(ms)
          BY <5>1
        <5> QED
          BY <3>2, <5>1, <5>2
      <4> QED
        BY <2>2, <3>2, <4>1
    <3> QED
      BY <3>1, <3>2
  <2>5. \A i \in 1..(Len(ms) - k) : b[i] = ms[k + i]
    <3> TAKE i \in 1..(Len(ms) - k)
    <3>1. i \in Nat /\ k + 1 + i - 1 = k + i
      BY <1>1
    <3> QED
      BY <2>2, <2>3, <3>1
  <2> QED
    BY <2>2, <2>4, <2>5
<1>8. IsSeq(b)
  BY <1>7, SeqIsSeq
<1>9. \A i \in 1..Len(b) : b[i] = After(ms, k)[i]
  BY <1>4, <1>7
<1>10. b = After(ms, k)
  BY <1>4, <1>7, <1>8, <1>9, SameElements
<1> QED
  BY <1>3, <1>4, <1>6, <1>10

\* The messages of the turn grow with those of the thread.
LEMMA OwnGrows ==
    ASSUME NEW ms, IsSeq(ms), NEW t, NEW k, Begins(ms, t, k), NEW a, IsSeq(a),
           \A i \in 1..Len(a) : a[i].type # "human"
    PROVE  /\ Begins(ms \o a, t, k) /\ k \in 1..Len(ms \o a)
           /\ OwnOf(ms \o a, t) = OwnOf(ms, t) \o a
<1>1. Len(ms) \in Nat /\ Len(a) \in Nat /\ k \in 1..Len(ms)
      /\ \A i \in 1..Len(ms) : ms[i] = Human(t) <=> i = k
  BY DEF Begins, IsSeq
<1>2. PICK u : u = ms \o a
  OBVIOUS
<1>3. /\ IsSeq(u) /\ Len(u) = Len(ms) + Len(a)
      /\ \A i \in 1..Len(ms) : u[i] = ms[i]
      /\ \A i \in 1..Len(a) : u[Len(ms) + i] = a[i]
  BY <1>2, ConcatFacts
<1>4. Human(t).type = "human"
  BY DEF Human
<1>5. ASSUME NEW i \in 1..Len(u) PROVE u[i] = Human(t) <=> i = k
  <2>1. CASE i \in 1..Len(ms)
    BY <1>1, <1>3, <2>1
  <2>2. CASE i \notin 1..Len(ms)
    <3>1. i - Len(ms) \in 1..Len(a) /\ i = Len(ms) + (i - Len(ms)) /\ i # k
      BY <1>1, <1>3, <2>2
    <3>2. u[i] = a[i - Len(ms)]
      BY <1>3, <3>1
    <3> QED
      BY <1>4, <3>1, <3>2
  <2> QED
    BY <2>1, <2>2
<1>6. Begins(u, t, k) /\ k \in 1..Len(u)
  BY <1>1, <1>3, <1>5 DEF Begins
<1>7. /\ OwnOf(u, t) = After(u, k) /\ IsSeq(After(u, k)) /\ Len(After(u, k)) = Len(u) - k
  BY <1>3, <1>6, OwnMessages
<1>8. OwnOf(ms, t) = After(ms, k) /\ IsSeq(After(ms, k)) /\ Len(After(ms, k)) = Len(ms) - k
  BY OwnMessages
<1>9. PICK own, all : own = After(ms, k) /\ all = After(u, k)
  OBVIOUS
<1>10. /\ \A i \in 1..(Len(ms) - k) : own[i] = ms[k + i]
       /\ \A i \in 1..(Len(u) - k) : all[i] = u[k + i]
  BY <1>9 DEF After
<1>11. /\ IsSeq(own \o a) /\ Len(own \o a) = Len(own) + Len(a)
       /\ \A i \in 1..Len(own) : (own \o a)[i] = own[i]
       /\ \A i \in 1..Len(a) : (own \o a)[Len(own) + i] = a[i]
  BY <1>8, <1>9, ConcatFacts
<1>12. Len(all) = Len(own \o a) /\ Len(own) = Len(ms) - k /\ Len(all) = Len(u) - k
  BY <1>1, <1>3, <1>7, <1>8, <1>9, <1>11
<1>13. ASSUME NEW i \in 1..Len(all) PROVE all[i] = (own \o a)[i]
  <2>1. all[i] = u[k + i]
    BY <1>10, <1>12
  <2>2. CASE i \in 1..Len(own)
    <3>1. k + i \in 1..Len(ms)
      BY <1>1, <1>12, <2>2
    <3> QED
      BY <1>3, <1>10, <1>11, <1>12, <2>1, <2>2, <3>1
  <2>3. CASE i \notin 1..Len(own)
    <3>1. PICK j \in 1..Len(a) : i = Len(own) + j
      <4>1. i - Len(own) \in 1..Len(a) /\ i = Len(own) + (i - Len(own))
        BY <1>1, <1>3, <1>12, <2>3
      <4> QED
        BY <4>1
    <3>2. k + i = Len(ms) + j
      BY <1>1, <1>12, <3>1
    <3>3. u[k + i] = a[j]
      BY <1>3, <3>2
    <3> QED
      BY <1>11, <2>1, <3>1, <3>3
  <2> QED
    BY <2>2, <2>3
<1>14. IsSeq(all) /\ IsSeq(own \o a)
  BY <1>7, <1>9, <1>11
<1>15. all = own \o a
  BY <1>12, <1>13, <1>14, SameElements
<1> QED
  BY <1>2, <1>6, <1>7, <1>8, <1>9, <1>15

\* The same for one message more.
LEMMA OwnGrowsByOne ==
    ASSUME NEW ms, IsSeq(ms), NEW t, NEW k, Begins(ms, t, k), NEW m, m.type # "human"
    PROVE  /\ Begins(Append(ms, m), t, k) /\ k \in 1..Len(Append(ms, m))
           /\ OwnOf(Append(ms, m), t) = Append(OwnOf(ms, t), m)
           /\ IsSeq(OwnOf(ms, t))
<1> DEFINE a == <<m>>
<1>1. IsSeq(a) /\ Len(a) = 1 /\ a[1] = m
  BY DEF IsSeq
<1> HIDE DEF a
<1>2. ASSUME NEW s, IsSeq(s) PROVE s \o a = Append(s, m)
  <2>1. /\ IsSeq(s \o a) /\ Len(s \o a) = Len(s) + 1
        /\ \A i \in 1..Len(s) : (s \o a)[i] = s[i]
        /\ \A i \in 1..1 : (s \o a)[Len(s) + i] = a[i]
    <3>1. /\ IsSeq(s \o a) /\ Len(s \o a) = Len(s) + Len(a)
          /\ \A i \in 1..Len(s) : (s \o a)[i] = s[i]
          /\ \A i \in 1..Len(a) : (s \o a)[Len(s) + i] = a[i]
      <4>1. IsSeq(s) /\ IsSeq(a)
        BY <1>1, <1>2
      <4> HIDE <1>1, <1>2
      <4> QED
        BY <4>1, ConcatFacts
    <3> QED
      BY <1>1, <3>1
  <2>2. /\ IsSeq(Append(s, m)) /\ Len(Append(s, m)) = Len(s) + 1
        /\ \A i \in 1..Len(s) : Append(s, m)[i] = s[i]
        /\ Append(s, m)[Len(s) + 1] = m
    BY <1>2, AppendFacts
  <2>3. Len(s) \in Nat
    BY <1>2 DEF IsSeq
  <2>4. \A i \in 1..Len(s \o a) : (s \o a)[i] = Append(s, m)[i]
    <3> TAKE i \in 1..Len(s \o a)
    <3>1. i \in 1..Len(s) \/ i = Len(s) + 1
      BY <2>1, <2>3
    <3>2. (s \o a)[Len(s) + 1] = m
      BY <1>1, <2>1
    <3> QED
      BY <2>1, <2>2, <3>1, <3>2
  <2> QED
    BY <2>1, <2>2, <2>4, SameElements
<1>3. IsSeq(OwnOf(ms, t))
  BY OwnMessages
<1>4. ms \o a = Append(ms, m) /\ OwnOf(ms, t) \o a = Append(OwnOf(ms, t), m)
  BY <1>2, <1>3
<1>5. \A i \in 1..Len(a) : a[i].type # "human"
  BY <1>1
<1>6. /\ Begins(ms \o a, t, k) /\ k \in 1..Len(ms \o a)
      /\ OwnOf(ms \o a, t) = OwnOf(ms, t) \o a
  BY <1>1, <1>5, OwnGrows
<1> QED
  BY <1>3, <1>4, <1>6

-----------------------------------------------------------------------------
\* AfterMarker and Observed speak of the turn that runs.
LEMMA ObservedIsShown ==
    ASSUME NEW ms
    PROVE  AfterMarker(ms) = OwnOf(ms, turn) /\ Observed(ms) = Shown(OwnOf(ms, turn))
<1>1. AfterMarker(ms) = OwnOf(ms, turn)
  BY DEF AfterMarker, OwnOf
<1> QED
  BY <1>1 DEF Observed, Shown

\* A turn that runs after the step: the story is left to show of its messages.
LEMMA StoryGoesOn ==
    ASSUME Running', NEW ms, messages' = ms, HumansOK(saved'.newest, turn'),
           HumansOK(saved'.published, turn'), \E k \in 1..Len(ms) : Begins(ms, turn', k),
           NEW own, OwnOf(ms, turn') = own, stream' = Shown(own),
           NEW pending, Pending' = pending, Told(own, pending),
           NEW calls, lastCalls' = calls,
           graph'.node = "executing" => \A n \in 1..Len(executions') : FromCall(executions'[n], calls)
    PROVE  Story'
<1>1. ResultMatchesStream'
  <2>1. turns'[turn'] = "running"
    BY DEF Running
  <2> QED
    BY <2>1 DEF ResultMatchesStream
<1>2. graph'.node = "executing" =>
         \A n \in 1..Len(executions') : FromCall(executions'[n], lastCalls')
  OBVIOUS
<1>3. /\ \E k \in 1..Len(messages') : Begins(messages', turn', k)
      /\ stream' = Shown(OwnOf(messages', turn'))
      /\ Told(OwnOf(messages', turn'), Pending')
  OBVIOUS
<1> HIDE DEF messages, turn, Running, Pending, lastCalls
<1> QED
  BY <1>1, <1>2, <1>3 DEF Story

\* A turn that ends without a result has nothing to match.
LEMMA StoryEnds ==
    ASSUME AgentInv, Story, Running, NEW outcome \in {"failed", "cancelled"}, Ends(outcome)
    PROVE  Story'
<1>1. /\ turn \in Nat /\ turn > 0 /\ turn = Len(turns) /\ turns \in Seq(Outcome)
  BY RunningFacts
<1>2. /\ turns' = [turns EXCEPT ![turn] = outcome] /\ graph' = [graph EXCEPT !.node = "end"]
      /\ saved' = saved
  BY DEF Ends
<1>3. Len(turns') = Len(turns) /\ turns'[turn] = outcome
  BY <1>1, <1>2 DEF Outcome
<1>4. turn' = turn /\ ~ Running'
  BY <1>1, <1>3 DEF turn, Running
<1>5. graph'.node = "end"
  BY <1>2 DEF AgentInv, Shape
<1>6. HumansOK(saved'.newest, turn') /\ HumansOK(saved'.published, turn')
  BY <1>2, <1>4 DEF Story
<1>7. ResultMatchesStream'
  BY <1>3, <1>4 DEF ResultMatchesStream
<1> QED
  BY <1>4, <1>5, <1>6, <1>7 DEF Story

\* What the story says of a running turn.
LEMMA StoryFacts ==
    ASSUME AgentInv, Story, Running
    PROVE  /\ IsSeq(messages) /\ Len(messages) \in Nat /\ saved.newest = messages
           /\ HumansOK(messages, turn) /\ HumansOK(saved.published, turn)
           /\ \E k \in 1..Len(messages) : Begins(messages, turn, k)
           /\ stream = Shown(OwnOf(messages, turn)) /\ Told(OwnOf(messages, turn), Pending)
           /\ turn \in Nat
<1>1. IsSeq(messages) /\ Len(messages) \in Nat /\ saved.newest = messages /\ turn \in Nat
  BY RunningFacts
<1> QED
  BY <1>1 DEF Story

\* The turn begins.
LEMMA StartTurnStory ==
    ASSUME AgentInv, Story, StartTurn
    PROVE  Story'
<1> DEFINE base == IF saved.published = <<>> THEN saved.newest ELSE saved.published
           ms == Append(base, Human(turn + 1))
<1>1. /\ ~ Running /\ turns' = Append(turns, "running") /\ executions' = executions
      /\ graph' = [graph EXCEPT !.node = "route", !.messages = ms, !.steps = 0, !.attempt = 1]
      /\ saved' = [saved EXCEPT !.newest = ms] /\ stream' = NoStream
  BY DEF StartTurn
<1>2. Shape
  BY DEF AgentInv
<1>3. IsSeq(base) /\ HumansOK(base, turn)
  BY DEF AgentInv, MessagesOK, Story
<1>4. turns \in Seq(Outcome) /\ turn = Len(turns) /\ turn \in Nat
  BY <1>2 DEF Shape, turn
<1>5. turn' = turn + 1 /\ turns'[turn + 1] = "running" /\ Running'
  <2>1. turns' \in Seq(Outcome) /\ Len(turns') = Len(turns) + 1 /\ turns'[Len(turns) + 1] = "running"
    BY <1>1, <1>4 DEF Outcome
  <2> QED
    BY <1>4, <2>1 DEF turn, Running
<1> HIDE DEF base
<1>6. /\ IsSeq(ms) /\ Len(ms) = Len(base) + 1 /\ Len(base) \in Nat
      /\ \A i \in 1..Len(base) : ms[i] = base[i]
      /\ ms[Len(base) + 1] = Human(turn + 1)
  BY <1>3, AppendFacts DEF IsSeq
<1> HIDE DEF ms
<1>7. graph'.node = "route" /\ graph'.messages = ms
  BY <1>1, <1>2 DEF Shape
<1>8. saved'.newest = ms /\ saved'.published = saved.published
  BY <1>1, <1>2 DEF Shape
<1>9. messages' = ms /\ Pending' = <<>>
  BY <1>7 DEF messages, Pending
<1>10. Human(turn + 1).type = "human" /\ Human(turn + 1).turn = turn + 1
  BY DEF Human
<1>11. ASSUME NEW i \in 1..Len(ms) PROVE ms[i] = Human(turn + 1) <=> i = Len(ms)
  <2>1. CASE i \in 1..Len(base)
    <3>1. base[i] # Human(turn + 1)
      <4> SUFFICES ASSUME base[i] = Human(turn + 1) PROVE FALSE
        OBVIOUS
      <4>1. turn + 1 \in 1..turn
        BY <1>3, <1>10, <2>1 DEF HumansOK
      <4> QED
        BY <1>4, <4>1
    <3> QED
      BY <1>6, <2>1, <3>1
  <2>2. CASE i = Len(base) + 1
    BY <1>6, <2>2
  <2> QED
    BY <1>6, <2>1, <2>2
<1>12. Begins(ms, turn', Len(ms)) /\ Len(ms) \in 1..Len(ms)
  BY <1>5, <1>6, <1>11 DEF Begins
<1>13. HumansOK(ms, turn')
  <2> SUFFICES ASSUME NEW p \in 1..Len(ms), ms[p].type = "human" PROVE ms[p].turn \in 1..(turn + 1)
    BY <1>5 DEF HumansOK
  <2>1. CASE p \in 1..Len(base)
    BY <1>3, <1>4, <1>6, <2>1 DEF HumansOK
  <2>2. CASE p = Len(base) + 1
    BY <1>4, <1>6, <1>10, <2>2
  <2> QED
    BY <1>6, <2>1, <2>2
<1>14. HumansOK(saved'.published, turn')
  BY <1>4, <1>5, <1>8 DEF Story, HumansOK
<1>15. PICK own, t : own = OwnOf(ms, t) /\ t = turn'
  OBVIOUS
<1>16. IsSeq(own) /\ Len(own) = 0
  <2>1. OwnOf(ms, t) = After(ms, Len(ms)) /\ IsSeq(After(ms, Len(ms)))
        /\ Len(After(ms, Len(ms))) = Len(ms) - Len(ms)
    BY <1>6, <1>12, <1>15, OwnMessages
  <2> QED
    BY <1>6, <1>15, <2>1
<1>17. Told(own, <<>>) /\ NamesOf(own) = <<>> /\ ResultsOf(own) = <<>>
  BY <1>16, NothingTold
<1>18. IsSeq(<<>>) /\ \A id : FirstById(<<>>, id) = <<>>
  <2>1. IsSeq(<<>>) /\ Len(<<>>) = 0
    BY DEF IsSeq
  <2> QED
    BY <2>1, FirstOfDistinct
<1>19. stream' = Shown(own)
  BY <1>1, <1>17, <1>18 DEF Shown, NoStream
<1>20. PICK calls : calls = lastCalls'
  OBVIOUS
<1>21. OwnOf(ms, turn') = own /\ HumansOK(saved'.newest, turn')
       /\ \E k \in 1..Len(ms) : Begins(ms, turn', k)
  BY <1>8, <1>12, <1>13, <1>15
<1>22. graph'.node = "executing" => \A n \in 1..Len(executions') : FromCall(executions'[n], calls)
  BY <1>7
<1> QED
  BY <1>5, <1>9, <1>14, <1>17, <1>19, <1>20, <1>21, <1>22, StoryGoesOn

\* The messages stay: so does what they tell.
LEMMA SameMessages ==
    ASSUME AgentInv, Story, Running, turns' = turns, messages' = messages, saved' = saved,
           stream' = stream, Pending' = Pending,
           graph'.node = "executing" =>
              \A n \in 1..Len(executions') : FromCall(executions'[n], lastCalls)
    PROVE  Story'
<1>1. turn' = turn /\ Running'
  BY DEF turn, Running
<1>2. lastCalls' = lastCalls
  BY DEF lastCalls
<1>3. PICK ms, own, pending, calls : /\ ms = messages /\ own = OwnOf(messages, turn)
                                     /\ pending = Pending /\ calls = lastCalls
  OBVIOUS
<1>4. /\ HumansOK(saved'.newest, turn') /\ HumansOK(saved'.published, turn')
      /\ \E k \in 1..Len(ms) : Begins(ms, turn', k)
      /\ stream' = Shown(own) /\ Told(own, pending)
  BY <1>1, <1>3, StoryFacts DEF Story
<1>5. messages' = ms /\ OwnOf(ms, turn') = own /\ Pending' = pending /\ lastCalls' = calls
  BY <1>1, <1>2, <1>3
<1>6. graph'.node = "executing" => \A n \in 1..Len(executions') : FromCall(executions'[n], calls)
  BY <1>3
<1> QED
  BY <1>1, <1>4, <1>5, <1>6, StoryGoesOn

\* The tools are chosen.
LEMMA RouteToolsStory ==
    ASSUME AgentInv, Story, NEW conceptual \in BOOLEAN, NEW financial \in BOOLEAN,
           NEW groups \in SUBSET Tools, NEW bundle \in SUBSET Tools,
           RouteTools(conceptual, financial, groups, bundle)
    PROVE  Story'
<1> DEFINE chosen == Route(conceptual, financial, groups, bundle)
<1>1. /\ Running /\ graph.node = "route"
      /\ graph' = [graph EXCEPT !.node = "model", !.steps = @ + 1, !.selected = chosen]
      /\ executions' = executions /\ turns' = turns /\ saved' = saved /\ stream' = stream
  BY DEF RouteTools
<1> HIDE DEF chosen
<1>2. Shape
  BY DEF AgentInv
<1>3. graph'.node = "model" /\ messages' = messages
  BY <1>1, <1>2 DEF Shape, messages
<1>4. Pending' = Pending
  BY <1>1, <1>3 DEF Pending
<1> QED
  BY <1>1, <1>3, <1>4, SameMessages

\* A model attempt fails.
LEMMA ModelFailsStory ==
    ASSUME AgentInv, Story, NEW transient \in BOOLEAN, ModelFails(transient)
    PROVE  Story'
<1>1. Running /\ graph.node = "model"
  BY DEF ModelFails, Invoked
<1>2. CASE Ends("failed")
  BY <1>1, <1>2, StoryEnds
<1>3. CASE /\ graph' = [graph EXCEPT !.attempt = @ + 1]
           /\ UNCHANGED <<executions, turns, saved, stream, result>>
  <2>1. Shape
    BY DEF AgentInv
  <2>2. graph'.node = "model" /\ messages' = messages
    BY <1>1, <1>3, <2>1 DEF Shape, messages
  <2>3. Pending' = Pending
    BY <1>1, <2>2 DEF Pending
  <2> QED
    BY <1>1, <1>3, <2>2, <2>3, SameMessages
<1> QED
  BY <1>2, <1>3 DEF ModelFails

\* The model says something, with or without tool calls.
LEMMA ModelSaysStory ==
    ASSUME AgentInv, Story, Running, graph.node = "model", NEW calls, IsSeq(calls), NEW node,
           (node \in {"extract", "blank"} /\ calls = <<>>) \/ node = "tools",
           NEW ms, ms = Append(messages, Ai(calls)),
           messages' = ms, graph'.node = node, turns' = turns,
           saved'.newest = ms, saved'.published = saved.published,
           stream' = Shown(OwnOf(ms, turn))
    PROVE  Story'
<1>1. turn' = turn /\ Running'
  BY DEF turn, Running
<1>2. /\ IsSeq(messages) /\ Len(messages) \in Nat /\ HumansOK(messages, turn)
      /\ HumansOK(saved.published, turn) /\ Told(OwnOf(messages, turn), <<>>)
      /\ \E k \in 1..Len(messages) : Begins(messages, turn, k)
  BY StoryFacts DEF Pending
<1>3. PICK m, t : m = Ai(calls) /\ t = turn
  OBVIOUS
<1>4. m.type = "ai" /\ m.calls = calls
  BY <1>3 DEF Ai
<1>5. PICK k \in 1..Len(messages) : Begins(messages, t, k)
  BY <1>2, <1>3
<1>6. /\ Begins(ms, t, k) /\ k \in 1..Len(ms)
      /\ OwnOf(ms, t) = Append(OwnOf(messages, t), m)
      /\ IsSeq(OwnOf(messages, t))
  <2>1. m.type # "human"
    BY <1>4
  <2>2. /\ Begins(Append(messages, m), t, k) /\ k \in 1..Len(Append(messages, m))
        /\ OwnOf(Append(messages, m), t) = Append(OwnOf(messages, t), m)
        /\ IsSeq(OwnOf(messages, t))
    BY <1>2, <1>5, <2>1, OwnGrowsByOne
  <2> QED
    BY <1>3, <2>2
<1>7. Told(OwnOf(ms, t), calls)
  <2>1. PICK old : old = OwnOf(messages, t)
    OBVIOUS
  <2>2. IsSeq(old) /\ Told(old, <<>>) /\ IsSeq(m.calls)
    BY <1>2, <1>3, <1>4, <1>6, <2>1
  <2>3. Told(Append(old, m), m.calls)
    BY <1>4, <2>2, CallsAreTold
  <2> QED
    BY <1>4, <1>6, <2>1, <2>3
<1>8. /\ IsSeq(ms) /\ Len(ms) = Len(messages) + 1
      /\ \A i \in 1..Len(messages) : ms[i] = messages[i]
      /\ ms[Len(messages) + 1] = m
  BY <1>2, <1>3, AppendFacts
<1>9. lastCalls' = calls
  BY <1>4, <1>8 DEF lastCalls
<1>10. Pending' = calls
  BY <1>9 DEF Pending
<1>11. HumansOK(ms, turn')
  <2> SUFFICES ASSUME NEW p \in 1..Len(ms), ms[p].type = "human" PROVE ms[p].turn \in 1..turn
    BY <1>1 DEF HumansOK
  <2>1. p \in 1..Len(messages)
    BY <1>2, <1>4, <1>8
  <2> QED
    BY <1>2, <1>8, <2>1 DEF HumansOK
<1>12. PICK own : own = OwnOf(ms, t)
  OBVIOUS
<1>13. /\ HumansOK(saved'.newest, turn') /\ HumansOK(saved'.published, turn')
       /\ \E i \in 1..Len(ms) : Begins(ms, turn', i)
       /\ OwnOf(ms, turn') = own /\ stream' = Shown(own) /\ Told(own, calls)
  BY <1>1, <1>2, <1>3, <1>6, <1>7, <1>11, <1>12
<1>14. graph'.node = "executing" => \A n \in 1..Len(executions') : FromCall(executions'[n], calls)
  OBVIOUS
<1> HIDE DEF messages
<1> QED
  BY <1>1, <1>9, <1>10, <1>13, <1>14, StoryGoesOn

\* A message without calls shows nothing new.
LEMMA ShownStays ==
    ASSUME NEW own, IsSeq(own), Told(own, <<>>)
    PROVE  Shown(Append(own, Ai(<<>>))) = Shown(own)
<1>1. PICK m : m = Ai(<<>>)
  OBVIOUS
<1>2. m.type = "ai" /\ m.calls = <<>> /\ IsSeq(m.calls) /\ Len(m.calls) = 0
  BY <1>1 DEF Ai, IsSeq
<1>3. PICK names : names = NamesAt(m, Len(own) + 1)
  OBVIOUS
<1>4. /\ NamesOf(Append(own, m)) = NamesOf(own) \o names /\ Named(names, m.calls)
      /\ ResultsOf(Append(own, m)) = ResultsOf(own)
  BY <1>2, <1>3, CallsAreAdded
<1>5. names = <<>>
  <2>1. IsSeq(<<>>) /\ Len(<<>>) = 0 /\ IsSeq(names) /\ Len(names) = 0
    BY <1>2, <1>4 DEF Named, IsSeq
  <2> QED
    BY <2>1, SameElements
<1>6. NamesOf(own) \o <<>> = NamesOf(own)
  BY ConcatNothing DEF Told, Named
<1> QED
  BY <1>1, <1>4, <1>5, <1>6 DEF Shown

\* The model answers.
LEMMA ModelAnswersStory ==
    ASSUME AgentInv, Story, NEW blank \in BOOLEAN, ModelAnswers(blank)
    PROVE  Story'
<1> DEFINE ms == Append(messages, Ai(<<>>))
           node == IF blank THEN "blank" ELSE "extract"
<1>1. /\ Running /\ graph.node = "model" /\ saved' = [saved EXCEPT !.newest = ms]
      /\ graph' = [graph EXCEPT !.node = node, !.messages = ms, !.steps = @ + 1]
      /\ turns' = turns /\ stream' = stream
  BY DEF ModelAnswers, Invoked
<1>2. Shape
  BY DEF AgentInv
<1>3. node \in {"extract", "blank"}
  OBVIOUS
<1> HIDE DEF ms, node
<1>4. messages' = ms /\ graph'.node = node
  BY <1>1, <1>2 DEF Shape, messages
<1>5. saved'.newest = ms /\ saved'.published = saved.published
  BY <1>1, <1>2 DEF Shape
<1>6. /\ IsSeq(messages) /\ Told(OwnOf(messages, turn), <<>>)
      /\ \E k \in 1..Len(messages) : Begins(messages, turn, k)
      /\ stream = Shown(OwnOf(messages, turn))
  BY <1>1, StoryFacts DEF Pending
<1>7. PICK m, t : m = Ai(<<>>) /\ t = turn
  OBVIOUS
<1>8. PICK k \in 1..Len(messages) : Begins(messages, t, k)
  BY <1>6, <1>7
<1>9. m.type # "human"
  BY <1>7 DEF Ai
<1>10. OwnOf(Append(messages, m), t) = Append(OwnOf(messages, t), m) /\ IsSeq(OwnOf(messages, t))
  BY <1>6, <1>8, <1>9, OwnGrowsByOne
<1>11. OwnOf(ms, turn) = Append(OwnOf(messages, turn), Ai(<<>>)) /\ IsSeq(OwnOf(messages, turn))
  BY <1>7, <1>10 DEF ms
<1>12. stream' = Shown(OwnOf(ms, turn))
  BY <1>1, <1>6, <1>11, ShownStays
<1>13. IsSeq(<<>>) /\ ms = Append(messages, Ai(<<>>))
  BY DEF IsSeq, ms
<1>14. (node \in {"extract", "blank"} /\ <<>> = <<>>) \/ node = "tools"
  BY <1>3
<1>15. turns' = turns /\ Running /\ graph.node = "model"
  BY <1>1
<1> HIDE DEF messages
<1> QED
  BY <1>4, <1>5, <1>12, <1>13, <1>14, <1>15, ModelSaysStory

\* The model requests calls.
LEMMA ModelCallsStory ==
    ASSUME AgentInv, Story, NEW calls \in Seq(Calls), ModelCalls(calls)
    PROVE  Story'
<1> DEFINE ms == Append(messages, Ai(calls))
<1>1. /\ Running /\ graph.node = "model" /\ saved' = [saved EXCEPT !.newest = ms]
      /\ graph' = [graph EXCEPT !.node = "tools", !.messages = ms, !.steps = @ + 1, !.attempt = 1]
      /\ turns' = turns /\ stream' = Observed(ms)
  BY DEF ModelCalls, Superstep, Invoked
<1>2. Shape
  BY DEF AgentInv
<1> HIDE DEF ms
<1>3. messages' = ms /\ graph'.node = "tools"
  BY <1>1, <1>2 DEF Shape, messages
<1>4. saved'.newest = ms /\ saved'.published = saved.published
  BY <1>1, <1>2 DEF Shape
<1>5. stream' = Shown(OwnOf(ms, turn))
  BY <1>1, ObservedIsShown
<1>6. IsSeq(calls) /\ ms = Append(messages, Ai(calls))
  BY SeqIsSeq DEF ms
<1>7. turns' = turns /\ Running /\ graph.node = "model"
  BY <1>1
<1>8. PICK node : node = "tools"
  OBVIOUS
<1>9. graph'.node = node /\ ((node \in {"extract", "blank"} /\ calls = <<>>) \/ node = "tools")
  BY <1>3, <1>8
<1> HIDE DEF messages
<1> QED
  BY <1>3, <1>4, <1>5, <1>6, <1>7, <1>9, ModelSaysStory

\* A call that begins is of its own call, under its id.
LEMMA BegunIsFromCall ==
    ASSUME NEW calls, NEW i \in 1..Len(calls), NEW selected
    PROVE  FromCall(Begun(calls[i], CallId(calls[i], i), selected), calls)
<1> DEFINE call == calls[i]
           id == CallId(call, i)
           e == [call |-> call, id |-> id, attempt |-> 1, reply |-> None]
           m == FailureMessage(e, Failure("unknown_tool", FALSE, 1, 1, "model_correction"))
           b == [call |-> call, id |-> id, attempt |-> 1, reply |-> m]
<1>1. m.name = call.name
  BY DEF FailureMessage, ToolMessage
<1> HIDE DEF m
<1>2. [e EXCEPT !.reply = m] = b
  OBVIOUS
<1>3. Begun(call, id, selected) = IF call.name \in selected THEN e ELSE [e EXCEPT !.reply = m]
  BY DEF Begun, m
<1>4. FromCall(e, calls)
  BY DEF FromCall
<1>5. FromCall(b, calls)
  BY <1>1 DEF FromCall
<1> HIDE DEF e, b
<1>6. FromCall(Begun(call, id, selected), calls)
  BY <1>2, <1>3, <1>4, <1>5
<1> QED
  BY <1>6

\* The tools node starts the calls.
LEMMA CallToolsStory ==
    ASSUME AgentInv, Story, CallTools
    PROVE  Story'
<1> DEFINE runnable == {i \in DOMAIN lastCalls : ~ Invalid(lastCalls[i])}
           nth(n) == CHOOSE i \in runnable : Cardinality({j \in runnable : j <= i}) = n
           begun == [n \in 1..Cardinality(runnable) |->
                       Begun(lastCalls[nth(n)], CallId(lastCalls[nth(n)], nth(n)), graph.selected)]
<1>1. /\ Running /\ graph.node = "tools" /\ turns' = turns /\ saved' = saved /\ stream' = stream
      /\ graph' = [graph EXCEPT !.node = "executing"] /\ executions' = begun
  BY DEF CallTools
<1>2. Shape
  BY DEF AgentInv
<1>3. Pending = lastCalls /\ IsSeq(lastCalls)
  <2>1. Pending = lastCalls
    BY <1>1 DEF Pending
  <2>2. Told(OwnOf(messages, turn), Pending)
    BY <1>1, StoryFacts
  <2> QED
    BY <2>1, <2>2 DEF Told
<1>4. runnable \subseteq 1..Len(lastCalls) /\ Len(lastCalls) \in Nat
  BY <1>3, SeqFacts
<1>5. ASSUME NEW n \in 1..Cardinality(runnable) PROVE nth(n) \in 1..Len(lastCalls)
  <2> HIDE DEF runnable
  <2>1. \E i \in runnable : Rank(runnable, i) = n
    BY <1>4, RankTaken
  <2>2. \E i \in runnable : Cardinality({j \in runnable : j <= i}) = n
    BY <2>1 DEF Rank
  <2>3. nth(n) \in runnable
    BY <2>2
  <2> QED
    BY <1>4, <2>3
<1>6. \A n \in 1..Cardinality(runnable) : FromCall(begun[n], lastCalls)
  <2> TAKE n \in 1..Cardinality(runnable)
  <2>1. begun[n] = Begun(lastCalls[nth(n)], CallId(lastCalls[nth(n)], nth(n)), graph.selected)
    OBVIOUS
  <2>2. nth(n) \in 1..Len(lastCalls)
    BY <1>5
  <2> HIDE DEF begun, nth, runnable
  <2> QED
    BY <2>1, <2>2, BegunIsFromCall
<1>7. Len(begun) = Cardinality(runnable)
  <2>1. begun = [n \in 1..Cardinality(runnable) |-> begun[n]]
    OBVIOUS
  <2> HIDE DEF begun, runnable
  <2>2. Cardinality(runnable) \in Nat
    BY <1>4, RankFacts
  <2> QED
    BY <2>1, <2>2, FunctionIsSeq
<1> HIDE DEF begun, runnable, nth
<1>8. graph'.node = "executing" /\ messages' = messages
  BY <1>1, <1>2 DEF Shape, messages
<1>9. Pending' = Pending
  <2>1. lastCalls' = lastCalls
    BY <1>8 DEF lastCalls
  <2> QED
    BY <1>3, <1>8, <2>1 DEF Pending
<1>10. \A n \in 1..Len(executions') : FromCall(executions'[n], lastCalls)
  BY <1>1, <1>6, <1>7
<1> HIDE DEF messages, lastCalls, Pending
<1> QED
  BY <1>1, <1>8, <1>9, <1>10, SameMessages

\* Every reply is in the name of its call.
LEMMA RepliesAreNamed ==
    ASSUME NEW e, NEW outcome \in Outcomes
    PROVE  Reply(e, outcome).name = e.call.name
<1>1. ASSUME NEW id, NEW name, NEW kind, NEW status, NEW failure
      PROVE  ToolMessage(id, name, kind, status, failure).name = name
  BY DEF ToolMessage
<1>2. \A f : FailureMessage(e, f).name = e.call.name
  BY <1>1 DEF FailureMessage
<1>3. \/ outcome = "ok" \/ outcome \in FinancialErrors \/ outcome = "deadline"
      \/ outcome = "raises_arguments" \/ outcome = "raises_provider" \/ outcome = "raises_internal"
  BY ExecutorAssumption DEF AttemptOutcomes
<1>4. CASE outcome = "ok"
  BY <1>1, <1>4 DEF Reply, FinancialErrors
<1>5. CASE outcome \in FinancialErrors
  <2>1. outcome # "ok"
    BY <1>5 DEF FinancialErrors
  <2>2. \E f : Reply(e, outcome) = ToolMessage(e.id, e.call.name, OutputType(e.call.name), "error", f)
    BY <1>5, <2>1 DEF Reply, FinancialErrors
  <2> QED
    BY <1>1, <2>2
<1>6. CASE outcome \notin FinancialErrors /\ outcome # "ok"
  <2>1. \E f : Reply(e, outcome) = FailureMessage(e, f)
    BY <1>3, <1>6 DEF Reply
  <2> QED
    BY <1>2, <2>1
<1> QED
  BY <1>4, <1>5, <1>6

\* An attempt of a call ends.
LEMMA ToolAttemptStory ==
    ASSUME AgentInv, Story, NEW i \in DOMAIN executions, NEW outcome \in Outcomes,
           ToolAttempt(i, outcome)
    PROVE  Story'
<1> DEFINE e == executions[i]
<1>1. /\ Running /\ graph.node = "executing" /\ turns' = turns /\ graph' = graph /\ saved' = saved
      /\ stream' = stream
      /\ \/ executions' = [executions EXCEPT ![i].attempt = @ + 1]
         \/ executions' = [executions EXCEPT ![i].reply = Reply(executions[i], outcome)]
  BY DEF ToolAttempt, AttemptEnds
<1>2. /\ IsSeq(executions) /\ \A k \in 1..Len(executions) : ExecutionOK(executions[k])
      /\ \A k \in 1..Len(executions) : FromCall(executions[k], lastCalls)
  BY <1>1 DEF AgentInv, Shape, Story
<1>3. /\ Len(executions) \in Nat /\ DOMAIN executions = 1..Len(executions) /\ i \in 1..Len(executions)
      /\ executions = [k \in 1..Len(executions) |-> executions[k]]
  BY <1>2, SeqFacts DEF IsSeq
<1>4. ExecutionOK(e) /\ FromCall(e, lastCalls)
  BY <1>2, <1>3
<1>5. PICK x : FromCall(x, lastCalls) /\ executions' = [executions EXCEPT ![i] = x]
  <2>1. CASE executions' = [executions EXCEPT ![i].attempt = @ + 1]
    <3> DEFINE x == [call |-> e.call, id |-> e.id, attempt |-> e.attempt + 1, reply |-> e.reply]
    <3>1. [e EXCEPT !.attempt = @ + 1] = x
      BY <1>4 DEF ExecutionOK
    <3>2. executions' = [executions EXCEPT ![i] = x]
      BY <2>1, <3>1
    <3>3. FromCall(x, lastCalls)
      BY <1>4 DEF FromCall
    <3> QED
      BY <3>2, <3>3
  <2>2. CASE executions' = [executions EXCEPT ![i].reply = Reply(executions[i], outcome)]
    <3> DEFINE m == Reply(e, outcome)
               x == [call |-> e.call, id |-> e.id, attempt |-> e.attempt, reply |-> m]
    <3>1. m.name = e.call.name
      BY RepliesAreNamed
    <3> HIDE DEF m
    <3>2. [e EXCEPT !.reply = m] = x
      BY <1>4 DEF ExecutionOK
    <3>3. executions' = [executions EXCEPT ![i] = x]
      BY <2>2, <3>2 DEF m
    <3>4. FromCall(x, lastCalls)
      BY <1>4, <3>1 DEF FromCall
    <3> QED
      BY <3>3, <3>4
  <2> QED
    BY <1>1, <2>1, <2>2
<1>6. executions' = [k \in 1..Len(executions) |-> executions'[k]]
  BY <1>3, <1>5
<1>7. IsSeq(executions') /\ Len(executions') = Len(executions)
  BY <1>3, <1>6, FunctionIsSeq
<1>8. \A k \in 1..Len(executions') : FromCall(executions'[k], lastCalls)
  BY <1>2, <1>3, <1>5, <1>7
<1>9. messages' = messages /\ Pending' = Pending
  BY <1>1 DEF messages, Pending, lastCalls
<1> HIDE DEF messages, lastCalls, Pending
<1> QED
  BY <1>1, <1>8, <1>9, SameMessages

\* Given ids of their own, the calls are answered in their names.
LEMMA AnswersAreNamed ==
    ASSUME AgentInv, AllReplied, \A k \in 1..Len(executions) : FromCall(executions[k], lastCalls),
           IsSeq(lastCalls), Distinct(lastCalls), NEW n \in 1..Len(lastCalls)
    PROVE  CallId(lastCalls[n], n) = lastCalls[n].id /\ ResultOf(lastCalls[n].id).name = lastCalls[n].name
<1>1. PICK calls, id : calls = lastCalls /\ id = lastCalls[n].id
  OBVIOUS
<1>2. /\ DOMAIN executions = 1..Len(executions) /\ Len(executions) \in Nat
      /\ DOMAIN calls = 1..Len(calls) /\ Len(calls) \in Nat /\ n \in 1..Len(calls)
  BY <1>1, SeqFacts DEF AgentInv, Shape
<1>3. \A i \in 1..Len(calls) : CallId(calls[i], i) = calls[i].id
  BY <1>1 DEF Distinct, CallId
<1>4. \A i \in 1..Len(calls) : CallId(calls[i], i) = id <=> i = n
  BY <1>1, <1>3 DEF Distinct
<1> DEFINE latest == CHOOSE k \in DOMAIN executions :
                       executions[k].id = id /\ \A m \in DOMAIN executions :
                           executions[m].id = id => m <= k
           rejected == CHOOSE i \in DOMAIN calls :
                         CallId(calls[i], i) = id /\ \A j \in DOMAIN calls :
                             CallId(calls[j], j) = id => j <= i
<1>5. ResultOf(id) = IF \E k \in DOMAIN executions : executions[k].id = id
                     THEN executions[latest].reply ELSE Rejection(calls[rejected], id)
  BY <1>1 DEF ResultOf
<1>6. CASE \E k \in DOMAIN executions : executions[k].id = id
  <2> DEFINE same == {k \in 1..Len(executions) : executions[k].id = id}
  <2>1. PICK m \in same : \A y \in same : y <= m
    <3>1. same \subseteq 1..Len(executions) /\ same # {}
      BY <1>2, <1>6
    <3> HIDE DEF same
    <3> QED
      BY <1>2, <3>1, GreatestOfNaturals
  <2>2. latest \in DOMAIN executions /\ executions[latest].id = id
    <3>1. m \in DOMAIN executions /\ executions[m].id = id
      BY <1>2, <2>1
    <3>2. \A k \in DOMAIN executions : executions[k].id = id => k <= m
      BY <1>2, <2>1
    <3> QED
      BY <3>1, <3>2
  <2>3. ResultOf(id) = executions[latest].reply
    BY <1>5, <1>6
  <2> HIDE DEF latest, rejected
  <2>4. executions[latest].reply # None /\ FromCall(executions[latest], calls)
    BY <1>1, <1>2, <2>2 DEF AllReplied
  <2>5. PICK i \in 1..Len(calls) : /\ executions[latest].call = calls[i]
                                   /\ executions[latest].id = CallId(calls[i], i)
    BY <2>4 DEF FromCall
  <2>6. i = n
    BY <1>4, <2>2, <2>5
  <2>7. executions[latest].reply.name = calls[n].name
    BY <2>4, <2>5, <2>6 DEF FromCall
  <2> QED
    BY <1>1, <1>2, <1>3, <2>3, <2>7
<1>7. CASE ~ \E k \in DOMAIN executions : executions[k].id = id
  <2>1. rejected = n
    BY <1>2, <1>4
  <2>2. ResultOf(id) = Rejection(calls[n], id)
    BY <1>5, <1>7, <2>1
  <2>3. Rejection(calls[n], id).name = calls[n].name
    BY DEF Rejection, ToolMessage
  <2> QED
    BY <1>1, <1>2, <1>3, <2>2, <2>3
<1> QED
  BY <1>6, <1>7

\* The calls are answered: nothing is pending.
LEMMA ToolsReturnStory ==
    ASSUME AgentInv, Story, ToolsReturn
    PROVE  Story'
<1> DEFINE ids == [i \in DOMAIN lastCalls |-> CallId(lastCalls[i], i)]
           order == FirstById(ids, ids)
           answers == [n \in DOMAIN order |-> ResultOf(order[n])]
           ms == messages \o answers
<1>1. /\ Running /\ graph.node = "executing" /\ AllReplied /\ turns' = turns /\ executions' = <<>>
      /\ graph' = [graph EXCEPT !.node = "model", !.messages = ms, !.steps = @ + 1, !.attempt = 1]
      /\ saved' = [saved EXCEPT !.newest = ms] /\ stream' = Observed(ms)
  BY DEF ToolsReturn, Superstep
<1>2. /\ IsSeq(messages) /\ Len(messages) \in Nat /\ HumansOK(messages, turn)
      /\ HumansOK(saved.published, turn) /\ Told(OwnOf(messages, turn), Pending)
      /\ \E k \in 1..Len(messages) : Begins(messages, turn, k)
  BY <1>1, StoryFacts
<1>3. Shape
  BY DEF AgentInv
<1>4. Pending = lastCalls /\ IsSeq(lastCalls)
  <2>1. Pending = lastCalls
    BY <1>1 DEF Pending
  <2> QED
    BY <1>2, <2>1 DEF Told
<1>5. DOMAIN lastCalls = 1..Len(lastCalls) /\ Len(lastCalls) \in Nat
  BY <1>4, SeqFacts
<1>6. IsSeq(ids) /\ Len(ids) = Len(lastCalls) /\ \A i \in 1..Len(lastCalls) : ids[i] = CallId(lastCalls[i], i)
  <2>1. ids = [i \in 1..Len(lastCalls) |-> ids[i]] /\ \A i \in 1..Len(lastCalls) : ids[i] = CallId(lastCalls[i], i)
    BY <1>5
  <2> HIDE DEF ids
  <2> QED
    BY <1>5, <2>1, FunctionIsSeq
<1> HIDE DEF ids
<1>7. IsSeq(order) /\ DOMAIN order = 1..Len(order) /\ Len(order) \in Nat
  BY <1>6, FirstByIdKeepsAll, SeqFacts
<1>8. Distinct(lastCalls) => order = ids
  <2> SUFFICES ASSUME Distinct(lastCalls) PROVE order = ids
    OBVIOUS
  <2>1. \A i, j \in 1..Len(ids) : ids[i] = ids[j] => i = j
    BY <1>6 DEF Distinct, CallId
  <2> QED
    BY <1>6, <2>1, FirstOfDistinct
<1> HIDE DEF order
<1>9. IsSeq(answers) /\ Len(answers) = Len(order) /\ \A n \in 1..Len(order) : answers[n] = ResultOf(order[n])
  <2>1. answers = [n \in 1..Len(order) |-> answers[n]] /\ \A n \in 1..Len(order) : answers[n] = ResultOf(order[n])
    BY <1>7
  <2> HIDE DEF answers
  <2> QED
    BY <1>7, <2>1, FunctionIsSeq
<1> HIDE DEF answers
<1>10. \A n \in 1..Len(answers) : answers[n].type = "tool" /\ answers[n].id = order[n]
  <2> TAKE n \in 1..Len(answers)
  <2>1. ReplyOK(ResultOf(order[n])) /\ ResultOf(order[n]).id = order[n]
    BY <1>1, ResultsAnswer
  <2> QED
    BY <1>9, <2>1 DEF ReplyOK
<1>11. Distinct(lastCalls) => Len(answers) = Len(lastCalls) /\ Answer(answers, lastCalls)
  <2> SUFFICES ASSUME Distinct(lastCalls)
               PROVE  Len(answers) = Len(lastCalls) /\ Answer(answers, lastCalls)
    OBVIOUS
  <2>1. Len(answers) = Len(lastCalls)
    BY <1>6, <1>8, <1>9
  <2>2. ASSUME NEW n \in 1..Len(answers)
        PROVE  answers[n].id = lastCalls[n].id /\ answers[n].name = lastCalls[n].name
    <3>1. n \in 1..Len(lastCalls) /\ answers[n] = ResultOf(order[n]) /\ answers[n].id = order[n]
          /\ order[n] = CallId(lastCalls[n], n)
      BY <1>6, <1>8, <1>9, <1>10, <2>1
    <3>2. \A k \in 1..Len(executions) : FromCall(executions[k], lastCalls)
      BY <1>1 DEF Story
    <3>3. CallId(lastCalls[n], n) = lastCalls[n].id /\ ResultOf(lastCalls[n].id).name = lastCalls[n].name
      BY <1>1, <1>4, <3>1, <3>2, AnswersAreNamed
    <3> QED
      BY <3>1, <3>3
  <2> QED
    BY <2>1, <2>2 DEF Answer
<1>12. PICK k \in 1..Len(messages) : Begins(messages, turn, k)
  BY <1>2
<1>13. /\ OwnOf(messages, turn) = After(messages, k) /\ IsSeq(OwnOf(messages, turn))
       /\ Len(OwnOf(messages, turn)) = Len(messages) - k
  BY <1>2, <1>12, OwnMessages
<1>14. Len(OwnOf(messages, turn)) > 0
  <2>1. messages[Len(messages)].type = "ai" /\ messages[k] = Human(turn)
    BY <1>1, <1>2, <1>12, RunningFacts DEF Settled, Begins
  <2>2. k # Len(messages)
    BY <2>1 DEF Human
  <2> QED
    BY <1>2, <1>13, <2>2
<1>15. /\ Begins(ms, turn, k) /\ k \in 1..Len(ms) /\ OwnOf(ms, turn) = OwnOf(messages, turn) \o answers
  <2>1. \A i \in 1..Len(answers) : answers[i].type # "human"
    BY <1>10
  <2> QED
    BY <1>2, <1>9, <1>12, <2>1, OwnGrows
<1>16. Told(OwnOf(ms, turn), <<>>)
  <2>1. PICK own, pending : own = OwnOf(messages, turn) /\ pending = lastCalls
    OBVIOUS
  <2>2. /\ IsSeq(own) /\ Len(own) > 0 /\ Told(own, pending) /\ IsSeq(answers)
        /\ \A i \in 1..Len(answers) : answers[i].type = "tool"
        /\ Distinct(pending) => Len(answers) = Len(pending) /\ Answer(answers, pending)
    BY <1>2, <1>4, <1>9, <1>10, <1>11, <1>13, <1>14, <2>1
  <2>3. Told(own \o answers, <<>>)
    BY <2>2, ResultsAreTold
  <2> QED
    BY <1>15, <2>1, <2>3
<1>17. /\ IsSeq(ms) /\ Len(ms) = Len(messages) + Len(answers)
       /\ \A i \in 1..Len(messages) : ms[i] = messages[i]
       /\ \A i \in 1..Len(answers) : ms[Len(messages) + i] = answers[i]
  <2>1. PICK old, added : old = messages /\ added = answers
    OBVIOUS
  <2>2. IsSeq(old) /\ IsSeq(added)
    BY <1>2, <1>9, <2>1
  <2>3. /\ IsSeq(old \o added) /\ Len(old \o added) = Len(old) + Len(added)
        /\ \A i \in 1..Len(old) : (old \o added)[i] = old[i]
        /\ \A i \in 1..Len(added) : (old \o added)[Len(old) + i] = added[i]
    BY <2>2, ConcatFacts
  <2> QED
    BY <2>1, <2>3
<1>18. stream' = Shown(OwnOf(ms, turn))
  BY <1>1, ObservedIsShown
<1> HIDE DEF ms
<1>19. HumansOK(ms, turn)
  <2> SUFFICES ASSUME NEW p \in 1..Len(ms), ms[p].type = "human" PROVE ms[p].turn \in 1..turn
    BY DEF HumansOK
  <2>1. p \in 1..Len(messages)
    <3> SUFFICES ASSUME p \notin 1..Len(messages) PROVE FALSE
      OBVIOUS
    <3>1. p - Len(messages) \in 1..Len(answers) /\ p = Len(messages) + (p - Len(messages))
      BY <1>2, <1>7, <1>9, <1>17
    <3>2. ms[p].type = "tool"
      BY <1>10, <1>17, <3>1
    <3> QED
      BY <3>2
  <2> QED
    BY <1>2, <1>17, <2>1 DEF HumansOK
<1>20. graph'.node = "model" /\ messages' = ms
  BY <1>1, <1>3 DEF Shape, messages
<1>21. saved'.newest = ms /\ saved'.published = saved.published
  BY <1>1, <1>3 DEF Shape
<1>22. turn' = turn /\ Running' /\ Pending' = <<>>
  BY <1>1, <1>20 DEF turn, Running, Pending
<1>23. PICK own, calls : own = OwnOf(ms, turn) /\ calls = lastCalls'
  OBVIOUS
<1>24. /\ HumansOK(saved'.newest, turn') /\ HumansOK(saved'.published, turn')
       /\ \E i \in 1..Len(ms) : Begins(ms, turn', i)
       /\ OwnOf(ms, turn') = own /\ stream' = Shown(own) /\ Told(own, <<>>)
  BY <1>2, <1>15, <1>16, <1>18, <1>19, <1>21, <1>22, <1>23
<1>25. graph'.node = "executing" => \A n \in 1..Len(executions') : FromCall(executions'[n], calls)
  BY <1>20
<1> HIDE DEF messages, lastCalls, Pending
<1> QED
  BY <1>20, <1>22, <1>23, <1>24, <1>25, StoryGoesOn

-----------------------------------------------------------------------------
\* The events and the result of messages that tell of every call are the same.
LEMMA OneTold ==
    ASSUME NEW own, IsSeq(own), Told(own, <<>>), NEW r, r = Extracted(own),
           \A i, j \in DOMAIN r.calls :
              r.calls[i].id # None /\ (r.calls[i].id = r.calls[j].id => i = j)
    PROVE  /\ Shown(own).calls = [i \in DOMAIN r.calls |-> r.calls[i].id]
           /\ Shown(own).results = r.results
           /\ \A i \in DOMAIN r.calls :
                 \E n \in DOMAIN r.results :
                     /\ r.results[n].id = r.calls[i].id /\ r.results[n].name = r.calls[i].name
                     /\ r.calls[i].status = r.results[n].status
<1>1. PICK names, calls, results :
        names = NamesOf(own) /\ calls = CallsOf(own) /\ results = ResultsOf(own)
  OBVIOUS
<1> DEFINE last(i) == \A j \in DOMAIN calls : calls[j].id = calls[i].id => j <= i
           told(i) == IF last(i) THEN Recorded(results, calls[i].id) ELSE None
           listed == [i \in DOMAIN calls |->
                        [id |-> calls[i].id, name |-> calls[i].name, status |-> told(i)]]
<1>2. r.calls = listed /\ r.results = results
  BY <1>1 DEF Extracted
<1>3. /\ IsSeq(names) /\ IsSeq(calls) /\ IsSeq(results) /\ Len(names) = Len(calls)
      /\ \A i \in 1..Len(calls) : calls[i].id # None => names[i] = calls[i].id
  BY <1>1 DEF Told, Named
<1>4. /\ DOMAIN names = 1..Len(calls) /\ DOMAIN calls = 1..Len(calls) /\ Len(calls) \in Nat
      /\ DOMAIN results = 1..Len(results) /\ Len(results) \in Nat
  BY <1>3, SeqFacts
<1> HIDE DEF told
<1>5. /\ DOMAIN r.calls = 1..Len(calls)
      /\ \A i \in 1..Len(calls) : /\ r.calls[i].id = calls[i].id /\ r.calls[i].name = calls[i].name
                                  /\ r.calls[i].status = told(i)
  BY <1>2, <1>4
<1>6. Distinct(calls)
  BY <1>5 DEF Distinct
<1>7. Len(results) = Len(calls) /\ Answer(results, calls)
  <2>1. Len(<<>>) = 0
    OBVIOUS
  <2> QED
    BY <1>1, <1>4, <1>6, <2>1 DEF Told
<1>8. \A i \in 1..Len(calls) : /\ names[i] = calls[i].id /\ results[i].id = calls[i].id
                               /\ results[i].name = calls[i].name /\ calls[i].id # None
  BY <1>3, <1>6, <1>7 DEF Distinct, Answer
<1>9. \A i, j \in 1..Len(calls) : calls[i].id = calls[j].id => i = j
  BY <1>6 DEF Distinct
<1>10. Shown(own).calls = [i \in DOMAIN r.calls |-> r.calls[i].id]
  <2>1. \A i, j \in 1..Len(names) : names[i] = names[j] => i = j
    BY <1>3, <1>8, <1>9
  <2>2. FirstById(names, names) = names
    BY <1>3, <2>1, FirstOfDistinct
  <2>3. names = [i \in 1..Len(calls) |-> names[i]]
    BY <1>3 DEF IsSeq
  <2>4. names = [i \in DOMAIN r.calls |-> r.calls[i].id]
    BY <1>5, <1>8, <2>3
  <2> QED
    BY <1>1, <2>2, <2>4 DEF Shown
<1>11. Shown(own).results = r.results
  <2> DEFINE ids == [i \in DOMAIN results |-> results[i].id]
  <2>1. \A i, j \in 1..Len(results) : ids[i] = ids[j] => i = j
    BY <1>4, <1>7, <1>8, <1>9
  <2>2. Shown(own).results = FirstById(results, ids)
    BY <1>1 DEF Shown
  <2> HIDE DEF ids
  <2>3. FirstById(results, ids) = results
    BY <1>3, <2>1, FirstOfDistinct
  <2> QED
    BY <1>2, <2>2, <2>3
<1>12. ASSUME NEW i \in 1..Len(calls) PROVE told(i) = results[i].status
  <2>1. last(i)
    BY <1>4, <1>9
  <2>2. {n \in DOMAIN results : results[n].id = calls[i].id} = {i}
    BY <1>4, <1>7, <1>8, <1>9
  <2>3. Recorded(results, calls[i].id) = results[CHOOSE n \in {i} : \A q \in {i} : q <= n].status
    BY <1>8, <2>2 DEF Recorded
  <2>4. (CHOOSE n \in {i} : \A q \in {i} : q <= n) = i
    BY <1>4
  <2> QED
    BY <2>1, <2>3, <2>4 DEF told
<1>13. ASSUME NEW i \in DOMAIN r.calls
       PROVE  \E n \in DOMAIN r.results :
                 /\ r.results[n].id = r.calls[i].id /\ r.results[n].name = r.calls[i].name
                 /\ r.calls[i].status = r.results[n].status
  <2>1. i \in 1..Len(calls) /\ i \in DOMAIN r.results
    BY <1>2, <1>4, <1>5, <1>7
  <2>2. /\ r.results[i].id = r.calls[i].id /\ r.results[i].name = r.calls[i].name
        /\ r.calls[i].status = r.results[i].status
    BY <1>2, <1>5, <1>8, <1>12, <2>1
  <2> QED
    BY <2>1, <2>2
<1> QED
  BY <1>10, <1>11, <1>13

\* The turn is over: its result is what its messages tell.
LEMMA CompleteStory ==
    ASSUME AgentInv, Story, Complete
    PROVE  Story'
<1>1. Running
  BY DEF Complete
<1>2. CASE Ends("failed")
  BY <1>1, <1>2, StoryEnds
<1>3. CASE /\ graph.node = "extract"
           /\ result' = Extracted(AfterMarker(messages))
           /\ turns' = [turns EXCEPT ![turn] = "completed"]
           /\ saved' = [saved EXCEPT !.published = saved.newest]
           /\ graph' = [graph EXCEPT !.node = "end"]
           /\ stream' = stream
  <2>1. /\ turn \in Nat /\ turn > 0 /\ turn = Len(turns) /\ turns \in Seq(Outcome)
    BY <1>1, RunningFacts
  <2>2. /\ IsSeq(messages) /\ HumansOK(messages, turn) /\ saved.newest = messages
        /\ stream = Shown(OwnOf(messages, turn)) /\ Told(OwnOf(messages, turn), Pending)
        /\ \E k \in 1..Len(messages) : Begins(messages, turn, k)
    BY <1>1, StoryFacts
  <2>3. Shape
    BY DEF AgentInv
  <2>4. Len(turns') = Len(turns) /\ turns'[turn] = "completed"
    BY <1>3, <2>1 DEF Outcome
  <2>5. turn' = turn /\ ~ Running'
    BY <2>1, <2>4 DEF turn, Running
  <2>6. graph'.node = "end" /\ saved'.newest = messages /\ saved'.published = messages
    BY <1>3, <2>2, <2>3 DEF Shape
  <2>7. HumansOK(saved'.newest, turn') /\ HumansOK(saved'.published, turn')
    BY <2>2, <2>5, <2>6
  <2>8. PICK own, r : own = OwnOf(messages, turn) /\ r = Extracted(own)
    OBVIOUS
  <2>9. /\ result' = r /\ stream' = Shown(own) /\ Told(own, <<>>)
    BY <1>3, <2>2, <2>8, ObservedIsShown DEF Pending
  <2>10. IsSeq(own)
    BY <2>2, <2>8, OwnMessages
  <2>11. r.turn = turn
    BY <2>8 DEF Extracted
  <2>12. ResultMatchesStream'
    <3> SUFFICES ASSUME \A i, j \in DOMAIN r.calls :
                           r.calls[i].id # None /\ (r.calls[i].id = r.calls[j].id => i = j)
                 PROVE  /\ Shown(own).calls = [i \in DOMAIN r.calls |-> r.calls[i].id]
                        /\ Shown(own).results = r.results
                        /\ \A i \in DOMAIN r.calls :
                              \E n \in DOMAIN r.results :
                                  /\ r.results[n].id = r.calls[i].id
                                  /\ r.results[n].name = r.calls[i].name
                                  /\ r.calls[i].status = r.results[n].status
      BY <2>5, <2>9, <2>11 DEF ResultMatchesStream, DistinctIds
    <3> QED
      BY <2>8, <2>9, <2>10, OneTold
  <2> QED
    BY <2>5, <2>6, <2>7, <2>12 DEF Story
<1> QED
  BY <1>2, <1>3 DEF Complete

\* A thread without turns has no story.
LEMMA InitStory == Init => Story
<1> SUFFICES ASSUME Init PROVE Story
  OBVIOUS
<1>1. /\ turns = <<>> /\ saved.newest = <<>> /\ saved.published = <<>> /\ graph.node = "end"
  BY DEF Init
<1>2. turn = 0 /\ ~ Running
  BY <1>1 DEF turn, Running
<1>3. HumansOK(<<>>, turn)
  BY DEF HumansOK
<1>4. ResultMatchesStream
  BY <1>2 DEF ResultMatchesStream
<1> QED
  BY <1>1, <1>2, <1>3, <1>4 DEF Story

\* Every step keeps the story.
LEMMA NextKeepsStory == AgentInv /\ Story /\ [Next]_vars => Story'
<1> SUFFICES ASSUME AgentInv, Story, [Next]_vars PROVE Story'
  OBVIOUS
<1>1. CASE StartTurn
  BY <1>1, StartTurnStory
<1>2. ASSUME NEW conceptual \in BOOLEAN, NEW financial \in BOOLEAN, NEW groups \in SUBSET Tools,
             NEW bundle \in SUBSET Tools, RouteTools(conceptual, financial, groups, bundle)
      PROVE  Story'
  BY <1>2, RouteToolsStory
<1>3. ASSUME NEW blank \in BOOLEAN, ModelAnswers(blank) PROVE Story'
  BY <1>3, ModelAnswersStory
<1>4. ASSUME NEW c1 \in Calls, ModelCalls(<<c1>>) PROVE Story'
  <2>1. <<c1>> \in Seq(Calls)
    OBVIOUS
  <2> QED
    BY <1>4, <2>1, ModelCallsStory, Zenon
<1>5. ASSUME NEW c1 \in Calls, NEW c2 \in Calls, ModelCalls(<<c1, c2>>) PROVE Story'
  <2>1. <<c1, c2>> \in Seq(Calls)
    OBVIOUS
  <2> QED
    BY <1>5, <2>1, ModelCallsStory, Zenon
<1>6. ASSUME NEW transient \in BOOLEAN, ModelFails(transient) PROVE Story'
  BY <1>6, ModelFailsStory
<1>7. CASE CallTools
  BY <1>7, CallToolsStory
<1>8. ASSUME NEW i \in DOMAIN executions, NEW outcome \in Outcomes, ToolAttempt(i, outcome)
      PROVE  Story'
  BY <1>8, ToolAttemptStory
<1>9. CASE ToolsReturn
  BY <1>9, ToolsReturnStory
<1>10. CASE Complete
  BY <1>10, CompleteStory
<1>11. CASE RecursionExceeded
  BY <1>11, StoryEnds DEF RecursionExceeded
<1>12. CASE Cancel
  BY <1>12, StoryEnds DEF Cancel
<1>13. CASE UNCHANGED vars
  BY <1>13 DEF vars, Story, turn, Running, messages, Pending, lastCalls, ResultMatchesStream,
               DistinctIds
<1>14. CASE AgentStep
  BY <1>2, <1>3, <1>4, <1>5, <1>6, <1>7, <1>8, <1>9, <1>10, <1>11, <1>14 DEF AgentStep
<1> QED
  BY <1>1, <1>12, <1>13, <1>14 DEF Next

\* ResultMatchesStream: a completed turn's result and its live events tell one
\* story, the calls and results of this turn in one order, each call with the
\* outcome of its own result, provided the provider gave the calls distinct ids.
THEOREM OneStory == Spec => []ResultMatchesStream
<1>1. Init => Story
  BY InitStory
<1>2. AgentInv /\ Story /\ [Next]_vars => Story'
  BY NextKeepsStory
<1>3. Story => ResultMatchesStream
  BY DEF Story
<1> QED
  BY <1>1, <1>2, <1>3, AgentInvariant, PTL DEF Spec
=============================================================================
