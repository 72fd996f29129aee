---------------------------- MODULE ResearchAgent ----------------------------
(***************************************************************************)
(* The research agent on one durable thread: the graph                     *)
(*   route_tools -> model -> (tools -> model)* -> END                      *)
(* of app/agent/graph.py with its retries and recursion limit, the events  *)
(* ResearchAgentService.stream_thread derives from it, and the result it   *)
(* extracts.  Turns run one at a time; each starts from the published      *)
(* checkpoint, or from the newest saved state when none was published.     *)
(*                                                                         *)
(* LangGraph is external: it saves the state after every superstep, merges *)
(* messages with add_messages and raises at the recursion limit.  The      *)
(* model is free to answer, call tools, fail or say nothing.               *)
(***************************************************************************)
EXTENDS ToolExecutor, SequencesExt

CONSTANTS Ids,             \* tool call ids the provider may assign
          ModelAttempts,   \* model_max_attempts
          RecursionLimit,  \* supersteps per turn
          MaxCalls,        \* bound: tool calls over all turns
          MaxTurns         \* bound: turns of the thread

ASSUME AgentAssumption ==
    ModelAttempts \in Nat \ {0} /\ RecursionLimit \in Nat /\ MaxCalls \in Nat /\ MaxTurns \in Nat

VARIABLES
    turns,    \* the outcome of each turn started so far
    graph,    \* the executing graph: node, messages, steps, model attempt, selected tools
    saved,    \* the newest saved state of the thread, and the published one, <<>> before the first
    stream,   \* the events of the current turn
    result    \* what _extract_result returned last

vars == <<executions, turns, graph, saved, stream, result>>

turn == Len(turns)
Running == turn > 0 /\ turns[turn] = "running"
messages == graph.messages

Human(t) == [type |-> "human", turn |-> t]
Ai(calls) == [type |-> "ai", turn |-> turn, calls |-> calls]

NoStream == [calls |-> <<>>, results |-> <<>>]
NoResult == [turn |-> 0, calls |-> <<>>, results |-> <<>>, artifacts |-> <<>>]

Init ==
    /\ executions = <<>>
    /\ turns = <<>>
    /\ graph = [node |-> "end", messages |-> <<>>, steps |-> 0, attempt |-> 1, selected |-> {}]
    /\ saved = [newest |-> <<>>, published |-> <<>>]
    /\ stream = NoStream
    /\ result = NoResult

-----------------------------------------------------------------------------
\* call_tools names a call without an id after its position in the message.
CallId(call, index) == IF call.id = None THEN <<"tool-call", index>> ELSE call.id

\* stream_thread names it after the message.
StreamId(call, position, index) ==
    IF call.id = None THEN <<"message", position, index>> ELSE call.id

\* Mutant: the whole conversation is taken for the current turn.
AfterMarkerAll(ms) == SelectSeq(ms, LAMBDA m : m.type # "human")

\* _messages_after_marker: the messages after this turn's own human message.
AfterMarker(ms) ==
    LET marker == CHOOSE i \in DOMAIN ms : ms[i] = Human(turn)
    IN SubSeq(ms, marker + 1, Len(ms))

\* The members of a sequence at the positions that are kept, in order.
Picked(s, keep) ==
    [n \in 1..Cardinality(keep) |->
        s[CHOOSE i \in keep : Cardinality({j \in keep : j <= i}) = n]]

\* The sequence without later repetitions of an id; id[i] is that of s[i].
FirstById(s, id) == Picked(s, {i \in DOMAIN s : \A j \in 1..(i - 1) : id[j] # id[i]})

\* The tool calls, and the tool messages, of a list of messages.
CallsOf(ms) == FlattenSeq([p \in DOMAIN ms |-> IF ms[p].type = "ai" THEN ms[p].calls ELSE <<>>])
ResultsOf(ms) == Picked(ms, {i \in DOMAIN ms : ms[i].type = "tool"})

\* What stream_thread names the calls of a list of messages.
NamesOf(ms) ==
    FlattenSeq([p \in DOMAIN ms |->
        IF ms[p].type = "ai"
        THEN [i \in DOMAIN ms[p].calls |-> StreamId(ms[p].calls[i], p, i)] ELSE <<>>])

\* A state of the graph arrives in values mode: the calls and results not seen
\* before become events, in the order of the messages.
Observed(ms) ==
    LET names == NamesOf(AfterMarker(ms))
        results == ResultsOf(AfterMarker(ms))
    IN [calls |-> FirstById(names, names),
        results |-> FirstById(results, [i \in DOMAIN results |-> results[i].id])]

\* Mutant: the superstep is not counted.
SuperstepUncounted(ms, node) ==
    /\ graph' = [graph EXCEPT !.node = node, !.messages = ms, !.attempt = 1]
    /\ saved' = [saved EXCEPT !.newest = ms]
    /\ stream' = Observed(ms)

\* A superstep ends: LangGraph saves the state and yields it to the stream.
Superstep(ms, node) ==
    /\ graph' = [graph EXCEPT !.node = node, !.messages = ms, !.steps = @ + 1, !.attempt = 1]
    /\ saved' = [saved EXCEPT !.newest = ms]
    /\ stream' = Observed(ms)

InBudget == graph.steps < RecursionLimit

Ends(outcome) ==
    /\ turns' = [turns EXCEPT ![turn] = outcome]
    /\ graph' = [graph EXCEPT !.node = "end"]
    /\ executions' = <<>>
    /\ UNCHANGED <<saved, stream, result>>

-----------------------------------------------------------------------------
\* A turn is admitted: _execution_config names the published checkpoint, or
\* none, and then LangGraph continues from the newest one it saved.
StartTurn ==
    /\ ~Running /\ turn < MaxTurns
    /\ LET base == IF saved.published = <<>> THEN saved.newest ELSE saved.published
           ms == Append(base, Human(turn + 1))
       IN /\ graph' = [graph EXCEPT !.node = "route", !.messages = ms, !.steps = 0, !.attempt = 1]
          /\ saved' = [saved EXCEPT !.newest = ms]
    /\ turns' = Append(turns, "running")
    /\ stream' = NoStream
    /\ UNCHANGED <<executions, result>>

\* IntentRouter.route: a conceptual question gets no tools, matched groups
\* get theirs, a vague company request a bundle, anything else every tool.
Route(conceptual, financial, groups, bundle) ==
    IF conceptual /\ ~financial THEN {}
    ELSE IF groups # {} THEN groups
    ELSE IF bundle # {} THEN bundle ELSE Tools

RouteTools(conceptual, financial, groups, bundle) ==
    /\ Running /\ graph.node = "route" /\ InBudget
    /\ graph' = [graph EXCEPT !.node = "model", !.steps = @ + 1,
                              !.selected = Route(conceptual, financial, groups, bundle)]
    /\ UNCHANGED <<executions, turns, saved, stream, result>>

Invoked == Running /\ graph.node = "model" /\ InBudget

\* The model answers without tool calls; blank text is no answer.
ModelAnswers(blank) ==
    /\ Invoked
    /\ LET ms == Append(messages, Ai(<<>>)) IN
       /\ graph' = [graph EXCEPT !.node = IF blank THEN "blank" ELSE "extract",
                                 !.messages = ms, !.steps = @ + 1]
       /\ saved' = [saved EXCEPT !.newest = ms]
    /\ UNCHANGED <<executions, turns, stream, result>>

\* The bound on tool calls leaves room for one that is never executed, in the
\* last superstep of a turn.
CallBound == MaxCalls + (IF graph.steps + 1 = RecursionLimit THEN 1 ELSE 0)

\* The model requests tool calls.
ModelCalls(calls) ==
    /\ Invoked
    /\ Len(CallsOf(messages)) + Len(calls) <= CallBound
    /\ Superstep(Append(messages, Ai(calls)), "tools")
    /\ UNCHANGED <<executions, turns, result>>

\* Mutant: the last attempt is not the last.
ModelFailsOffByOne(transient) ==
    /\ Invoked
    /\ IF transient /\ graph.attempt <= ModelAttempts
       THEN /\ graph' = [graph EXCEPT !.attempt = @ + 1]
            /\ UNCHANGED <<executions, turns, saved, stream, result>>
       ELSE Ends("failed")

\* A model attempt fails.  A transient error is retried while attempts are
\* left; anything else leaves the graph.
ModelFails(transient) ==
    /\ Invoked
    /\ IF transient /\ graph.attempt < ModelAttempts
       THEN /\ graph' = [graph EXCEPT !.attempt = @ + 1]
            /\ UNCHANGED <<executions, turns, saved, stream, result>>
       ELSE Ends("failed")

-----------------------------------------------------------------------------
lastCalls == messages[Len(messages)].calls

\* validate_tool_arguments rejects a known tool's bad arguments.
Invalid(call) == call.name \in Tools /\ ~call.valid

\* call_tools validates the calls and starts those that may run.
CallTools ==
    /\ Running /\ graph.node = "tools" /\ InBudget
    /\ LET runnable == {i \in DOMAIN lastCalls : ~Invalid(lastCalls[i])}
           nth(n) == CHOOSE i \in runnable : Cardinality({j \in runnable : j <= i}) = n
       IN executions' = [n \in 1..Cardinality(runnable) |->
                           Begun(lastCalls[nth(n)], CallId(lastCalls[nth(n)], nth(n)), graph.selected)]
    /\ graph' = [graph EXCEPT !.node = "executing"]
    /\ UNCHANGED <<turns, saved, stream, result>>

ToolAttempt(i, outcome) ==
    /\ Running /\ graph.node = "executing"
    /\ AttemptEnds(i, outcome)
    /\ UNCHANGED <<turns, graph, saved, stream, result>>

Rejection(call, id) == ToolMessage(id, call.name, OutputType(call.name), "error", None)

\* Mutant: a rejected call is left without a message.
ResultOfExecuted(id) ==
    IF \E n \in DOMAIN executions : executions[n].id = id
    THEN executions[CHOOSE n \in DOMAIN executions :
            executions[n].id = id /\ \A m \in DOMAIN executions :
                executions[m].id = id => m <= n].reply
    ELSE [type |-> "none", id |-> id]

\* results_by_call_id: the last executed call of that id, or the last rejected.
ResultOf(id) ==
    IF \E n \in DOMAIN executions : executions[n].id = id
    THEN executions[CHOOSE n \in DOMAIN executions :
            executions[n].id = id /\ \A m \in DOMAIN executions :
                executions[m].id = id => m <= n].reply
    ELSE Rejection(lastCalls[CHOOSE i \in DOMAIN lastCalls :
            CallId(lastCalls[i], i) = id /\ \A j \in DOMAIN lastCalls :
                CallId(lastCalls[j], j) = id => j <= i], id)

\* The tools node returns one message per call, in call order; add_messages
\* keeps one of the copies that calls with the same id share.
ToolsReturn ==
    /\ Running /\ graph.node = "executing" /\ AllReplied
    /\ LET ids == [i \in DOMAIN lastCalls |-> CallId(lastCalls[i], i)]
           order == FirstById(ids, ids)
       IN Superstep(messages \o [n \in DOMAIN order |-> ResultOf(order[n])], "model")
    /\ executions' = <<>>
    /\ UNCHANGED <<turns, result>>

-----------------------------------------------------------------------------
\* _without_superseded_errors: an error artifact is dropped when a later one
\* of its type succeeded.  A tool message with an id of its own per artifact.
WithoutSuperseded(results) ==
    LET superseded(i) == /\ results[i].status = "error"
                         /\ \E j \in DOMAIN results : /\ j > i
                                                      /\ results[j].status = "ok"
                                                      /\ results[j].kind = results[i].kind
    IN Picked(results, {i \in DOMAIN results : ~superseded(i)})

\* The status _record_tool_outcome leaves on a call of that id: the last one told.
Recorded(results, id) ==
    LET told == {r \in DOMAIN results : results[r].id = id}
    IN IF id = None \/ told = {} THEN None
       ELSE results[CHOOSE r \in told : \A q \in told : q <= r].status

\* _extract_result: the calls of this turn with their outcomes (an outcome goes
\* to the last call of its id), the results, and the artifacts that stand.
Extracted(own) ==
    LET calls == CallsOf(own)
        results == ResultsOf(own)
        last(i) == \A j \in DOMAIN calls : calls[j].id = calls[i].id => j <= i
    IN [turn |-> turn,
        calls |-> [i \in DOMAIN calls |->
                     [id |-> calls[i].id, name |-> calls[i].name,
                      status |-> IF last(i) THEN Recorded(results, calls[i].id) ELSE None]],
        results |-> results,
        artifacts |-> WithoutSuperseded(results)]

\* The graph reached END.  A blank answer is an error; otherwise the result is
\* extracted and the newest saved state is published as the thread's head.
Complete ==
    /\ Running /\ graph.node \in {"extract", "blank"}
    /\ IF graph.node = "extract"
       THEN /\ result' = Extracted(AfterMarker(messages))
            /\ turns' = [turns EXCEPT ![turn] = "completed"]
            /\ saved' = [saved EXCEPT !.published = saved.newest]
            /\ graph' = [graph EXCEPT !.node = "end"]
            /\ UNCHANGED <<executions, stream>>
       ELSE Ends("failed")

\* LangGraph raises GraphRecursionError instead of starting another superstep.
RecursionExceeded ==
    /\ Running /\ graph.node \in {"model", "tools"} /\ ~InBudget
    /\ Ends("failed")

\* The task executing the graph is cancelled at whatever it awaits.
Cancel == Running /\ Ends("cancelled")

Calls == [id : Ids \cup {None}, name : Tools, valid : BOOLEAN]
         \cup [id : Ids \cup {None}, name : {Unregistered}, valid : {TRUE}]

AgentStep ==
    \/ \E conceptual, financial \in BOOLEAN, groups, bundle \in SUBSET Tools :
          RouteTools(conceptual, financial, groups, bundle)
    \/ \E blank \in BOOLEAN : ModelAnswers(blank)
    \/ \E c1 \in Calls : ModelCalls(<<c1>>)
    \/ \E c1, c2 \in Calls : ModelCalls(<<c1, c2>>)
    \/ \E transient \in BOOLEAN : ModelFails(transient)
    \/ CallTools
    \/ \E i \in DOMAIN executions, outcome \in Outcomes : ToolAttempt(i, outcome)
    \/ ToolsReturn
    \/ Complete
    \/ RecursionExceeded

Next == StartTurn \/ AgentStep \/ Cancel

Spec == Init /\ [][Next]_vars
-----------------------------------------------------------------------------
Outcome == {"running", "completed", "failed", "cancelled"}

\* The graph, its executions and the turns are in their declared states.
AgentTypeOK ==
    /\ turns \in BoundedSeq(Outcome, MaxTurns)
    /\ graph.node \in {"route", "model", "tools", "executing", "extract", "blank", "end"}
    /\ graph.steps \in 0..RecursionLimit /\ graph.attempt \in 1..ModelAttempts
    /\ graph.selected \subseteq Tools
    /\ \A i \in DOMAIN executions : executions[i].attempt \in 1..MaxAttempts
    /\ executions # <<>> => graph.node = "executing"
    /\ \A i \in DOMAIN turns : turns[i] = "running" => i = turn /\ graph.node # "end"

\* A result follows the message of its call before any other message does.
AnsweredAt(ms, p) ==
    \A i \in DOMAIN ms[p].calls :
        \E q \in (p + 1)..Len(ms) :
            /\ ms[q].type = "tool" /\ ms[q].id = CallId(ms[p].calls[i], i)
            /\ \A r \in (p + 1)..q : ms[r].type = "tool"

\* A turn that ended without completing, before any did.
LeftUnpublished(t) == t < turn /\ \A u \in 1..t : turns[u] # "completed"

\* When the model is invoked, every tool call in its context has been answered
\* under its own id, be it valid, invalid, unknown, failed or repeated.  The
\* exception: until a first turn completes nothing is published, and the thread
\* continues from whatever state a failed or cancelled turn left, calls without
\* results included; those of such a turn stay for good once a later one
\* completes.
ModelSeesAnsweredCalls ==
    Invoked => \A p \in DOMAIN messages :
        messages[p].type = "ai" =>
            AnsweredAt(messages, p) \/ LeftUnpublished(messages[p].turn)

\* What a tool message says of its failure is acceptable to a consumer, and a
\* retryable failure reaches the model only when the whole budget is spent: it
\* never tells the model to retry what was retried already.
BudgetsAreSpent ==
    \A p \in DOMAIN messages :
        /\ messages[p].type = "tool"
        /\ messages[p].failure # None
        => LET f == messages[p].failure IN
           /\ ParseAccepts(f)
           /\ f.retryable => f.attempt = MaxAttempts /\ f.recovery = "exhausted"

\* Steps, attempts and retries keep to their budgets, and what the model is told
\* of them is so.
BudgetsHold == AgentTypeOK /\ BudgetsAreSpent

\* The provider gave every call of the turn an id of its own.
DistinctIds ==
    \A i, j \in DOMAIN result.calls :
        result.calls[i].id # None /\ (result.calls[i].id = result.calls[j].id => i = j)

\* A completed turn and its live events tell one story: the calls and results
\* are those of this turn and no other, in the same order, and every call has
\* the outcome of its own result.  Calls the provider left without distinct ids
\* are exempt: their events and outcomes collapse.
ResultMatchesStream ==
    turn > 0 /\ turns[turn] = "completed" =>
        /\ result.turn = turn
        /\ DistinctIds =>
              /\ stream.calls = [i \in DOMAIN result.calls |-> result.calls[i].id]
              /\ stream.results = result.results
              /\ \A i \in DOMAIN result.calls :
                    \E r \in DOMAIN result.results :
                        /\ result.results[r].id = result.calls[i].id
                        /\ result.results[r].name = result.calls[i].name
                        /\ result.calls[i].status = result.results[r].status

\* What an execution may still do before gather returns.
AttemptsLeft(i) ==
    IF executions[i].reply = None THEN MaxAttempts - executions[i].attempt + 1 ELSE 0

\* A step starts a turn, ends it or draws on a budget of its own.
SpendsBudget ==
    \/ turn' # turn \/ ~Running'
    \/ graph'.steps > graph.steps
    \/ /\ graph'.steps = graph.steps
       /\ \/ graph.node = "model" /\ graph'.node = "model" /\ graph'.attempt > graph.attempt
          \/ graph.node = "tools" /\ graph'.node = "executing"
          \/ /\ graph.node = "executing" /\ graph'.node = "executing"
             /\ DOMAIN executions' = DOMAIN executions
             /\ \A i \in DOMAIN executions : AttemptsLeft(i)' <= AttemptsLeft(i)
             /\ \E i \in DOMAIN executions : AttemptsLeft(i)' < AttemptsLeft(i)

\* Every turn ends: whatever the model and the tools do, each step either ends
\* the turn or draws on a budget that is never refilled within the superstep:
\* the recursion limit, the model's attempts, the attempts of the calls.
TurnsSpendBudgets == [][SpendsBudget]_vars
=============================================================================
