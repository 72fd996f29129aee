---------------------------- MODULE ToolExecutor ----------------------------
(***************************************************************************)
(* IsolatedToolExecutor: the calls of one model message run concurrently,  *)
(* each under a deadline per attempt and a retry budget, and each ends as  *)
(* one tool message, whatever its siblings do.  The failures a message     *)
(* carries are those of app/agent/failures.py.                             *)
(*                                                                         *)
(* Content, summaries and provenance are left out; an artifact is its type *)
(* and its status.                                                         *)
(***************************************************************************)
EXTENDS Naturals, Sequences, FiniteSets

CONSTANTS Tools,        \* names in TOOL_CAPABILITIES, all of them registered
          Renamed,      \* tools whose stripped name is not their artifact type
          Unregistered, \* a name no tool has
          MaxAttempts,  \* RetryPolicy.max_attempts
          Outcomes,     \* the attempt outcomes that occur, of AttemptOutcomes
          None

VARIABLE executions  \* the calls being executed: [call, id, attempt, reply]

-----------------------------------------------------------------------------
\* The artifact type of a tool's own artifacts, and the one the executor
\* derives from the name by stripping get_, calculate_, analyze_ or backtest_.
OutputType(name) == <<name, "output">>
StrippedType(name) == IF name \in Renamed THEN <<name, "stripped">> ELSE OutputType(name)

\* Financial errors a tool turns into an artifact; the invalid queries and the
\* unknown symbol are told apart by their code only.
FinancialErrors == {"symbol_not_found", "provider_unavailable", "financial_data_error"}

Failure(code, retryable, attempt, max, recovery) ==
    [code |-> code, retryable |-> retryable, attempt |-> attempt,
     max |-> max, recovery |-> recovery]

\* failure_for_financial_error, as a tool body calls it (attempt 1 of 1).
FinancialFailure(error) ==
    Failure(error, error = "provider_unavailable", 1, 1,
            CASE error = "provider_unavailable" -> "retry"
              [] error = "financial_data_error" -> "continue_without_tool"
              [] OTHER -> "model_correction")

\* parse_structured_failure: what a consumer of the metadata insists on.
ParseAccepts(f) ==
    /\ f.attempt >= 1 /\ f.max >= 1 /\ f.attempt <= f.max
    /\ f.recovery = "retry" => f.retryable

ToolMessage(id, name, kind, status, failure) ==
    [type |-> "tool", id |-> id, name |-> name, kind |-> kind,
     status |-> status, failure |-> failure]

\* _failure_message: an error the executor reports itself.
FailureMessage(e, failure) ==
    ToolMessage(e.id, e.call.name, StrippedType(e.call.name), "error", failure)

\* What one attempt of a tool can do: return its artifact, return the artifact
\* of a financial error, miss the deadline, or raise.
AttemptOutcomes == {"ok"} \cup FinancialErrors
    \cup {"deadline", "raises_arguments", "raises_provider", "raises_internal"}

ASSUME ExecutorAssumption ==
    /\ Renamed \subseteq Tools
    /\ Unregistered \notin Tools
    /\ MaxAttempts \in Nat \ {0}
    /\ Outcomes \subseteq AttemptOutcomes

Retryable(outcome) == outcome \in {"provider_unavailable", "deadline", "raises_provider"}

\* The message an attempt ends the call with: the tool's own, with the
\* executor's attempt metadata (_with_attempt_metadata), or a failure message.
Reply(e, outcome) ==
    CASE outcome = "ok" ->
            ToolMessage(e.id, e.call.name, OutputType(e.call.name), "ok", None)
      [] outcome \in FinancialErrors ->
            LET f == FinancialFailure(outcome) IN
            ToolMessage(e.id, e.call.name, OutputType(e.call.name), "error",
                [f EXCEPT !.attempt = e.attempt, !.max = MaxAttempts,
                          !.recovery = IF f.retryable THEN "exhausted" ELSE @])
      [] outcome = "deadline" ->
            FailureMessage(e, Failure("tool_timeout", TRUE, e.attempt, MaxAttempts, "exhausted"))
      [] outcome = "raises_provider" ->
            FailureMessage(e, Failure("provider_unavailable", TRUE, e.attempt, MaxAttempts,
                                      "exhausted"))
      [] outcome = "raises_arguments" ->
            FailureMessage(e, Failure("malformed_tool_arguments", FALSE, e.attempt, MaxAttempts,
                                      "model_correction"))
      [] outcome = "raises_internal" ->
            FailureMessage(e, Failure("tool_internal_error", FALSE, e.attempt, MaxAttempts,
                                      "degraded"))

-----------------------------------------------------------------------------
\* A call whose tool is not among the selected ones ends at once.
Begun(call, id, selected) ==
    LET e == [call |-> call, id |-> id, attempt |-> 1, reply |-> None] IN
    IF call.name \in selected THEN e
    ELSE [e EXCEPT !.reply = FailureMessage(e,
            Failure("unknown_tool", FALSE, 1, 1, "model_correction"))]

\* Mutant: the attempt is compared with the budget after it was spent.
AttemptEndsOffByOne(i, outcome) ==
    /\ executions[i].reply = None
    /\ executions' = IF Retryable(outcome) /\ executions[i].attempt <= MaxAttempts
                     THEN [executions EXCEPT ![i].attempt = @ + 1]
                     ELSE [executions EXCEPT ![i].reply = Reply(executions[i], outcome)]

\* One attempt of call i ends; a transient failure is retried after a backoff
\* while the budget lasts.
AttemptEnds(i, outcome) ==
    /\ executions[i].reply = None
    /\ executions' = IF Retryable(outcome) /\ executions[i].attempt < MaxAttempts
                     THEN [executions EXCEPT ![i].attempt = @ + 1]
                     ELSE [executions EXCEPT ![i].reply = Reply(executions[i], outcome)]

\* gather returns when every call has its message.
AllReplied == \A i \in DOMAIN executions : executions[i].reply # None
=============================================================================
