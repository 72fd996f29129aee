----------------------- MODULE ConversationRepository -----------------------
(***************************************************************************)
(* The durable lifecycle of threads and runs, as every implementation of   *)
(* the ConversationRepository protocol promises it: each operation is one  *)
(* atomic step (the in-memory adapter's lock, PostgreSQL's transaction).   *)
(*                                                                         *)
(* An identifier of Threads or Runs that has not been handed out by        *)
(* uuid4()/gen_random_uuid() has status "absent".  Answers, tool calls and *)
(* artifacts are abstracted to whether a run has none, a partial or a      *)
(* final result.                                                           *)
(***************************************************************************)
EXTENDS Naturals, FiniteSets

CONSTANTS Threads,      \* thread identifiers the repository may generate
          Runs,         \* run identifiers the repository may generate
          Keys,         \* client idempotency keys
          Messages,     \* user messages
          Checkpoints,  \* LangGraph checkpoint identifiers
          ErrorCodes,   \* codes a caller passes to fail_run
          None          \* Python's None

ASSUME NoneAssumption == None \notin Threads \cup Runs \cup Keys
                                     \cup Messages \cup Checkpoints \cup ErrorCodes
                                     \cup {"cancelled"}

ASSUME CodesAssumption == "process_interrupted" \in ErrorCodes

VARIABLES threads,      \* conversation_threads
          runs,         \* conversation_responses joined with their query
          requestKeys,  \* the unique index on request_key
          lineage       \* history: the checkpoint a run started from and the one it committed

repoVars == <<threads, runs, requestKeys, lineage>>

Terminal == {"completed", "error", "cancelled"}
RunStatus == {"in_progress"} \cup Terminal
Answer == {"none", "partial", "final"}

\* An identifier that has not been generated yet.
NoThread == [status |-> "absent", head |-> None, next |-> 1]
NoRun == [status |-> "absent", thread |-> None, turn |-> 0, key |-> None,
          message |-> None, answer |-> "none", error |-> None]

RunsOf(t) == {r \in Runs : runs[r].status # "absent" /\ runs[r].thread = t}
ActiveRuns(t) == {r \in RunsOf(t) : runs[r].status = "in_progress"}

RepoInit ==
    /\ threads = [t \in Threads |-> NoThread]
    /\ runs = [r \in Runs |-> NoRun]
    /\ requestKeys = [k \in Keys |-> None]
    /\ lineage = [r \in Runs |-> [from |-> None, to |-> None]]

-----------------------------------------------------------------------------
\* A known request key must carry the message and, if it names one, the thread
\* it was first used with.
ReplayAnyMessage(r, t, m) == t = None \/ runs[r].thread = t  \* mutant: message unchecked

ValidReplay(r, t, m) == runs[r].message = m /\ (t = None \/ runs[r].thread = t)

KnownKeyIgnored(k) == FALSE  \* mutant: the key is not looked up

KnownKey(k) == k # None /\ requestKeys[k] # None

\* Mutant: admission does not look for an active run of the thread.
AdmitOutcomeUnserialized(t, m, k) ==
    IF KnownKey(k)
    THEN IF ValidReplay(requestKeys[k], t, m) THEN "replay" ELSE "key_conflict"
    ELSE IF t # None /\ threads[t].status = "absent" THEN "thread_not_found"
    ELSE "admit"

\* What admit_run does with thread_id t (None for a new thread), message m and
\* request_key k: "admit" changes the state, every other outcome leaves it alone.
AdmitOutcome(t, m, k) ==
    IF KnownKey(k)
    THEN IF ValidReplay(requestKeys[k], t, m) THEN "replay" ELSE "key_conflict"
    ELSE IF t = None THEN "admit"
    ELSE IF threads[t].status = "absent" THEN "thread_not_found"
    ELSE IF ActiveRuns(t) # {} THEN "run_in_progress"
    ELSE "admit"

\* admit_run allocates run r with request key k in thread t: a new thread when
\* the request names none (named = None), the named one otherwise.
AdmitRun(r, named, t, m, k) ==
    /\ AdmitOutcome(named, m, k) = "admit"
    /\ IF named = None THEN threads[t].status = "absent" ELSE t = named
    /\ runs[r].status = "absent"
    /\ runs' = [runs EXCEPT ![r] =
                  [status |-> "in_progress", thread |-> t, turn |-> threads[t].next,
                   key |-> k, message |-> m, answer |-> "none", error |-> None]]
    /\ requestKeys' = IF k = None THEN requestKeys ELSE [requestKeys EXCEPT ![k] = r]
    /\ threads' = [threads EXCEPT ![t].status = "in_progress", ![t].next = @ + 1]
    /\ lineage' = [lineage EXCEPT ![r].from = threads[t].head]

RequireExisting(r) == runs[r].status # "absent"  \* mutant: any run will do

\* _require_active_run: every finalization insists on an in-progress run.
RequireActive(r) == runs[r].status = "in_progress"

\* complete_run publishes checkpoint c by compare-and-set on the thread's head.
HeadMatches(r, expected) == threads[runs[r].thread].head = expected

CompleteRun(r, expected, c) ==
    /\ RequireActive(r)
    /\ HeadMatches(r, expected)
    /\ runs' = [runs EXCEPT ![r].status = "completed", ![r].answer = "final"]
    /\ threads' = [threads EXCEPT ![runs[r].thread].status = "completed",
                                  ![runs[r].thread].head = c]
    /\ lineage' = [lineage EXCEPT ![r].to = c]
    /\ UNCHANGED requestKeys

FailRun(r, code) ==
    /\ RequireActive(r)
    /\ runs' = [runs EXCEPT ![r].status = "error", ![r].error = code]
    /\ threads' = [threads EXCEPT ![runs[r].thread].status = "error"]
    /\ UNCHANGED <<requestKeys, lineage>>

\* cancel_run keeps what was streamed before Stop ("" is stored as None).
CancelRun(r, partial) ==
    /\ RequireActive(r)
    /\ runs' = [runs EXCEPT ![r].status = "cancelled", ![r].answer = partial,
                            ![r].error = "cancelled"]
    /\ threads' = [threads EXCEPT ![runs[r].thread].status = "cancelled"]
    /\ UNCHANGED <<requestKeys, lineage>>

\* One transaction fails every run an earlier process left in progress.
RecoverAbandonedRuns ==
    /\ runs' = [r \in Runs |-> IF runs[r].status = "in_progress"
                               THEN [runs[r] EXCEPT !.status = "error",
                                                    !.error = "process_interrupted"]
                               ELSE runs[r]]
    /\ threads' = [t \in Threads |-> IF ActiveRuns(t) # {}
                                     THEN [threads[t] EXCEPT !.status = "error"]
                                     ELSE threads[t]]
    /\ UNCHANGED <<requestKeys, lineage>>

-----------------------------------------------------------------------------
\* LangGraph gives every saved state a new checkpoint identifier.
FreshCheckpoint(c) == \A r \in Runs : lineage[r].to # c

\* The repository under any callers, in any order.
RepoNext ==
    \/ \E r \in Runs, named \in Threads \cup {None}, t \in Threads,
          m \in Messages, k \in Keys \cup {None} : AdmitRun(r, named, t, m, k)
    \/ \E r \in Runs, expected \in Checkpoints \cup {None}, c \in Checkpoints :
          FreshCheckpoint(c) /\ CompleteRun(r, expected, c)
    \/ \E r \in Runs, code \in ErrorCodes : FailRun(r, code)
    \/ \E r \in Runs, partial \in {"none", "partial"} : CancelRun(r, partial)
    \/ RecoverAbandonedRuns

RepoSpec == RepoInit /\ [][RepoNext]_repoVars

-----------------------------------------------------------------------------
ThreadRecord == [status : {"absent"} \cup RunStatus,
                 head : Checkpoints \cup {None}, next : Nat]
RunRecord == [status : {"absent"} \cup RunStatus, thread : Threads \cup {None},
              turn : Nat, key : Keys \cup {None}, message : Messages \cup {None},
              answer : Answer, error : ErrorCodes \cup {"cancelled", None}]

\* The tables hold records of their declared shape (app/persistence/models.py).
RepoTypeOK ==
    /\ threads \in [Threads -> ThreadRecord]
    /\ runs \in [Runs -> RunRecord]
    /\ requestKeys \in [Keys -> Runs \cup {None}]
    /\ lineage \in [Runs -> [from : Checkpoints \cup {None}, to : Checkpoints \cup {None}]]

\* A run that exists belongs to a thread that exists.
RunsHaveThreads ==
    \A r \in Runs : runs[r].status # "absent" =>
        runs[r].thread \in Threads /\ threads[runs[r].thread].status # "absent"

\* A thread owns at most one in-progress run: the partial unique index
\* uq_conversation_responses_active_thread never has anything to reject.
OneActiveRunPerThread ==
    \A r1, r2 \in Runs : /\ runs[r1].status = "in_progress"
                         /\ runs[r2].status = "in_progress"
                         /\ runs[r1].thread = runs[r2].thread
        => r1 = r2

\* Turns of a thread are numbered 1, 2, 3, ... without a gap or a repetition,
\* whatever became of each run: next_turn_index is one more than the last.
TurnsAreDense ==
    \A t \in Threads :
        /\ \A r1, r2 \in RunsOf(t) : runs[r1].turn = runs[r2].turn => r1 = r2
        /\ \A r \in RunsOf(t) : runs[r].turn \in 1..(threads[t].next - 1)
        /\ \A i \in 1..(threads[t].next - 1) : \E r \in RunsOf(t) : runs[r].turn = i

\* A thread's status is that of its newest turn, so an earlier run that ends
\* late can never overwrite it.
StatusFollowsNewestTurn ==
    \A r \in Runs : /\ runs[r].status # "absent"
                    /\ runs[r].turn = threads[runs[r].thread].next - 1
        => threads[runs[r].thread].status = runs[r].status

\* An active run is always its thread's newest turn.
ActiveRunIsNewest ==
    \A r \in Runs : runs[r].status = "in_progress" =>
        runs[r].turn = threads[runs[r].thread].next - 1

\* While a run is active nothing moves its thread's committed head: the
\* compare-and-set of complete_run cannot fail for a caller that passes the
\* checkpoint it was admitted with (the thread_conflict path is never needed).
HeadStableWhileActive ==
    \A r \in Runs : runs[r].status = "in_progress" =>
        threads[runs[r].thread].head = lineage[r].from

\* The committed head is the checkpoint of some completed run of the thread, or
\* None if no run completed; failed and cancelled runs leave no checkpoint.
HeadIsCommitted ==
    /\ \A t \in Threads : threads[t].head # None =>
          \E r \in RunsOf(t) : runs[r].status = "completed" /\ lineage[r].to = threads[t].head
    /\ \A r \in Runs : (lineage[r].to # None) <=> (runs[r].status = "completed")

\* Completed runs of a thread form one chain: no two extended the same
\* checkpoint, so no answer is lost from the conversation's graph state.
HistoryIsLinear ==
    \A r1, r2 \in Runs : /\ runs[r1].status = "completed"
                         /\ runs[r2].status = "completed"
                         /\ runs[r1].thread = runs[r2].thread
                         /\ lineage[r1].from = lineage[r2].from
        => r1 = r2

\* A request key resolves to the one run that was admitted with it.
KeysResolveToTheirRun ==
    /\ \A k \in Keys : requestKeys[k] # None =>
          runs[requestKeys[k]].status # "absent" /\ runs[requestKeys[k]].key = k
    /\ \A r \in Runs : /\ runs[r].status # "absent"
                       /\ runs[r].key # None
          => requestKeys[runs[r].key] = r

\* The database's ck_conversation_responses_lifecycle constraint accepts every
\* row the operations write.
LifecycleConstraint ==
    \A r \in Runs :
        \/ runs[r].status \in {"absent", "in_progress"}
              /\ runs[r].answer = "none" /\ runs[r].error = None
        \/ runs[r].status = "completed" /\ runs[r].answer = "final" /\ runs[r].error = None
        \/ runs[r].status = "error" /\ runs[r].answer = "none" /\ runs[r].error # None
        \/ runs[r].status = "cancelled" /\ runs[r].answer # "final" /\ runs[r].error # None

\* Threads: one active run, dense turns, the status of the newest turn.
ThreadsConsistent == OneActiveRunPerThread /\ TurnsAreDense /\ StatusFollowsNewestTurn

\* Heads: every committed head is an answer's checkpoint, stays put while a run
\* is active, and no two answers extend the same one.
HeadsConsistent == HeadStableWhileActive /\ HeadIsCommitted /\ HistoryIsLinear

\* Rows: keys and runs determine each other and every row is a legal one.
RowsConsistent == RepoTypeOK /\ KeysResolveToTheirRun /\ LifecycleConstraint

\* A terminal run is never rewritten, and no run changes identity.
KeepsFinishedRuns ==
    \A r \in Runs :
        /\ runs[r].status \in Terminal => runs'[r] = runs[r]
        /\ runs[r].status # "absent" =>
              /\ runs'[r].thread = runs[r].thread /\ runs'[r].turn = runs[r].turn
              /\ runs'[r].key = runs[r].key /\ runs'[r].message = runs[r].message

TerminalRunsAreFinal == [][KeepsFinishedRuns]_repoVars

\* A thread's head moves only together with the completion of its active run,
\* and then to that run's own checkpoint.
HeadMovesWithCompletion ==
    \A t \in Threads : threads'[t].head # threads[t].head =>
        \E r \in Runs : /\ runs[r].status = "in_progress" /\ runs[r].thread = t
                        /\ runs'[r].status = "completed"
                        /\ lineage'[r].to = threads'[t].head

\* History is only extended: finished runs stay as they are, heads follow answers.
HistoryIsKept == [][KeepsFinishedRuns /\ HeadMovesWithCompletion]_repoVars
=============================================================================
