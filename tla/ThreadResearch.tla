--------------------------- MODULE ThreadResearch ---------------------------
(***************************************************************************)
(* ThreadResearchService.research: the synchronous path of a durable turn. *)
(* HTTP callers admit a run, execute the agent graph from the checkpoint   *)
(* the admission returned, and finalize the run, each in its own           *)
(* transaction, which may raise before or after it committed.  API         *)
(* processes crash and start in between.  A process that builds a run      *)
(* manager recovers abandoned runs as it starts; one that finds no Redis   *)
(* builds none, recovers nothing and serves this path all the same.        *)
(*                                                                         *)
(* The agent is opaque: it takes any time (a caller may stay in "agent"),  *)
(* fails with a ResearchExecutionError, or returns a result that carries a *)
(* new checkpoint or none.                                                 *)
(***************************************************************************)
EXTENDS ConversationRepository

CONSTANTS Callers,      \* HTTP requests; a client that asks again is another caller
          Processes,    \* API processes sharing the database
          AgentErrors   \* codes of ResearchExecutionError, and checkpoint_missing

ASSUME ServiceAssumption ==
    /\ AgentErrors \subseteq ErrorCodes
    /\ "thread_conflict" \in ErrorCodes

VARIABLES process,  \* down, or serving requests with or without a run manager
          calls     \* the request each caller has open

vars == <<repoVars, process, calls>>

\* pc: idle, executing the agent, between the two reads of a replay, answered.
NoCall == [pc |-> "idle", proc |-> None, message |-> None, key |-> None,
           run |-> None, from |-> None, reply |-> "none"]

Init ==
    /\ RepoInit
    /\ process = [p \in Processes |-> "down"]
    /\ calls = [c \in Callers |-> NoCall]

\* An answered request is held by no process and executes nothing.
Ended(m, k, r, reply) ==
    [pc |-> "done", proc |-> None, message |-> m, key |-> k, run |-> r,
     from |-> None, reply |-> reply]

Answered(c, kind) ==
    [calls EXCEPT ![c] = Ended(calls[c].message, calls[c].key, calls[c].run, kind)]

-----------------------------------------------------------------------------
\* Mutant: a run manager starts without recovering.
StartUnrecovered(p) ==
    /\ process[p] = "down"
    /\ process' = [process EXCEPT ![p] = "managed"]
    /\ UNCHANGED <<repoVars, calls>>

\* DetachedRunManager.start recovers abandoned runs before the process accepts
\* requests.
Start(p) ==
    /\ process[p] = "down"
    /\ RecoverAbandonedRuns
    /\ process' = [process EXCEPT ![p] = "managed"]
    /\ UNCHANGED calls

\* Redis cannot be opened: the process has no run manager, so nothing calls
\* recover_abandoned_runs, and the synchronous thread API is served.
StartWithoutRedis(p) ==
    /\ process[p] = "down"
    /\ process' = [process EXCEPT ![p] = "unmanaged"]
    /\ UNCHANGED <<repoVars, calls>>

\* The recovery committed and raised: the process does not come up.
StartRaises(p) ==
    /\ process[p] = "down"
    /\ RecoverAbandonedRuns
    /\ UNCHANGED <<process, calls>>

\* A dead process answers nobody and leaves its runs as they are.
Crash(p) ==
    /\ process[p] # "down"
    /\ process' = [process EXCEPT ![p] = "down"]
    /\ calls' = [c \in Callers |-> IF calls[c].proc = p THEN NoCall ELSE calls[c]]
    /\ UNCHANGED repoVars

Request(c, p, named, m, k) ==
    /\ process[p] # "down"
    /\ calls[c].pc = "idle"

Opened(p, m, k, pc, r, from) ==
    [pc |-> pc, proc |-> p, message |-> m, key |-> k, run |-> r,
     from |-> from, reply |-> "none"]

\* admit_run created a run: this caller executes it from the thread's head.
Admit(c, p, named, m, k, r, t) ==
    /\ Request(c, p, named, m, k)
    /\ AdmitRun(r, named, t, m, k)
    /\ calls' = [calls EXCEPT ![c] = Opened(p, m, k, "agent", r, threads[t].head)]
    /\ UNCHANGED process

\* admit_run raised: its transaction was rolled back, or ...
AdmissionRaises(c, p, named, m, k) ==
    /\ Request(c, p, named, m, k)
    /\ calls' = [calls EXCEPT ![c] = Ended(m, k, None, "server_error")]
    /\ UNCHANGED <<repoVars, process>>

\* ... it had committed.  Nobody executes that run, and its caller learns of a
\* server error only (the record keeps r to say whose request it was).
AdmissionLands(c, p, named, m, k, r, t) ==
    /\ Request(c, p, named, m, k)
    /\ AdmitRun(r, named, t, m, k)
    /\ calls' = [calls EXCEPT ![c] = Ended(m, k, r, "server_error")]
    /\ UNCHANGED process

\* Mutant: the rejection is stored where the position belongs.
RejectMisplaced(c, p, named, m, k) ==
    /\ Request(c, p, named, m, k)
    /\ AdmitOutcome(named, m, k) \notin {"admit", "replay"}
    /\ calls' = [calls EXCEPT ![c] =
                   Opened(p, m, k, AdmitOutcome(named, m, k), None, None)]
    /\ UNCHANGED <<repoVars, process>>

\* admit_run rejected the request.
Reject(c, p, named, m, k) ==
    /\ Request(c, p, named, m, k)
    /\ AdmitOutcome(named, m, k) \notin {"admit", "replay"}
    /\ calls' = [calls EXCEPT ![c] = Ended(m, k, None, AdmitOutcome(named, m, k))]
    /\ UNCHANGED <<repoVars, process>>

\* Mutant: a retransmission takes over a run that is in progress.
ReplayExecuting(c, p, named, m, k) ==
    /\ Request(c, p, named, m, k)
    /\ AdmitOutcome(named, m, k) = "replay"
    /\ LET r == requestKeys[k] IN
       calls' = [calls EXCEPT ![c] =
         CASE runs[r].status = "completed"   -> Opened(p, m, k, "replay", r, None)
           [] runs[r].status = "in_progress" ->
                Opened(p, m, k, "agent", r, threads[runs[r].thread].head)
           [] OTHER                          -> Ended(m, k, r, "persisted_failure")]
    /\ UNCHANGED <<repoVars, process>>

\* _replay decides on the run as the admission read it; only a completed run
\* needs the second read.
Replay(c, p, named, m, k) ==
    /\ Request(c, p, named, m, k)
    /\ AdmitOutcome(named, m, k) = "replay"
    /\ LET r == requestKeys[k] IN
       calls' = [calls EXCEPT ![c] =
         CASE runs[r].status = "completed"   -> Opened(p, m, k, "replay", r, None)
           [] runs[r].status = "in_progress" -> Ended(m, k, r, "already_running")
           [] OTHER                          -> Ended(m, k, r, "persisted_failure")]
    /\ UNCHANGED <<repoVars, process>>

\* get_turn and _completed_result answer a replay.
ReplayResult(c) ==
    /\ calls[c].pc = "replay"
    /\ calls' = Answered(c, "completed")
    /\ UNCHANGED <<repoVars, process>>

\* The agent failed or left no checkpoint: fail_run, then the error is raised.
AgentFails(c, code) ==
    /\ calls[c].pc = "agent"
    /\ IF RequireActive(calls[c].run)
       THEN FailRun(calls[c].run, code) /\ calls' = Answered(c, "research_error")
       ELSE UNCHANGED repoVars /\ calls' = Answered(c, "run_conflict")
    /\ UNCHANGED process

\* Mutant: a run that is no longer active is answered all the same.
AgentReturnsAnyway(c, ckpt) ==
    /\ calls[c].pc = "agent"
    /\ LET r == calls[c].run IN
       IF RequireActive(r) /\ HeadMatches(r, calls[c].from)
       THEN CompleteRun(r, calls[c].from, ckpt)
       ELSE UNCHANGED repoVars
    /\ calls' = Answered(c, "completed")
    /\ UNCHANGED process

\* The agent returned a result: complete_run commits it, or rejects a run that
\* is no longer active, or (CheckpointConflictError) fails the run.
AgentReturns(c, ckpt) ==
    /\ calls[c].pc = "agent"
    /\ LET r == calls[c].run IN
       IF ~RequireActive(r)
       THEN UNCHANGED repoVars /\ calls' = Answered(c, "run_conflict")
       ELSE IF HeadMatches(r, calls[c].from)
       THEN CompleteRun(r, calls[c].from, ckpt) /\ calls' = Answered(c, "completed")
       ELSE FailRun(r, "thread_conflict") /\ calls' = Answered(c, "thread_conflict")
    /\ UNCHANGED process

\* The commit that landed although it raised: of fail_run after the agent
\* failed, of fail_run after a CheckpointConflictError, or of complete_run.
FinalizationLands(c) ==
    LET r == calls[c].run IN
    \/ \E code \in AgentErrors : FailRun(r, code)
    \/ ~HeadMatches(r, calls[c].from) /\ FailRun(r, "thread_conflict")
    \/ \E ckpt \in Checkpoints :
          FreshCheckpoint(ckpt) /\ CompleteRun(r, calls[c].from, ckpt)

\* A finalization raises anything else, having written all or nothing: the
\* exception leaves research() without another attempt.
FinalizationRaises(c) ==
    /\ calls[c].pc = "agent"
    /\ UNCHANGED repoVars \/ FinalizationLands(c)
    /\ calls' = Answered(c, "server_error")
    /\ UNCHANGED process

\* get_turn of a replay raises.
ReplayRaises(c) ==
    /\ calls[c].pc = "replay"
    /\ calls' = Answered(c, "server_error")
    /\ UNCHANGED <<repoVars, process>>

ProcessStep(p) == Start(p) \/ StartWithoutRedis(p) \/ StartRaises(p) \/ Crash(p)

RequestStep(c, p, named, m, k) ==
    \/ \E r \in Runs, t \in Threads :
          Admit(c, p, named, m, k, r, t) \/ AdmissionLands(c, p, named, m, k, r, t)
    \/ AdmissionRaises(c, p, named, m, k)
    \/ Reject(c, p, named, m, k)
    \/ Replay(c, p, named, m, k)

Next ==
    \/ \E p \in Processes : ProcessStep(p)
    \/ \E c \in Callers, p \in Processes, named \in Threads \cup {None},
          m \in Messages, k \in Keys \cup {None} : RequestStep(c, p, named, m, k)
    \/ \E c \in Callers : ReplayResult(c) \/ ReplayRaises(c)
    \/ \E c \in Callers, code \in AgentErrors : AgentFails(c, code)
    \/ \E c \in Callers, ckpt \in Checkpoints : FreshCheckpoint(ckpt) /\ AgentReturns(c, ckpt)
    \/ \E c \in Callers : FinalizationRaises(c)

Spec == Init /\ [][Next]_vars

-----------------------------------------------------------------------------
Replies == {"none", "completed", "already_running", "persisted_failure",
            "research_error", "run_conflict", "thread_conflict", "server_error",
            "key_conflict", "thread_not_found", "run_in_progress"}

\* Requests and processes are in one of their declared states.
CallsTypeOK ==
    /\ process \in [Processes -> {"down", "managed", "unmanaged"}]
    /\ calls \in [Callers -> [pc : {"idle", "agent", "replay", "done"},
                              proc : Processes \cup {None},
                              message : Messages \cup {None},
                              key : Keys \cup {None}, run : Runs \cup {None},
                              from : Checkpoints \cup {None}, reply : Replies]]

\* The agent graph runs at most once per run at any time: a retransmission
\* with the same request key never starts duplicate model work.
OneExecutorPerRun ==
    \A c1, c2 \in Callers : /\ calls[c1].pc = "agent" /\ calls[c2].pc = "agent"
                            /\ calls[c1].run = calls[c2].run
        => c1 = c2

\* The compare-and-set of complete_run never fails for a run that is still
\* active: research()'s CheckpointConflictError handler is unreachable, even
\* when another process recovers runs that are still executing here.
CheckpointConflictUnreachable ==
    \A c \in Callers : calls[c].pc = "agent" /\ RequireActive(calls[c].run)
        => HeadMatches(calls[c].run, calls[c].from)

\* Whoever presents a request key and is told of a run is told of the same run,
\* and that run carries the caller's own message.
KeyedRepliesAgree ==
    \A c1, c2 \in Callers :
        (calls[c1].key # None /\ calls[c1].key = calls[c2].key
            /\ calls[c1].run # None /\ calls[c2].run # None)
        => /\ calls[c1].run = calls[c2].run
           /\ calls[c1].message = calls[c2].message
           /\ runs[calls[c1].run].message = calls[c1].message

\* A caller who got an answer got one that is durable: it stays completed, with
\* its checkpoint, whatever crashes or recoveries follow.
CompletedReplyIsDurable ==
    \A c \in Callers : calls[c].reply = "completed" =>
        /\ runs[calls[c].run].status = "completed"
        /\ lineage[calls[c].run].to # None

\* A run is executed by one caller, and for as long as its completion can still
\* succeed, nobody else has moved the thread it started from.
ExecutionIsExclusive == OneExecutorPerRun /\ CheckpointConflictUnreachable

\* What a caller was told stays true: of the run its request key names, and of
\* the completion it was handed.
RepliesAreKept == KeyedRepliesAgree /\ CompletedReplyIsDurable

\* Request c executes run r, or ended in a server error that left r behind.
Attends(c, r) ==
    /\ calls[c].run = r
    /\ \/ calls[c].pc = "agent"
       \/ calls[c].pc = "done" /\ calls[c].reply = "server_error"

Attended(r) == \E c \in Callers : Attends(c, r)

\* While every process is up with a run manager, a run in progress is executed
\* by some request: what crashes left behind, in however many processes, was
\* recovered.  The code makes two exceptions.  A request that ended in a server
\* error (its admission or its finalization raised) may leave its run in
\* progress, and the thread blocked, until some run manager starts; and a
\* process that came up without Redis recovered nothing.
NoStrandedRun ==
    \A r \in Runs : runs[r].status = "in_progress" =>
        \/ Attended(r)
        \/ \E p \in Processes : process[p] # "managed"
=============================================================================
