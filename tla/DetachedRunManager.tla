------------------------- MODULE DetachedRunManager -------------------------
(***************************************************************************)
(* DetachedRunManager: one API process, its single worker task, the        *)
(* channels of the runs it owns, and the requests that race with the       *)
(* worker: submissions, cancellations, event attachments and shutdown.     *)
(*                                                                         *)
(* The process is an asyncio event loop: everything between two awaits is  *)
(* one step.  A step that awaits PostgreSQL or Redis is split where        *)
(* another task can run: an awaited call may take effect, raise, or (when  *)
(* its task is cancelled meanwhile) do either before CancelledError is     *)
(* delivered.  Repository operations are the atomic ones of                *)
(* ConversationRepository, reduced to the status of a run; runs stand for  *)
(* their request keys.  An event is its identity and, for run_end, the     *)
(* status it carries.                                                      *)
(***************************************************************************)
EXTENDS Naturals, Sequences, SequencesExt

CONSTANTS Runs,
          Submitters,   \* concurrent POST .../runs requests
          Cancellers,   \* concurrent POST .../cancel requests
          Attachers,    \* concurrent GET .../events requests
          Stop,         \* the None that close() puts on the queue
          None,
          MaxChunks,    \* bound: events an agent emits between metadata and the end
          MaxRestarts,  \* bound: process exits and crashes
          DbFaults,     \* bound: repository calls that raise unexpectedly
          RedisFaults   \* bound: primary publications that fail or time out

ASSUME ManagerAssumption ==
    /\ {MaxChunks, MaxRestarts, DbFaults, RedisFaults} \subseteq Nat
    /\ Stop \notin Runs /\ None \notin Runs
    /\ Stop \notin [run : Runs, replay : BOOLEAN]

VARIABLES durable,     \* conversation_responses.status
          primary,     \* the Redis stream of each run
          local,       \* the process-local replay buffer of each run
          degraded,    \* runs whose primary publication failed here
          up,          \* down, serving, closing, interrupting or closed
          channel,     \* the _RunChannel of each run this process owns
          exec,        \* the _execute task of each channel
          queue,       \* prepared streams waiting for the worker
          worker,      \* the _work task
          submits, cancels, attaches,  \* where each request is suspended
          closer,      \* where _interrupt_open_channels is, and what it has visited
          budget,      \* what is left of the bounds
          agentRuns    \* history: how often the agent graph was started for a run

stores == <<primary, local, degraded>>
requests == <<submits, cancels, attaches>>
vars == <<durable, stores, up, channel, exec, queue, worker, requests,
          closer, budget, agentRuns>>

TerminalStatus == {"completed", "error", "cancelled"}
NoChannel == [open |-> FALSE, terminal |-> FALSE, cancelRequested |-> FALSE, events |-> 0]
NoExec == [pc |-> "none", replay |-> FALSE, cancelling |-> FALSE, then |-> "none",
           event |-> None]
NoWorker == [pc |-> "none", run |-> None, cancelling |-> FALSE]
NoRequest == [pc |-> "idle", run |-> None, replay |-> FALSE, event |-> None]
NoCloser == [pc |-> "none", run |-> None, event |-> None, visited |-> {}, owned |-> {}]

Volatile(pc) ==
    /\ local' = [r \in Runs |-> <<>>]
    /\ degraded' = {}
    /\ channel' = [r \in Runs |-> NoChannel]
    /\ exec' = [r \in Runs |-> NoExec]
    /\ queue' = <<>>
    /\ worker' = [NoWorker EXCEPT !.pc = pc]
    /\ submits' = [s \in Submitters |-> NoRequest]
    /\ cancels' = [c \in Cancellers |-> NoRequest]
    /\ attaches' = [a \in Attachers |-> NoRequest]
    /\ closer' = NoCloser

Init ==
    /\ durable = [r \in Runs |-> "absent"]
    /\ primary = [r \in Runs |-> <<>>]
    /\ local = [r \in Runs |-> <<>>]
    /\ degraded = {}
    /\ up = "down"
    /\ channel = [r \in Runs |-> NoChannel]
    /\ exec = [r \in Runs |-> NoExec]
    /\ queue = <<>>
    /\ worker = NoWorker
    /\ submits = [s \in Submitters |-> NoRequest]
    /\ cancels = [c \in Cancellers |-> NoRequest]
    /\ attaches = [a \in Attachers |-> NoRequest]
    /\ closer = NoCloser
    /\ budget = [restarts |-> MaxRestarts, db |-> DbFaults, redis |-> RedisFaults]
    /\ agentRuns = [r \in Runs |-> 0]

-----------------------------------------------------------------------------
\* The event transport (ResilientRunEventStore over Redis).
Ended(events) == events # <<>> /\ Last(events).end # "no"
LastId(events) == IF events = <<>> THEN 0 ELSE Last(events).id

\* The local copy is written first and ignores events after run_end.
PublishLocal(r, e) ==
    local' = IF Ended(local[r]) THEN local ELSE [local EXCEPT ![r] = Append(@, e)]

\* Redis accepts an entry only above its newest one.  A failed or refused
\* publication marks the run degraded and is swallowed; so does one that timed
\* out, which Redis may have accepted all the same.
Accepts(r, e) == LastId(primary[r]) < e.id
Accepted(r, e) == IF Accepts(r, e) THEN [primary EXCEPT ![r] = Append(@, e)] ELSE primary

PublishPrimary(r, e) ==
    \/ /\ primary' = Accepted(r, e)
       /\ degraded' = IF Accepts(r, e) THEN degraded ELSE degraded \cup {r}
       /\ UNCHANGED budget
    \/ /\ budget.redis > 0
       /\ budget' = [budget EXCEPT !.redis = @ - 1]
       /\ degraded' = degraded \cup {r}
       /\ primary' \in {primary, Accepted(r, e)}

\* What a new attachment in this process reads.
View(r) == IF r \in degraded THEN local[r] ELSE primary[r]
Latest(r) == IF r \in degraded \/ primary[r] = <<>> THEN local[r] ELSE primary[r]

NextEventFromZero(r, end) == [id |-> channel[r].events, end |-> end]  \* mutant: off by one

\* channel.record or publish_terminal, then the local half of publish: the next
\* event of the channel's own numbering.
NextEvent(r, end) == [id |-> channel[r].events + 1, end |-> end]
Recorded(r, end) == [channel EXCEPT ![r].events = @ + 1, ![r].terminal = (end # "no")]

DbRaises == budget.db > 0 /\ budget' = [budget EXCEPT !.db = @ - 1]

-----------------------------------------------------------------------------
\* start(): recover what an earlier process left, then accept work.
Start ==
    /\ up = "down"
    /\ up' = "serving"
    /\ durable' = [r \in Runs |-> IF durable[r] = "in_progress" THEN "error" ELSE durable[r]]
    /\ Volatile("idle")
    /\ UNCHANGED <<primary, budget, agentRuns>>

\* The process exits after close(), or dies at any moment.
Leave ==
    /\ up' = "down"
    /\ Volatile("none")
    /\ UNCHANGED <<durable, primary, agentRuns>>

Exit == up = "closed" /\ Leave /\ UNCHANGED budget

Crash ==
    /\ up # "down"
    /\ budget.restarts > 0
    /\ budget' = [budget EXCEPT !.restarts = @ - 1]
    /\ Leave

-----------------------------------------------------------------------------
\* submit(): the accepting flag is read before prepare_stream is awaited.
SubmitCheck(s, r) ==
    /\ up = "serving"
    /\ submits[s].pc = "idle"
    /\ submits' = [submits EXCEPT ![s] = [NoRequest EXCEPT !.pc = "admitting", !.run = r]]
    /\ UNCHANGED <<durable, stores, up, channel, exec, queue, worker, cancels, attaches,
                   closer, budget, agentRuns>>

\* Mutant: a failed run is admitted again.
SubmitReadmits(s) ==
    /\ submits[s].pc = "admitting"
    /\ LET r == submits[s].run IN
       /\ durable' = IF durable[r] \in {"absent", "error"}
                     THEN [durable EXCEPT ![r] = "in_progress"] ELSE durable
       /\ submits' = [submits EXCEPT ![s] =
            IF durable[r] \in {"absent", "error"} THEN [@ EXCEPT !.pc = "admitted"]
            ELSE NoRequest]
    /\ UNCHANGED <<stores, up, channel, exec, queue, worker, cancels, attaches,
                   closer, budget, agentRuns>>

\* prepare_stream: a new run, a replay of a completed one, or an answer (or
\* exception) that leaves everything as it is.
SubmitAdmit(s) ==
    /\ submits[s].pc = "admitting"
    /\ LET r == submits[s].run IN
       /\ durable' = IF durable[r] = "absent" THEN [durable EXCEPT ![r] = "in_progress"]
                                              ELSE durable
       /\ submits' = [submits EXCEPT ![s] =
            IF durable[r] \in {"absent", "completed"}
            THEN [@ EXCEPT !.pc = "admitted", !.replay = (durable[r] = "completed")]
            ELSE NoRequest]
    /\ UNCHANGED <<stores, up, channel, exec, queue, worker, cancels, attaches,
                   closer, budget, agentRuns>>

\* admit_run raises; the run may have been admitted although nobody is told.
SubmitRaises(s) ==
    /\ submits[s].pc = "admitting"
    /\ DbRaises
    /\ LET r == submits[s].run IN
       \/ UNCHANGED durable
       \/ durable[r] = "absent" /\ durable' = [durable EXCEPT ![r] = "in_progress"]
    /\ submits' = [submits EXCEPT ![s] = NoRequest]
    /\ UNCHANGED <<stores, up, channel, exec, queue, worker, cancels, attaches,
                   closer, agentRuns>>

\* Mutant: the bare run is queued in place of the prepared stream.
SubmitEnqueuesRun(s) ==
    /\ submits[s].pc = "admitted"
    /\ LET r == submits[s].run IN
       /\ channel' = [channel EXCEPT ![r].open = TRUE]
       /\ queue' = Append(queue, r)
    /\ submits' = [submits EXCEPT ![s] = NoRequest]
    /\ UNCHANGED <<durable, stores, up, exec, worker, cancels, attaches,
                   closer, budget, agentRuns>>

\* Back in submit(): the first to arrive creates the channel and enqueues.
SubmitEnqueue(s) ==
    /\ submits[s].pc = "admitted"
    /\ LET r == submits[s].run IN
       IF channel[r].open THEN UNCHANGED <<channel, queue>>
       ELSE /\ channel' = [channel EXCEPT ![r].open = TRUE]
            /\ queue' = Append(queue, [run |-> r, replay |-> submits[s].replay])
    /\ submits' = [submits EXCEPT ![s] = NoRequest]
    /\ UNCHANGED <<durable, stores, up, exec, worker, cancels, attaches,
                   closer, budget, agentRuns>>

-----------------------------------------------------------------------------
\* _work takes the next item: the sentinel ends it, a run that was cancelled
\* while queued is skipped, any other gets an _execute task.
WorkerTakes ==
    /\ worker.pc = "idle"
    /\ queue # <<>>
    /\ queue' = Tail(queue)
    /\ LET item == Head(queue) IN
       IF item = Stop
       THEN worker' = [worker EXCEPT !.pc = "returned"] /\ UNCHANGED <<exec, agentRuns>>
       ELSE IF channel[item.run].cancelRequested
       THEN UNCHANGED <<worker, exec, agentRuns>>
       ELSE /\ worker' = [worker EXCEPT !.pc = "busy", !.run = item.run]
            /\ exec' = [exec EXCEPT ![item.run] =
                          [NoExec EXCEPT !.pc = "created", !.replay = item.replay]]
            /\ agentRuns' = [agentRuns EXCEPT ![item.run] = @ + (IF item.replay THEN 0 ELSE 1)]
    /\ UNCHANGED <<durable, stores, up, channel, requests, closer, budget>>

\* await execution returns: an exception out of _execute ends the worker.
Finished == {"finished", "cancelled", "raised"}

\* Mutant: the CancelledError of a cancelled run ends the worker.
WorkerStopsOnCancel ==
    /\ worker.pc = "busy"
    /\ exec[worker.run].pc \in Finished
    /\ worker' = [NoWorker EXCEPT !.pc =
                    IF exec[worker.run].pc = "finished" THEN "idle" ELSE "returned"]
    /\ UNCHANGED <<durable, stores, up, channel, exec, queue, requests,
                   closer, budget, agentRuns>>

WorkerJoins ==
    /\ worker.pc = "busy"
    /\ exec[worker.run].pc \in Finished
    /\ worker' = [NoWorker EXCEPT !.pc =
                    IF worker.cancelling THEN "returned"
                    ELSE IF exec[worker.run].pc = "raised" THEN "dead" ELSE "idle"]
    /\ UNCHANGED <<durable, stores, up, channel, exec, queue, requests,
                   closer, budget, agentRuns>>

-----------------------------------------------------------------------------
\* _execute and ThreadResearchService._stream.  Emit hands one event to the
\* transport and suspends in the primary publication; `then` is where the task
\* goes on.
Emit(r, end, then) ==
    /\ channel' = Recorded(r, end)
    /\ PublishLocal(r, NextEvent(r, end))
    /\ exec' = [exec EXCEPT ![r].pc = "publishing", ![r].then = then,
                            ![r].event = NextEvent(r, end)]

Goto(r, pc) == exec' = [exec EXCEPT ![r].pc = pc]

ExecPublished(r) ==
    /\ exec[r].pc = "publishing" /\ ~exec[r].cancelling
    /\ PublishPrimary(r, exec[r].event)
    /\ exec' = [exec EXCEPT ![r].pc = exec[r].then, ![r].then = "none", ![r].event = None]
    /\ UNCHANGED <<durable, local, up, channel, queue, worker, requests,
                   closer, agentRuns>>

\* metadata first; then what the agent streams, or the stored turn of a replay.
ExecEmits(r) ==
    /\ \/ exec[r].pc = "created"
       \/ exec[r].pc = "running" /\ channel[r].events <= MaxChunks
    /\ ~exec[r].cancelling
    /\ Emit(r, "no", "running")
    /\ UNCHANGED <<durable, primary, degraded, up, queue, worker, requests,
                   closer, budget, agentRuns>>

\* A replay ends without touching the database.
ReplayEnds(r) ==
    /\ exec[r].pc = "running" /\ exec[r].replay /\ ~exec[r].cancelling
    /\ Emit(r, "completed", "finished")
    /\ UNCHANGED <<durable, primary, degraded, up, queue, worker, requests,
                   closer, budget, agentRuns>>

\* The agent returned a result or raised: the run is being finalized.
AgentEnds(r) ==
    /\ exec[r].pc = "running" /\ ~exec[r].replay /\ ~exec[r].cancelling
    /\ \E pc \in {"committing", "failing"} : Goto(r, pc)
    /\ UNCHANGED <<durable, stores, up, channel, queue, worker, requests,
                   closer, budget, agentRuns>>

\* complete_run committed: run_end follows.  fail_run committed: an error event
\* and then run_end follow.  A run that is not active any more raises
\* RunLifecycleConflictError into _execute.
ExecFinalizes(r) ==
    /\ exec[r].pc \in {"committing", "failing"} /\ ~exec[r].cancelling
    /\ IF durable[r] # "in_progress"
       THEN Goto(r, "reporting") /\ UNCHANGED <<durable, channel, local>>
       ELSE IF exec[r].pc = "committing"
       THEN durable' = [durable EXCEPT ![r] = "completed"] /\ Emit(r, "completed", "finished")
       ELSE durable' = [durable EXCEPT ![r] = "error"] /\ Emit(r, "no", "errored")
    /\ UNCHANGED <<primary, degraded, up, queue, worker, requests,
                   closer, budget, agentRuns>>

\* Mutant: the stream of a failed run stops after its error event.
ExecErroredSilently(r) ==
    /\ exec[r].pc = "errored" /\ ~exec[r].cancelling
    /\ Goto(r, "finished")
    /\ UNCHANGED <<durable, stores, up, channel, queue, worker, requests,
                   closer, budget, agentRuns>>

ExecErrored(r) ==
    /\ exec[r].pc = "errored" /\ ~exec[r].cancelling
    /\ Emit(r, "error", "finished")
    /\ UNCHANGED <<durable, primary, degraded, up, queue, worker, requests,
                   closer, budget, agentRuns>>

\* The finalization raises something else; the transaction may have committed
\* although its caller saw an exception (the connection broke after COMMIT).
Landed(r) ==
    IF durable[r] # "in_progress" THEN durable
    ELSE [durable EXCEPT ![r] = IF exec[r].pc = "committing" THEN "completed" ELSE "error"]

FinalizationRaises(r) ==
    /\ exec[r].pc \in {"committing", "failing"} /\ ~exec[r].cancelling
    /\ DbRaises
    /\ durable' \in {durable, Landed(r)}
    /\ Goto(r, "reporting")
    /\ UNCHANGED <<stores, up, channel, queue, worker, requests, closer, agentRuns>>

\* The worker_failed handler: fail_run unless the run is terminal already, then
\* run_end(error) in either case.
ExecReports(r) ==
    /\ exec[r].pc = "reporting" /\ ~exec[r].cancelling
    /\ IF channel[r].terminal
       THEN Goto(r, "finished") /\ UNCHANGED <<durable, channel, local>>
       ELSE durable' = Landed(r) /\ Emit(r, "error", "finished")
    /\ UNCHANGED <<primary, degraded, up, queue, worker, requests,
                   closer, budget, agentRuns>>

\* Mutant: run_end(error) is published although fail_run raised.
ReportPublishesAnyway(r) ==
    /\ exec[r].pc = "reporting" /\ ~exec[r].cancelling /\ ~channel[r].terminal
    /\ DbRaises
    /\ Emit(r, "error", "raised")
    /\ UNCHANGED <<durable, primary, degraded, up, queue, worker, requests,
                   closer, agentRuns>>

\* The handler's own fail_run raises: the exception leaves _execute.
ReportRaises(r) ==
    /\ exec[r].pc = "reporting" /\ ~exec[r].cancelling /\ ~channel[r].terminal
    /\ DbRaises
    /\ Goto(r, "raised")
    /\ UNCHANGED <<durable, stores, up, channel, queue, worker, requests,
                   closer, agentRuns>>

\* CancelledError is delivered at an await; the awaited call may have taken
\* effect before.
Suspended == {"created", "running", "publishing", "committing", "failing", "errored",
              "reporting"}

ExecCancelled(r) ==
    /\ exec[r].cancelling
    /\ exec[r].pc \in Suspended
    /\ \/ UNCHANGED <<durable, primary, degraded, budget>>
       \/ /\ exec[r].pc \in {"committing", "failing", "reporting"}
          /\ durable' = Landed(r)
          /\ UNCHANGED <<primary, degraded, budget>>
       \/ /\ exec[r].pc = "publishing"
          /\ PublishPrimary(r, exec[r].event)
          /\ UNCHANGED durable
    /\ exec' = [exec EXCEPT ![r] = [NoExec EXCEPT !.pc = "cancelled", !.replay = exec[r].replay]]
    /\ UNCHANGED <<local, up, channel, queue, worker, requests, closer, agentRuns>>

Execute(r) ==
    \/ ExecPublished(r)
    \/ ExecEmits(r)
    \/ ReplayEnds(r)
    \/ AgentEnds(r)
    \/ ExecFinalizes(r)
    \/ ExecErrored(r)
    \/ ExecReports(r)
    \/ ExecCancelled(r)

-----------------------------------------------------------------------------
\* cancel() of a run this process owns: flag it, interrupt the task, wait for it.
CancelRequest(c, r) ==
    /\ up # "down"
    /\ cancels[c].pc = "idle"
    /\ channel[r].open
    /\ channel' = [channel EXCEPT ![r].cancelRequested = TRUE]
    /\ LET active == exec[r].pc \notin {"none"} \cup Finished IN
       /\ exec' = [exec EXCEPT ![r].cancelling = @ \/ active]
       /\ cancels' = [cancels EXCEPT ![c] =
            [NoRequest EXCEPT !.run = r, !.pc = IF active THEN "awaiting" ELSE "persisting"]]
    /\ UNCHANGED <<durable, stores, up, queue, worker, submits, attaches,
                   closer, budget, agentRuns>>

\* The task ended; an exception other than CancelledError leaves cancel() too.
CancelJoins(c) ==
    /\ cancels[c].pc = "awaiting"
    /\ exec[cancels[c].run].pc \in Finished
    /\ cancels' = [cancels EXCEPT ![c] =
         IF exec[@.run].pc = "raised" THEN NoRequest ELSE [@ EXCEPT !.pc = "persisting"]]
    /\ UNCHANGED <<durable, stores, up, channel, exec, queue, worker, submits, attaches,
                   closer, budget, agentRuns>>

\* Mutant: cancel_run does not insist on an active run.
CancelOverwrites(c) ==
    /\ cancels[c].pc = "persisting"
    /\ durable' = [durable EXCEPT ![cancels[c].run] = "cancelled"]
    /\ cancels' = [cancels EXCEPT ![c] = NoRequest]
    /\ UNCHANGED <<stores, up, channel, exec, queue, worker, submits, attaches,
                   closer, budget, agentRuns>>

\* cancel_run, then publish_terminal("cancelled").  A run that is terminal
\* already makes cancel() raise RunLifecycleConflictError (HTTP 409).
CancelPersists(c) ==
    /\ cancels[c].pc = "persisting"
    /\ LET r == cancels[c].run IN
       IF durable[r] # "in_progress"
       THEN cancels' = [cancels EXCEPT ![c] = NoRequest] /\ UNCHANGED <<durable, channel, local>>
       ELSE /\ durable' = [durable EXCEPT ![r] = "cancelled"]
            /\ IF channel[r].terminal
               THEN cancels' = [cancels EXCEPT ![c] = NoRequest] /\ UNCHANGED <<channel, local>>
               ELSE /\ channel' = Recorded(r, "cancelled")
                    /\ PublishLocal(r, NextEvent(r, "cancelled"))
                    /\ cancels' = [cancels EXCEPT ![c].pc = "publishing",
                                                  ![c].event = NextEvent(r, "cancelled")]
    /\ UNCHANGED <<primary, degraded, up, exec, queue, worker, submits, attaches,
                   closer, budget, agentRuns>>

\* cancel_run raises; the cancellation may have been committed all the same.
CancelRaises(c) ==
    /\ cancels[c].pc = "persisting"
    /\ DbRaises
    /\ LET r == cancels[c].run IN
       \/ UNCHANGED durable
       \/ durable[r] = "in_progress" /\ durable' = [durable EXCEPT ![r] = "cancelled"]
    /\ cancels' = [cancels EXCEPT ![c] = NoRequest]
    /\ UNCHANGED <<stores, up, channel, exec, queue, worker, submits, attaches,
                   closer, agentRuns>>

CancelPublished(c) ==
    /\ cancels[c].pc = "publishing"
    /\ PublishPrimary(cancels[c].run, cancels[c].event)
    /\ cancels' = [cancels EXCEPT ![c] = NoRequest]
    /\ UNCHANGED <<durable, local, up, channel, exec, queue, worker, submits, attaches,
                   closer, agentRuns>>

-----------------------------------------------------------------------------
\* ensure_events_available: a terminal run whose retained stream lacks run_end
\* and that this process does not own gets one, numbered after the newest event.
AttachCheck(a, r) ==
    /\ up # "down"
    /\ attaches[a].pc = "idle"
    /\ durable[r] \in TerminalStatus
    /\ Latest(r) # <<>> /\ ~Ended(Latest(r))
    /\ ~channel[r].open
    /\ LET e == [id |-> LastId(Latest(r)) + 1, end |-> durable[r]] IN
       /\ PublishLocal(r, e)
       /\ attaches' = [attaches EXCEPT ![a] =
            [NoRequest EXCEPT !.pc = "publishing", !.run = r, !.event = e]]
    /\ UNCHANGED <<durable, primary, degraded, up, channel, exec, queue, worker, submits,
                   cancels, closer, budget, agentRuns>>

AttachPublished(a) ==
    /\ attaches[a].pc = "publishing"
    /\ PublishPrimary(attaches[a].run, attaches[a].event)
    /\ attaches' = [attaches EXCEPT ![a] = NoRequest]
    /\ UNCHANGED <<durable, local, up, channel, exec, queue, worker, submits, cancels,
                   closer, agentRuns>>

-----------------------------------------------------------------------------
\* close(): stop accepting, enqueue the sentinel and wait for the worker, whose
\* exception (if it died) is raised out of close().
CloseBegins ==
    /\ up = "serving"
    /\ budget.restarts > 0
    /\ budget' = [budget EXCEPT !.restarts = @ - 1]
    /\ up' = "closing"
    /\ queue' = Append(queue, Stop)
    /\ UNCHANGED <<durable, stores, channel, exec, worker, requests, closer, agentRuns>>

CloseJoins ==
    /\ up = "closing" /\ worker.pc \in {"returned", "dead"}
    /\ up' = "closed"
    /\ UNCHANGED <<durable, stores, channel, exec, queue, worker, requests,
                   closer, budget, agentRuns>>

\* The grace period is over: cancelling the worker cancels the task it awaits.
CloseTimesOut ==
    /\ up = "closing"
    /\ worker.pc = "busy"
    /\ up' = "interrupting"
    /\ worker' = [worker EXCEPT !.cancelling = TRUE]
    /\ exec' = [exec EXCEPT ![worker.run].cancelling = @ \/ exec[worker.run].pc \notin Finished]
    /\ UNCHANGED <<durable, stores, channel, queue, requests, closer, budget, agentRuns>>

\* _interrupt_open_channels iterates the dict of channels (in an order left
\* open) and awaits inside the loop.  Back in the loop it passes terminal channels
\* over and fails the next one; a dict that has grown since the iteration began
\* raises RuntimeError, even when no entry was left to visit.
Owned == {r \in Runs : channel[r].open}
Resumes == up = "interrupting" /\ worker.pc = "returned" /\ closer.pc \in {"none", "next"}
Grown == closer.pc = "next" /\ Owned # closer.owned

InterruptTakes(r) ==
    /\ Resumes /\ ~Grown
    /\ r \in Owned \ closer.visited /\ ~channel[r].terminal
    /\ closer' = [closer EXCEPT !.pc = "failing", !.run = r, !.owned = Owned,
                                !.visited = @ \cup {r}]
    /\ UNCHANGED <<durable, stores, up, channel, exec, queue, worker, requests,
                   budget, agentRuns>>

\* fail_run commits and run_end(error) follows; a run that ended meanwhile raises
\* RunLifecycleConflictError, which continues the loop.
InterruptFails ==
    /\ up = "interrupting" /\ closer.pc = "failing"
    /\ LET r == closer.run IN
       IF durable[r] # "in_progress"
       THEN closer' = [closer EXCEPT !.pc = "next"] /\ UNCHANGED <<durable, channel, local>>
       ELSE /\ durable' = [durable EXCEPT ![r] = "error"]
            /\ IF channel[r].terminal
               THEN closer' = [closer EXCEPT !.pc = "next"] /\ UNCHANGED <<channel, local>>
               ELSE /\ channel' = Recorded(r, "error")
                    /\ PublishLocal(r, NextEvent(r, "error"))
                    /\ closer' = [closer EXCEPT !.pc = "publishing",
                                                !.event = NextEvent(r, "error")]
    /\ UNCHANGED <<primary, degraded, up, exec, queue, worker, requests, budget, agentRuns>>

InterruptPublished ==
    /\ up = "interrupting" /\ closer.pc = "publishing"
    /\ PublishPrimary(closer.run, closer.event)
    /\ closer' = [closer EXCEPT !.pc = "next"]
    /\ UNCHANGED <<durable, local, up, channel, exec, queue, worker, requests, agentRuns>>

\* Any other exception of fail_run, which may have committed, leaves close().
InterruptRaises ==
    /\ up = "interrupting" /\ closer.pc = "failing"
    /\ DbRaises
    /\ LET r == closer.run IN
       \/ UNCHANGED durable
       \/ durable[r] = "in_progress" /\ durable' = [durable EXCEPT ![r] = "error"]
    /\ up' = "closed"
    /\ UNCHANGED <<stores, channel, exec, queue, worker, requests, closer, agentRuns>>

\* RuntimeError: dictionary changed size during iteration.
InterruptBreaks ==
    /\ Resumes /\ Grown
    /\ up' = "closed"
    /\ UNCHANGED <<durable, stores, channel, exec, queue, worker, requests, closer,
                   budget, agentRuns>>

\* Mutant: the loop over the channels may stop early.
InterruptEndsEarly ==
    /\ Resumes
    /\ up' = "closed"
    /\ UNCHANGED <<durable, stores, channel, exec, queue, worker, requests, closer,
                   budget, agentRuns>>

\* Every channel was visited or is terminal.
InterruptEnds ==
    /\ Resumes /\ ~Grown
    /\ \A r \in Owned \ closer.visited : channel[r].terminal
    /\ up' = "closed"
    /\ UNCHANGED <<durable, stores, channel, exec, queue, worker, requests, closer,
                   budget, agentRuns>>

Next ==
    \/ Start
    \/ Exit
    \/ Crash
    \/ \E s \in Submitters :
          \/ \E r \in Runs : SubmitCheck(s, r)
          \/ SubmitAdmit(s)
          \/ SubmitRaises(s)
          \/ SubmitEnqueue(s)
    \/ WorkerTakes
    \/ WorkerJoins
    \/ \E r \in Runs : Execute(r)
    \/ \E r \in Runs : FinalizationRaises(r)
    \/ \E r \in Runs : ReportRaises(r)
    \/ \E c \in Cancellers :
          \/ \E r \in Runs : CancelRequest(c, r)
          \/ CancelJoins(c)
          \/ CancelPersists(c)
          \/ CancelRaises(c)
          \/ CancelPublished(c)
    \/ \E a \in Attachers :
          \/ \E r \in Runs : AttachCheck(a, r)
          \/ AttachPublished(a)
    \/ CloseBegins
    \/ CloseJoins
    \/ CloseTimesOut
    \/ \E r \in Runs : InterruptTakes(r)
    \/ InterruptFails
    \/ InterruptPublished
    \/ InterruptRaises
    \/ InterruptBreaks
    \/ InterruptEnds

Spec == Init /\ [][Next]_vars

\* Every task and request that is not suspended for good is resumed by the
\* event loop, the agent and its tools run under deadlines, and a process that
\* was told to shut down goes through with it.
Fairness ==
    /\ WF_vars(WorkerTakes) /\ WF_vars(WorkerJoins)
    /\ \A r \in Runs : WF_vars(Execute(r))
    /\ \A s \in Submitters : WF_vars(SubmitAdmit(s)) /\ WF_vars(SubmitEnqueue(s))
    /\ \A c \in Cancellers : /\ WF_vars(CancelJoins(c)) /\ WF_vars(CancelPersists(c))
                             /\ WF_vars(CancelPublished(c))
    /\ WF_vars(CloseJoins)
    /\ \A r \in Runs : WF_vars(InterruptTakes(r))
    /\ WF_vars(InterruptFails) /\ WF_vars(InterruptPublished)
    /\ WF_vars(InterruptBreaks) /\ WF_vars(InterruptEnds)

FairSpec == Spec /\ Fairness

-----------------------------------------------------------------------------
Event == [id : Nat, end : {"no"} \cup TerminalStatus]
ExecPcs == {"none"} \cup Suspended \cup Finished

\* Tables, tasks and requests are in one of their declared states.
ManagerTypeOK ==
    /\ durable \in [Runs -> {"absent", "in_progress"} \cup TerminalStatus]
    /\ \A r \in Runs : Range(primary[r]) \cup Range(local[r]) \subseteq Event
    /\ degraded \subseteq Runs
    /\ up \in {"down", "serving", "closing", "interrupting", "closed"}
    /\ \A r \in Runs : exec[r].pc \in ExecPcs
    /\ worker.pc \in {"none", "idle", "busy", "returned", "dead"}
    /\ Range(queue) \subseteq [run : Runs, replay : BOOLEAN] \cup {Stop}

Queued(r) == \E i \in DOMAIN queue : queue[i] # Stop /\ queue[i].run = r
Cancelling(r) == \E c \in Cancellers : cancels[c].run = r

\* Whatever reaches a reader as run_end, from Redis or from the local buffer,
\* carries the status PostgreSQL holds: it follows the matching commit, and no
\* race between completion, failure, cancellation, shutdown and recovery makes
\* the two disagree.
RunEndIsAuthoritative ==
    \A r \in Runs : \A e \in Range(local[r]) \cup Range(primary[r]) :
        e.end # "no" => e.end = durable[r]

\* Even when repository calls raise, and may have committed although their caller
\* saw an exception, run_end is never published for a run that is still open in
\* PostgreSQL: every path to publish_terminal passes a terminal commit.
RunEndFollowsCommit ==
    \A r \in Runs : Ended(local[r]) \/ Ended(primary[r]) => durable[r] \in TerminalStatus

\* A run's agent graph is started at most once, through every resubmission,
\* cancellation and restart.
AgentRunsOnce == \A r \in Runs : agentRuns[r] <= 1

\* Events of a run executed here are numbered 1, 2, 3, ... in the local buffer,
\* whether its last one comes from the stream's producer or from
\* publish_terminal, which numbers by the length of the channel's list.
EventIdsAreContiguous ==
    \A r \in Runs : channel[r].open /\ agentRuns[r] = 1 /\ ~exec[r].replay /\ exec[r].pc # "none"
        => /\ Len(local[r]) = channel[r].events
           /\ \A i \in DOMAIN local[r] : local[r][i].id = i

\* The run is over and nothing in the serving process is still working on it.
Settled(r) ==
    /\ up = "serving" /\ channel[r].open /\ durable[r] \in TerminalStatus
    /\ exec[r].pc \in {"none"} \cup Finished
    /\ ~Queued(r) /\ ~Cancelling(r)

\* "follows new events until run_end": once a run is over, a reader that
\* attaches finds run_end, in Redis or (degraded) in the local buffer.
SettledRunsAreAnnounced ==
    \A r \in Runs : Settled(r) => Ended(View(r))

\* The same for every run whose cancellation was never requested, through
\* failures of the primary transport, replays and restarts.
UncancelledRunsAreAnnounced ==
    \A r \in Runs : Settled(r) /\ ~channel[r].cancelRequested => Ended(View(r))

\* As long as no repository call raised: what readers are told of the end of a run
\* is what PostgreSQL holds, and unless the run was asked to stop they are told of
\* it whenever nothing is left to do.
AnnouncementsAreRight ==
    budget.db = DbFaults => RunEndIsAuthoritative /\ UncancelledRunsAreAnnounced

\* The events of a run carry one unbroken numbering and the last of them, run_end,
\* is not sent before the commit it announces, whatever fails underneath.
EventsAreOrdered == EventIdsAreContiguous /\ RunEndFollowsCommit

\* The item of run r is in the queue with no sentinel behind it.
Late(r) ==
    \E j \in DOMAIN queue : /\ queue[j] # Stop /\ queue[j].run = r
                            /\ \A i \in j..Len(queue) : queue[i] # Stop

\* The loop of close() was to visit run r, but raised before it did, because a run
\* that was submitted while it was under way had added its channel to the dict.
CutOff(r) ==
    /\ r \in closer.owned \ closer.visited
    /\ \E q \in Owned \ closer.owned : Late(q)

\* close() drains the accepted work as long as no repository call raised.  A run
\* it leaves in progress is one that a cancellation is just dealing with, one that
\* reached the queue behind the sentinel because its submission was still
\* suspended when close() began, or one that such a late arrival cut off from the
\* loop that fails what outlived the grace period.
CloseLeavesOnlyLateArrivals ==
    budget.db = DbFaults /\ up = "closed" =>
        \A r \in Runs : channel[r].open /\ durable[r] = "in_progress"
                          => Cancelling(r) \/ Late(r) \/ CutOff(r)

\* While the process accepts runs it has a worker to execute them.
AcceptingMeansWorking == up = "serving" => worker.pc # "dead"

\* An admitted run ends, or the process does.
AdmittedRunsEnd ==
    \A r \in Runs : durable[r] = "in_progress"
                        ~> (durable[r] \in TerminalStatus \/ up \in {"down", "closed"})

\* The manager implements the lifecycle promised to clients: the Redis stream's
\* run_end announces the one terminal status, after its commit.
Announcement(r) ==
    LET ends == {e.end : e \in Range(primary[r])} \ {"no"}
    IN IF ends = {} THEN "none" ELSE CHOOSE s \in ends : TRUE
Lifecycle == INSTANCE RunLifecycle WITH status <- durable,
                                        announced <- [r \in Runs |-> Announcement(r)]
ImplementsLifecycle == Lifecycle!Spec
=============================================================================
