--------------------------- MODULE RequestThreads ---------------------------
(***************************************************************************)
(* The requests in progress on the event loop and the one thread pool that *)
(* asyncio.to_thread shares among all of them: Yahoo lookups                *)
(* (src/app/providers/yahoo.py) and password hashing                       *)
(* (src/app/auth/service.py) queue for the same threads.  A job is a pair  *)
(* <<request slot, what it looks up>>.                                     *)
(***************************************************************************)
EXTENDS Naturals, Sequences, FiniteSets, SequencesExt

CONSTANTS
    Slots,        \* requests served at one time
    MaxRequests,  \* bound: requests ever begun
    PoolSize      \* threads of the default executor

ASSUME PoolAssumption == PoolSize \in Nat \ {0} /\ MaxRequests \in Nat

VARIABLES
    req,    \* slot -> Idle or the request it serves
    begun,  \* requests begun so far
    queue,  \* jobs waiting for a thread, oldest first
    busy,   \* jobs a thread is executing and a coroutine still awaits
    stuck   \* threads executing a lookup nobody awaits any more

threadVars == <<queue, busy, stuck>>

ThreadsInit == queue = <<>> /\ busy = {} /\ stuck = 0

\* A slot that serves nothing.
Idle == [kind |-> "idle"]

Serves(r, kinds) == req[r].kind \in kinds

Begin(r, request) ==
    /\ req[r] = Idle /\ begun < MaxRequests
    /\ req' = [req EXCEPT ![r] = request]
    /\ begun' = begun + 1

Submit(job) == queue' = Append(queue, job) /\ UNCHANGED <<busy, stuck>>

\* A thread takes the oldest job.
ThreadTakes ==
    /\ queue # <<>> /\ Cardinality(busy) + stuck < PoolSize
    /\ busy' = busy \cup {Head(queue)}
    /\ queue' = Tail(queue)
    /\ UNCHANGED stuck

ThreadReturns(job) ==
    /\ job \in busy
    /\ busy' = busy \ {job}
    /\ UNCHANGED <<queue, stuck>>

\* wait_for gives up: cancelling the future drops a queued job, but a job that
\* runs keeps its thread.
Abandon(job) ==
    /\ queue' = RemoveFirst(queue, job)
    /\ busy' = busy \ {job}
    /\ stuck' = stuck + (IF job \in busy THEN 1 ELSE 0)

AbandonedReturns ==
    /\ stuck > 0
    /\ stuck' = stuck - 1
    /\ UNCHANGED <<queue, busy>>
=============================================================================
