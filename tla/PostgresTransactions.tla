------------------------ MODULE PostgresTransactions ------------------------
(***************************************************************************)
(* The PostgreSQL adapter of the ConversationRepository: each operation is *)
(* a READ COMMITTED transaction of several statements, and many sessions   *)
(* run theirs at once.  The tables of ConversationRepository are the       *)
(* committed rows; what an open transaction wrote is seen by nobody else,  *)
(* but its row locks and its new index entries make others wait.           *)
(*                                                                         *)
(* A statement that waited for a row re-reads the newest committed version *)
(* of it.  An answer stands for the tool calls and artifacts committed     *)
(* with it.                                                                *)
(***************************************************************************)
EXTENDS ConversationRepository

CONSTANT Sessions  \* database sessions; each runs one transaction after another

\* Rows of different tables, and the entries of an index, are locked apart.
ASSUME TablesAssumption ==
    Threads \cap Runs = {} /\ Threads \cap Keys = {} /\ Runs \cap Keys = {}

VARIABLE txn       \* the transaction of each session

txVars == <<repoVars, txn>>

\* pc: the statement to come.  `holds` are the rows and index entries others
\* wait for; `todo` and `seen` are the rows of a recovery's UPDATE.
NoTxn == [op |-> "none", pc |-> "idle", named |-> None, message |-> None, key |-> None,
          run |-> None, thread |-> None, turn |-> 0, head |-> None,
          todo |-> {}, seen |-> {}, holds |-> {}, reply |-> "none"]

TxInit == RepoInit /\ txn = [s \in Sessions |-> NoTxn]

Open(s) == txn[s].pc \notin {"idle", "done"}
Held == UNION {txn[s].holds : s \in Sessions}

Doing(s, op, pc) == txn[s].op = op /\ txn[s].pc = pc

\* Mutant: fetch_active_run locks the row it reads.
WantsActiveRun(s) ==
    CASE txn[s].pc = "thread" -> {txn[s].thread} \ {None}
      [] txn[s].pc = "active" -> ActiveRuns(txn[s].thread)
      [] txn[s].pc = "insert" -> {txn[s].key} \ {None}
      [] txn[s].pc = "run" -> {txn[s].run}
      [] OTHER -> {}

\* The row or index entry the next statement needs for itself.
Wants(s) ==
    CASE txn[s].pc = "thread" -> {txn[s].thread} \ {None}
      [] txn[s].pc = "insert" -> {txn[s].key} \ {None}
      [] txn[s].pc = "run" -> {txn[s].run}
      [] OTHER -> {}

Blockers(s) == {u \in Sessions \ {s} : txn[u].holds \cap Wants(s) # {}}

\* What is remembered of a transaction that ended: only what a property asks for.
Kept(call, reply) ==
    IF reply = "replay"
    THEN [NoTxn EXCEPT !.pc = "done", !.reply = reply, !.named = call.named,
                       !.message = call.message, !.key = call.key, !.run = call.run]
    ELSE IF reply \in {"not_admitted", "active_index", "checkpoint_conflict"}
    THEN [NoTxn EXCEPT !.pc = "done", !.reply = reply]
    ELSE NoTxn

\* Mutant: the connection goes back to the pool with its transaction open.
EndsHolding(s, reply) ==
    txn' = [txn EXCEPT ![s] = [Kept(@, reply) EXCEPT !.holds = txn[s].holds]]

\* The transaction is over and its locks are free.
Ends(s, reply) == txn' = [txn EXCEPT ![s] = Kept(@, reply)]

\* The connection is lost, a statement fails, or PostgreSQL breaks a deadlock.
Rollback(s) ==
    /\ Open(s)
    /\ Ends(s, "raised")
    /\ UNCHANGED repoVars

-----------------------------------------------------------------------------
\* A known request key is answered from the run it resolves to.
Resolved(call) ==
    LET r == requestKeys[call.key] IN
    IF ValidReplay(r, call.named, call.message)
    THEN Kept([call EXCEPT !.run = r], "replay")
    ELSE Kept(call, "key_conflict")

\* admit_run opens its transaction and looks its request key up.
BeginAdmit(s, named, m, k) ==
    /\ ~Open(s)
    /\ LET call == [NoTxn EXCEPT !.op = "admit", !.named = named, !.message = m, !.key = k]
       IN txn' = [txn EXCEPT ![s] = IF KnownKey(k) THEN Resolved(call)
                                    ELSE [call EXCEPT !.pc = "thread", !.thread = named]]
    /\ UNCHANGED repoVars

TakesThread(s, t) ==
    txn' = [txn EXCEPT ![s].pc = "active", ![s].thread = t, ![s].turn = threads[t].next,
                       ![s].head = threads[t].head, ![s].holds = @ \cup {t}]

\* Mutant: the thread is read without FOR UPDATE.
ReadThread(s, t) ==
    /\ Doing(s, "admit", "thread")
    /\ IF txn[s].named = None THEN threads[t].status = "absent" /\ t \notin Held
       ELSE t = txn[s].named /\ threads[t].status # "absent"
    /\ txn' = [txn EXCEPT ![s].pc = "active", ![s].thread = t, ![s].turn = threads[t].next,
                          ![s].head = threads[t].head]
    /\ UNCHANGED repoVars

\* SELECT ... FOR UPDATE of the named thread, or the INSERT of a new one.
LockThread(s, t) ==
    /\ Doing(s, "admit", "thread") /\ Blockers(s) = {}
    /\ IF txn[s].named = None THEN threads[t].status = "absent" /\ t \notin Held
       ELSE t = txn[s].named /\ threads[t].status # "absent"
    /\ TakesThread(s, t)
    /\ UNCHANGED repoVars

ThreadNotFound(s) ==
    /\ Doing(s, "admit", "thread") /\ Blockers(s) = {}
    /\ txn[s].named # None /\ threads[txn[s].named].status = "absent"
    /\ Ends(s, "thread_not_found")
    /\ UNCHANGED repoVars

FetchActive(s) ==
    /\ Doing(s, "admit", "active") /\ Blockers(s) = {}
    /\ IF ActiveRuns(txn[s].thread) # {} THEN Ends(s, "run_in_progress")
       ELSE txn' = [txn EXCEPT ![s].pc = "insert"]
    /\ UNCHANGED repoVars

\* The INSERTs of query and response, with their unique indexes: (thread, turn),
\* request key, active run.  A request key that was committed meanwhile rolls
\* the transaction back and is looked up again.
TurnTaken(s) == \E q \in RunsOf(txn[s].thread) : runs[q].turn = txn[s].turn

InsertRun(s, r) ==
    /\ Doing(s, "admit", "insert") /\ Blockers(s) = {}
    /\ IF TurnTaken(s) THEN Ends(s, "not_admitted")
       ELSE IF KnownKey(txn[s].key)
       THEN txn' = [txn EXCEPT ![s].pc = "resolve", ![s].holds = {}]
       ELSE IF ActiveRuns(txn[s].thread) # {} THEN Ends(s, "active_index")
       ELSE /\ runs[r].status = "absent" /\ r \notin Held
            /\ txn' = [txn EXCEPT ![s].pc = "commit", ![s].run = r,
                                  ![s].holds = @ \cup {r} \cup ({txn[s].key} \ {None})]
    /\ UNCHANGED repoVars

\* Mutant: the run found is returned whatever was asked.
ResolveAnyKey(s) ==
    /\ Doing(s, "admit", "resolve")
    /\ txn' = [txn EXCEPT ![s] = Kept([@ EXCEPT !.run = requestKeys[txn[s].key]], "replay")]
    /\ UNCHANGED repoVars

ResolveKey(s) ==
    /\ Doing(s, "admit", "resolve")
    /\ txn' = [txn EXCEPT ![s] = Resolved(@)]
    /\ UNCHANGED repoVars

CommitAdmit(s) ==
    LET call == txn[s] IN
    /\ Doing(s, "admit", "commit")
    /\ runs' = [runs EXCEPT ![call.run] =
                  [status |-> "in_progress", thread |-> call.thread, turn |-> call.turn,
                   key |-> call.key, message |-> call.message, answer |-> "none",
                   error |-> None]]
    /\ requestKeys' = IF call.key = None THEN requestKeys
                      ELSE [requestKeys EXCEPT ![call.key] = call.run]
    /\ threads' = [threads EXCEPT ![call.thread].status = "in_progress",
                                  ![call.thread].next = @ + 1]
    /\ lineage' = [lineage EXCEPT ![call.run].from = call.head]
    /\ Ends(s, "admitted")

-----------------------------------------------------------------------------
Finalizers == {"complete", "fail", "cancel"}

\* A finalization knows its run from the admission, and the head it returned.
BeginFinalize(s, op, r) ==
    /\ ~Open(s)
    /\ runs[r].status # "absent"
    /\ txn' = [txn EXCEPT ![s] = [NoTxn EXCEPT !.op = op, !.pc = "run", !.run = r,
                                               !.head = lineage[r].from]]
    /\ UNCHANGED repoVars

\* Mutant: the status is read without waiting for the row.
ReadRun(s) ==
    LET r == txn[s].run IN
    /\ txn[s].op \in Finalizers /\ txn[s].pc = "run"
    /\ IF RequireActive(r)
       THEN txn' = [txn EXCEPT ![s].pc = "thread", ![s].thread = runs[r].thread]
       ELSE Ends(s, "lifecycle_conflict")
    /\ UNCHANGED repoVars

\* lock_run and _require_in_progress.
LockRun(s) ==
    LET r == txn[s].run IN
    /\ txn[s].op \in Finalizers /\ txn[s].pc = "run" /\ Blockers(s) = {}
    /\ IF RequireActive(r)
       THEN txn' = [txn EXCEPT ![s].pc = "thread", ![s].thread = runs[r].thread,
                               ![s].holds = {r}]
       ELSE Ends(s, "lifecycle_conflict")
    /\ UNCHANGED repoVars

\* The UPDATE of the thread, in complete_run a compare-and-set on its head.
UpdateThread(s) ==
    LET t == txn[s].thread IN
    /\ txn[s].op \in Finalizers /\ txn[s].pc = "thread" /\ Blockers(s) = {}
    /\ IF txn[s].op = "complete" /\ threads[t].head # txn[s].head
       THEN Ends(s, "checkpoint_conflict")
       ELSE txn' = [txn EXCEPT ![s].pc = "commit", ![s].holds = @ \cup {t}]
    /\ UNCHANGED repoVars

Finishes(s, status, answer, error) ==
    LET r == txn[s].run IN
    /\ runs' = [runs EXCEPT ![r].status = status, ![r].answer = answer, ![r].error = error]
    /\ Ends(s, status)
    /\ UNCHANGED requestKeys

\* Mutant: the thread keeps its old head.
CommitCompleteHalfway(s, c) ==
    /\ Doing(s, "complete", "commit")
    /\ Finishes(s, "completed", "final", None)
    /\ threads' = [threads EXCEPT ![txn[s].thread].status = "completed"]
    /\ lineage' = [lineage EXCEPT ![txn[s].run].to = c]

CommitComplete(s, c) ==
    /\ Doing(s, "complete", "commit")
    /\ Finishes(s, "completed", "final", None)
    /\ threads' = [threads EXCEPT ![txn[s].thread].status = "completed",
                                  ![txn[s].thread].head = c]
    /\ lineage' = [lineage EXCEPT ![txn[s].run].to = c]

\* Mutant: the run is updated, its thread is not.
CommitFailRunOnly(s, code) ==
    /\ Doing(s, "fail", "commit")
    /\ Finishes(s, "error", "none", code)
    /\ UNCHANGED <<threads, lineage>>

CommitFail(s, code) ==
    /\ Doing(s, "fail", "commit")
    /\ Finishes(s, "error", "none", code)
    /\ threads' = [threads EXCEPT ![txn[s].thread].status = "error"]
    /\ UNCHANGED lineage

CommitCancel(s, partial) ==
    /\ Doing(s, "cancel", "commit")
    /\ Finishes(s, "cancelled", partial, "cancelled")
    /\ threads' = [threads EXCEPT ![txn[s].thread].status = "cancelled"]
    /\ UNCHANGED lineage

-----------------------------------------------------------------------------
\* recover_abandoned_runs: one UPDATE visits, in some order, the rows that were
\* in progress when it started, a second one their threads.
NextRow(s, call) ==
    IF call.todo # {}
    THEN \E r \in call.todo :
            txn' = [txn EXCEPT ![s] = [call EXCEPT !.pc = "run", !.run = r,
                                                   !.todo = @ \ {r}]]
    ELSE LET left == {runs[r].thread : r \in call.holds \cap Runs} \ call.holds
         IN IF left # {}
            THEN \E t \in left :
                    txn' = [txn EXCEPT ![s] = [call EXCEPT !.pc = "thread", !.thread = t]]
            ELSE txn' = [txn EXCEPT ![s] = [call EXCEPT !.pc = "commit"]]

BeginRecover(s) ==
    /\ ~Open(s)
    /\ LET active == {r \in Runs : RequireActive(r)}
       IN NextRow(s, [NoTxn EXCEPT !.op = "recover", !.todo = active, !.seen = active])
    /\ UNCHANGED repoVars

\* Mutant: locked rows are skipped instead of waited for.
RecoverSkipsLocked(s) ==
    /\ Doing(s, "recover", "run")
    /\ NextRow(s, IF RequireActive(txn[s].run) /\ Blockers(s) = {}
                  THEN [txn[s] EXCEPT !.holds = @ \cup {txn[s].run}] ELSE txn[s])
    /\ UNCHANGED repoVars

\* A row another transaction finished meanwhile no longer matches.
RecoverRun(s) ==
    /\ Doing(s, "recover", "run") /\ Blockers(s) = {}
    /\ NextRow(s, IF RequireActive(txn[s].run)
                  THEN [txn[s] EXCEPT !.holds = @ \cup {txn[s].run}] ELSE txn[s])
    /\ UNCHANGED repoVars

RecoverThread(s) ==
    /\ Doing(s, "recover", "thread") /\ Blockers(s) = {}
    /\ NextRow(s, [txn[s] EXCEPT !.holds = @ \cup {txn[s].thread}])
    /\ UNCHANGED repoVars

\* The effect of a recovery that found the runs S.
RecoverSome(S) ==
    /\ runs' = [r \in Runs |-> IF r \in S
                               THEN [runs[r] EXCEPT !.status = "error",
                                                    !.error = "process_interrupted"]
                               ELSE runs[r]]
    /\ threads' = [t \in Threads |-> IF \E r \in S : runs[r].thread = t
                                     THEN [threads[t] EXCEPT !.status = "error"]
                                     ELSE threads[t]]
    /\ UNCHANGED <<requestKeys, lineage>>

CommitRecover(s) ==
    /\ Doing(s, "recover", "commit")
    /\ RecoverSome(txn[s].holds \cap Runs)
    /\ Ends(s, "recovered")

-----------------------------------------------------------------------------
TxNext ==
    \/ \E s \in Sessions, named \in Threads \cup {None}, m \in Messages, k \in Keys \cup {None} :
          BeginAdmit(s, named, m, k)
    \/ \E s \in Sessions, t \in Threads : LockThread(s, t)
    \/ \E s \in Sessions : ThreadNotFound(s) \/ FetchActive(s) \/ ResolveKey(s)
    \/ \E s \in Sessions, r \in Runs : InsertRun(s, r)
    \/ \E s \in Sessions : CommitAdmit(s)
    \/ \E s \in Sessions, op \in Finalizers, r \in Runs : BeginFinalize(s, op, r)
    \/ \E s \in Sessions : LockRun(s) \/ UpdateThread(s)
    \/ \E s \in Sessions, c \in Checkpoints : FreshCheckpoint(c) /\ CommitComplete(s, c)
    \/ \E s \in Sessions, code \in ErrorCodes : CommitFail(s, code)
    \/ \E s \in Sessions, partial \in {"none", "partial"} : CommitCancel(s, partial)
    \/ \E s \in Sessions : BeginRecover(s) \/ RecoverRun(s) \/ RecoverThread(s) \/ CommitRecover(s)
    \/ \E s \in Sessions : Rollback(s)

TxSpec == TxInit /\ [][TxNext]_txVars

-----------------------------------------------------------------------------
TxReplies == {"none", "replay", "not_admitted", "active_index", "checkpoint_conflict"}

\* Transactions are records of their declared shape; a row or index entry is
\* held by one of them, and by none that has ended.
TxTypeOK ==
    /\ \A s \in Sessions :
          /\ txn[s].op \in {"none", "admit", "recover"} \cup Finalizers
          /\ txn[s].pc \in {"idle", "thread", "active", "insert", "resolve", "run", "commit", "done"}
          /\ txn[s].reply \in TxReplies
          /\ txn[s].holds \subseteq Threads \cup Runs \cup Keys
          /\ ~Open(s) => txn[s].holds = {}
    /\ \A s, u \in Sessions : s # u => txn[s].holds \cap txn[u].holds = {}

\* Every commit is one step of the atomic repository, whatever interleaves with
\* its statements; only a recovery may find fewer runs than there are when it
\* commits, namely not those admitted since its UPDATE started.
ImplementsRepository ==
    [][\/ UNCHANGED repoVars
       \/ RepoNext
       \/ \E S \in SUBSET {r \in Runs : RequireActive(r)} : RecoverSome(S)]_repoVars

\* The row lock on the thread alone serializes its turns: the unique indexes on
\* turns and on active runs, and the compare-and-set on the head, never reject
\* anything, and a raced request key is found when it is looked up again.
ThreadLockDecides ==
    \A s \in Sessions :
        /\ txn[s].reply \notin {"not_admitted", "active_index", "checkpoint_conflict"}
        /\ txn[s].pc = "resolve" => KnownKey(txn[s].key)

\* No transactions wait for each other in a circle: runs are locked before
\* threads, threads before request keys.  (Two recoveries at once may visit
\* their rows in different orders; PostgreSQL then aborts one.)
LocksAreAcyclic ==
    \A S \in (SUBSET Sessions) \ {{}} :
        (\A s, u \in S : txn[s].op = "recover" /\ txn[u].op = "recover" => s = u)
        => \E s \in S : Blockers(s) \cap S = {}

\* A recovery that is about to commit has every run that was in progress when it
\* began, but for those that ended meanwhile; also if the transaction that made
\* it wait for a run rolled back.
RecoveryIsThorough ==
    \A s \in Sessions : Doing(s, "recover", "commit") =>
        \A r \in txn[s].seen : RequireActive(r) => r \in txn[s].holds

\* A retransmission is told of a run that carries its own message, thread and
\* key, also when it lost the race for the key; so all the requests with one key
\* are told of one run.
ReplaysAreOwn ==
    \A s \in Sessions : txn[s].reply = "replay" =>
        LET r == txn[s].run IN
        /\ runs[r].message = txn[s].message /\ runs[r].key = txn[s].key
        /\ txn[s].named # None => runs[r].thread = txn[s].named
        /\ requestKeys[txn[s].key] = r

\* Locks are well formed, released when a transaction ends, and never waited for
\* in a circle.
LocksAreSound == TxTypeOK /\ LocksAreAcyclic

\* What a transaction read before it waited is checked again afterwards: a
\* recovery takes every run it saw, a raced retransmission gets its own run.
WaitersReadAgain == RecoveryIsThorough /\ ReplaysAreOwn
=============================================================================
