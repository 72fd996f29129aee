------------------------ MODULE ThreadResearchProofs ------------------------
(***************************************************************************)
(* Proofs about ThreadResearch: the service uses the repository only in    *)
(* ways the repository allows, and ServiceInv carries the correspondence   *)
(* between what a request remembers and what the tables hold.              *)
(***************************************************************************)
EXTENDS ThreadResearch, ConversationRepositoryProofs

\* A request that executes the agent holds an existing run and the checkpoint
\* that run was admitted with.
ExecutorsHoldTheirRun ==
    \A c \in Callers : calls[c].pc = "agent" =>
        /\ calls[c].run \in Runs
        /\ runs[calls[c].run].status # "absent"
        /\ calls[c].from = lineage[calls[c].run].from

\* A request that replays, or was answered with a result, names a completed run.
ResultsAreCompleted ==
    \A c \in Callers : calls[c].pc = "replay" \/ calls[c].reply = "completed" =>
        /\ calls[c].run \in Runs
        /\ runs[calls[c].run].status = "completed"

\* A request that names a key and a run names the run the key resolves to.
KeyedCallsResolve ==
    \A c \in Callers : calls[c].key # None /\ calls[c].run # None =>
        /\ requestKeys[calls[c].key] = calls[c].run
        /\ runs[calls[c].run].status # "absent"
        /\ runs[calls[c].run].message = calls[c].message

ServiceInv ==
    /\ CallsTypeOK
    /\ OneExecutorPerRun /\ ExecutorsHoldTheirRun
    /\ ResultsAreCompleted /\ KeyedCallsResolve

-----------------------------------------------------------------------------
\* No requests, empty tables: both invariants hold.
LEMMA ServiceInit == Init => RepoInv /\ ServiceInv
<1> SUFFICES ASSUME Init PROVE RepoInv /\ ServiceInv
  OBVIOUS
<1>1. RepoInv
  BY InvInit DEF Init
<1>2. ServiceInv
  BY DEF Init, NoCall, ServiceInv, CallsTypeOK, OneExecutorPerRun, ExecutorsHoldTheirRun,
         ResultsAreCompleted, KeyedCallsResolve, Replies
<1>3. QED
  BY <1>1, <1>2

\* Every step of the service is a step of the repository or leaves it alone.
LEMMA ServiceStepIsRepoStep ==
  ASSUME RepoInv, ServiceInv, [Next]_vars
  PROVE  [RepoNext]_repoVars
<1> USE DEF ServiceInv
<1>1. ASSUME NEW p \in Processes, Start(p) \/ StartRaises(p)
      PROVE  RepoNext
  BY <1>1 DEF Start, StartRaises, RepoNext
<1>2. ASSUME NEW p \in Processes, StartWithoutRedis(p) \/ Crash(p)
      PROVE  UNCHANGED repoVars
  BY <1>2 DEF StartWithoutRedis, Crash
<1>3. ASSUME NEW c \in Callers, NEW p \in Processes, NEW named \in Threads \cup {None},
             NEW m \in Messages, NEW k \in Keys \cup {None}, NEW r \in Runs, NEW t \in Threads,
             Admit(c, p, named, m, k, r, t) \/ AdmissionLands(c, p, named, m, k, r, t)
      PROVE  RepoNext
  BY <1>3 DEF Admit, AdmissionLands, RepoNext
<1>4. ASSUME NEW c \in Callers, NEW p \in Processes, NEW named \in Threads \cup {None},
             NEW m \in Messages, NEW k \in Keys \cup {None},
             \/ AdmissionRaises(c, p, named, m, k)
             \/ Reject(c, p, named, m, k)
             \/ Replay(c, p, named, m, k)
      PROVE  UNCHANGED repoVars
  BY <1>4 DEF AdmissionRaises, Reject, Replay
<1>5. ASSUME NEW c \in Callers, ReplayResult(c) \/ ReplayRaises(c)
      PROVE  UNCHANGED repoVars
  BY <1>5 DEF ReplayResult, ReplayRaises
<1>6. ASSUME NEW c \in Callers, NEW code \in AgentErrors, AgentFails(c, code)
      PROVE  [RepoNext]_repoVars
  <2>1. calls[c].run \in Runs
    BY <1>6 DEF AgentFails, ExecutorsHoldTheirRun
  <2>2. code \in ErrorCodes
    BY ServiceAssumption
  <2>3. FailRun(calls[c].run, code) \/ UNCHANGED repoVars
    BY <1>6 DEF AgentFails
  <2>4. QED
    BY <2>1, <2>2, <2>3 DEF RepoNext
<1>7. ASSUME NEW c \in Callers, NEW ckpt \in Checkpoints, FreshCheckpoint(ckpt),
             AgentReturns(c, ckpt)
      PROVE  [RepoNext]_repoVars
  <2>1. calls[c].run \in Runs /\ calls[c].from \in Checkpoints \cup {None}
    BY <1>7 DEF AgentReturns, ExecutorsHoldTheirRun, CallsTypeOK
  <2>2. "thread_conflict" \in ErrorCodes
    BY ServiceAssumption
  <2>3. \/ CompleteRun(calls[c].run, calls[c].from, ckpt)
        \/ FailRun(calls[c].run, "thread_conflict")
        \/ UNCHANGED repoVars
    BY <1>7 DEF AgentReturns
  <2>4. QED
    BY <1>7, <2>1, <2>2, <2>3 DEF RepoNext
<1>8. ASSUME NEW c \in Callers, FinalizationRaises(c)
      PROVE  [RepoNext]_repoVars
  <2>1. calls[c].run \in Runs /\ calls[c].from \in Checkpoints \cup {None}
    BY <1>8 DEF FinalizationRaises, ExecutorsHoldTheirRun, CallsTypeOK
  <2>2. CASE \E code \in ErrorCodes : FailRun(calls[c].run, code)
    BY <2>1, <2>2 DEF RepoNext
  <2>3. CASE \E ckpt \in Checkpoints :
                FreshCheckpoint(ckpt) /\ CompleteRun(calls[c].run, calls[c].from, ckpt)
    BY <2>1, <2>3 DEF RepoNext
  <2>4. QED
    BY <1>8, <2>2, <2>3, ServiceAssumption DEF FinalizationRaises, FinalizationLands
<1>9. ASSUME UNCHANGED vars
      PROVE  UNCHANGED repoVars
  BY <1>9 DEF vars
<1>10. QED
  BY <1>1, <1>2, <1>3, <1>4, <1>5, <1>6, <1>7, <1>8, <1>9 DEF Next, ProcessStep, RequestStep

-----------------------------------------------------------------------------
\* What the other requests remember stays true while the repository moves.
LEMMA MemoriesHold ==
  ASSUME RepoInv, ServiceInv, [RepoNext]_repoVars, NEW c \in Callers,
         calls'[c] = calls[c]
  PROVE  /\ calls[c].pc = "agent" =>
                /\ calls[c].run \in Runs
                /\ runs'[calls[c].run].status # "absent"
                /\ calls[c].from = lineage'[calls[c].run].from
         /\ calls[c].pc = "replay" \/ calls[c].reply = "completed" =>
                /\ calls[c].run \in Runs
                /\ runs'[calls[c].run].status = "completed"
         /\ calls[c].key # None /\ calls[c].run # None =>
                /\ requestKeys'[calls[c].key] = calls[c].run
                /\ runs'[calls[c].run].status # "absent"
                /\ runs'[calls[c].run].message = calls[c].message
<1> USE DEF ServiceInv
<1>1. /\ \A q \in Runs : runs[q].status # "absent" =>
            /\ runs'[q].status # "absent" /\ lineage'[q].from = lineage[q].from
            /\ runs'[q].message = runs[q].message
      /\ \A q \in Runs : runs[q].status = "completed" => runs'[q].status = "completed"
      /\ \A j \in Keys : requestKeys[j] # None => requestKeys'[j] = requestKeys[j]
  BY HistoryStep, FinalStep DEF SameIdentity, Terminal
<1>2. calls[c].run \in Runs \cup {None} /\ calls[c].key \in Keys \cup {None}
  BY DEF CallsTypeOK
<1>3. calls[c].pc = "agent" =>
         /\ calls[c].run \in Runs
         /\ runs'[calls[c].run].status # "absent"
         /\ calls[c].from = lineage'[calls[c].run].from
  BY <1>1 DEF ExecutorsHoldTheirRun
<1>4. calls[c].pc = "replay" \/ calls[c].reply = "completed" =>
         /\ calls[c].run \in Runs
         /\ runs'[calls[c].run].status = "completed"
  BY <1>1 DEF ResultsAreCompleted
<1>5. calls[c].key # None /\ calls[c].run # None =>
         /\ requestKeys'[calls[c].key] = calls[c].run
         /\ runs'[calls[c].run].status # "absent"
         /\ runs'[calls[c].run].message = calls[c].message
  BY <1>1, <1>2 DEF KeyedCallsResolve
<1>6. QED
  BY <1>3, <1>4, <1>5

\* The condition on one request.
RequestOK(c) ==
    /\ calls[c].pc = "agent" =>
          /\ calls[c].run \in Runs
          /\ runs[calls[c].run].status # "absent"
          /\ calls[c].from = lineage[calls[c].run].from
    /\ calls[c].pc = "replay" \/ calls[c].reply = "completed" =>
          /\ calls[c].run \in Runs
          /\ runs[calls[c].run].status = "completed"
    /\ calls[c].key # None /\ calls[c].run # None =>
          /\ requestKeys[calls[c].key] = calls[c].run
          /\ runs[calls[c].run].status # "absent"
          /\ runs[calls[c].run].message = calls[c].message

CallRecord == [pc : {"idle", "agent", "replay", "done"}, proc : Processes \cup {None},
               message : Messages \cup {None},
               key : Keys \cup {None}, run : Runs \cup {None},
               from : Checkpoints \cup {None}, reply : Replies]

\* Only request d changed, and its new state is sound: so is the whole.
LEMMA OneRequestMoves ==
  ASSUME RepoInv, ServiceInv, [RepoNext]_repoVars,
         process' \in [Processes -> {"down", "managed", "unmanaged"}],
         NEW d \in Callers, NEW new \in CallRecord, calls' = [calls EXCEPT ![d] = new],
         RequestOK(d)',
         new.pc = "agent" => \A c \in Callers \ {d} : calls[c].pc = "agent"
                                                         => calls[c].run # new.run
  PROVE  ServiceInv'
<1> USE DEF ServiceInv
<1>1. /\ calls \in [Callers -> CallRecord] /\ calls'[d] = new
      /\ \A c \in Callers \ {d} : calls'[c] = calls[c]
  BY DEF CallsTypeOK, CallRecord
<1>2. \A c \in Callers \ {d} : RequestOK(c)'
  BY <1>1, MemoriesHold DEF RequestOK
<1>3. \A c \in Callers : RequestOK(c)'
  BY <1>2
<1>4. ExecutorsHoldTheirRun' /\ ResultsAreCompleted' /\ KeyedCallsResolve'
  BY <1>3 DEF RequestOK, ExecutorsHoldTheirRun, ResultsAreCompleted, KeyedCallsResolve
<1>5. CallsTypeOK'
  BY <1>1 DEF CallsTypeOK, CallRecord
<1>6. OneExecutorPerRun'
  BY <1>1 DEF OneExecutorPerRun
<1>7. QED
  BY <1>4, <1>5, <1>6

\* Requests only end, or start over: none of the invariant's parts is lost.
LEMMA RequestsEnd ==
  ASSUME RepoInv, ServiceInv, [RepoNext]_repoVars,
         process' \in [Processes -> {"down", "managed", "unmanaged"}],
         NEW Dropped \in SUBSET Callers,
         calls' = [c \in Callers |-> IF c \in Dropped THEN NoCall ELSE calls[c]]
  PROVE  ServiceInv'
<1> USE DEF ServiceInv
<1>1. \A c \in Callers \ Dropped : calls'[c] = calls[c]
  OBVIOUS
<1>2. \A c \in Dropped : /\ calls'[c].pc = "idle" /\ calls'[c].key = None
                          /\ calls'[c].reply = "none"
  BY DEF NoCall
<1>3. \A c \in Callers : RequestOK(c)'
  <2>1. \A c \in Callers \ Dropped : RequestOK(c)'
    BY <1>1, MemoriesHold DEF RequestOK
  <2>2. \A c \in Dropped : RequestOK(c)'
    BY <1>2 DEF RequestOK
  <2>3. QED
    BY <2>1, <2>2
<1>4. ExecutorsHoldTheirRun' /\ ResultsAreCompleted' /\ KeyedCallsResolve'
  BY <1>3 DEF RequestOK, ExecutorsHoldTheirRun, ResultsAreCompleted, KeyedCallsResolve
<1>5. CallsTypeOK'
  BY DEF CallsTypeOK, NoCall, Replies
<1>6. OneExecutorPerRun'
  BY <1>1, <1>2 DEF OneExecutorPerRun
<1>7. QED
  BY <1>4, <1>5, <1>6

\* Every step of the service preserves its invariant, given the repository's.
LEMMA ServiceStep ==
  ASSUME RepoInv, ServiceInv, [Next]_vars
  PROVE  ServiceInv'
<1> USE DEF ServiceInv
<1>1. [RepoNext]_repoVars
  BY ServiceStepIsRepoStep
<1>2. /\ process \in [Processes -> {"down", "managed", "unmanaged"}]
      /\ calls \in [Callers -> CallRecord]
  BY DEF CallsTypeOK, CallRecord
<1>3. /\ \A q \in Runs : runs[q].status # "absent" =>
            /\ runs'[q].status # "absent" /\ lineage'[q].from = lineage[q].from
            /\ runs'[q].message = runs[q].message
      /\ \A q \in Runs : runs[q].status = "completed" => runs'[q].status = "completed"
      /\ \A j \in Keys : requestKeys[j] # None => requestKeys'[j] = requestKeys[j]
  BY <1>1, HistoryStep, FinalStep DEF SameIdentity, Terminal
<1>4. ASSUME NEW p \in Processes, Start(p) \/ StartWithoutRedis(p) \/ StartRaises(p)
      PROVE  ServiceInv'
  <2> DEFINE Lost == {c \in Callers : FALSE}
  <2>1. process' \in [Processes -> {"down", "managed", "unmanaged"}] /\ calls' = calls
    BY <1>2, <1>4 DEF Start, StartWithoutRedis, StartRaises
  <2>2. calls' = [c \in Callers |-> IF c \in Lost THEN NoCall ELSE calls[c]]
    BY <1>2, <2>1
  <2>3. QED
    BY <1>1, <2>1, <2>2, RequestsEnd
<1>5. ASSUME NEW p \in Processes, Crash(p)
      PROVE  ServiceInv'
  <2> DEFINE Lost == {c \in Callers : calls[c].proc = p}
  <2>1. process' \in [Processes -> {"down", "managed", "unmanaged"}]
    BY <1>2, <1>5 DEF Crash
  <2>2. calls' = [c \in Callers |-> IF c \in Lost THEN NoCall ELSE calls[c]]
    BY <1>5 DEF Crash
  <2>3. QED
    BY <1>1, <2>1, <2>2, RequestsEnd
<1>6. ASSUME NEW d \in Callers, NEW p \in Processes, NEW named \in Threads \cup {None},
             NEW m \in Messages, NEW k \in Keys \cup {None}, NEW r \in Runs, NEW t \in Threads,
             Admit(d, p, named, m, k, r, t) \/ AdmissionLands(d, p, named, m, k, r, t)
      PROVE  ServiceInv'
  <2> DEFINE new == calls'[d]
             executing == Opened(p, m, k, "agent", r, threads[t].head)
             left == Ended(m, k, r, "server_error")
  <2>1. /\ AdmitRun(r, named, t, m, k) /\ process' = process
        /\ \/ calls' = [calls EXCEPT ![d] = executing]
           \/ calls' = [calls EXCEPT ![d] = left]
    BY <1>6 DEF Admit, AdmissionLands
  <2>2. RunBegins(r, t, m, k)
    BY <2>1, AdmitEffect DEF RepoInv
  <2>3. threads[t].head \in Checkpoints \cup {None}
    BY DEF RepoInv, RepoTypeOK, ThreadRecord
  <2>4. executing \in CallRecord /\ left \in CallRecord
    BY <2>3 DEF Opened, Ended, CallRecord, Replies
  <2>5. /\ runs'[r].status = "in_progress" /\ runs'[r].message = m
        /\ lineage'[r].from = threads[t].head
        /\ k # None => requestKeys'[k] = r
    <3>1. requestKeys \in [Keys -> Runs \cup {None}]
      BY DEF RepoInv, RepoTypeOK
    <3>2. QED
      BY <2>2, <3>1 DEF RunBegins
  <2>6. new \in CallRecord /\ calls' = [calls EXCEPT ![d] = new]
    BY <1>2, <2>1, <2>4
  <2>7. /\ new.run = r /\ new.key = k /\ new.message = m
        /\ new.pc \in {"agent", "done"} /\ new.reply \in {"none", "server_error"}
        /\ new.pc = "agent" => new.from = threads[t].head
    BY <1>2, <2>1 DEF Opened, Ended
  <2>8. RequestOK(d)'
    BY <2>5, <2>7 DEF RequestOK
  <2>9. \A c \in Callers : calls[c].pc = "agent" => calls[c].run # r
    BY <2>2 DEF RunBegins, ExecutorsHoldTheirRun
  <2>10. QED
    BY <1>1, <1>2, <2>1, <2>6, <2>7, <2>8, <2>9, OneRequestMoves
<1>7. ASSUME NEW d \in Callers, NEW p \in Processes, NEW named \in Threads \cup {None},
             NEW m \in Messages, NEW k \in Keys \cup {None},
             Reject(d, p, named, m, k) \/ AdmissionRaises(d, p, named, m, k)
      PROVE  ServiceInv'
  <2>1. PICK reply \in {"server_error", "key_conflict", "thread_not_found", "run_in_progress"} :
           process' = process /\ calls' = [calls EXCEPT ![d] = Ended(m, k, None, reply)]
    BY <1>7 DEF Reject, AdmissionRaises, AdmitOutcome
  <2> DEFINE new == Ended(m, k, None, reply)
  <2>2. new \in CallRecord
    BY DEF Ended, CallRecord, Replies
  <2>3. new.pc = "done" /\ new.run = None /\ new.reply # "completed"
    BY DEF Ended
  <2>4. RequestOK(d)'
    BY <1>2, <2>1, <2>3 DEF RequestOK
  <2>5. QED
    BY <1>1, <1>2, <2>1, <2>2, <2>3, <2>4, OneRequestMoves
<1>8. ASSUME NEW d \in Callers, NEW p \in Processes, NEW named \in Threads \cup {None},
             NEW m \in Messages, NEW k \in Keys \cup {None}, Replay(d, p, named, m, k)
      PROVE  ServiceInv'
  <2> DEFINE r == requestKeys[k]
             new == CASE runs[r].status = "completed"   -> Opened(p, m, k, "replay", r, None)
                      [] runs[r].status = "in_progress" -> Ended(m, k, r, "already_running")
                      [] OTHER                          -> Ended(m, k, r, "persisted_failure")
  <2>1. process' = process /\ calls' = [calls EXCEPT ![d] = new] /\ UNCHANGED repoVars
    BY <1>8 DEF Replay
  <2>2. KnownKey(k) /\ ValidReplay(r, named, m)
    BY <1>8 DEF Replay, AdmitOutcome
  <2>3. k \in Keys /\ r \in Runs /\ r # None
    BY <2>2 DEF KnownKey, RepoInv, RepoTypeOK
  <2>4. runs[r].status # "absent" /\ runs[r].message = m
    BY <2>2, <2>3 DEF ValidReplay, RepoInv, KeysResolveToTheirRun
  <2>5. /\ new \in CallRecord /\ new.pc \in {"replay", "done"}
        /\ new.run = r /\ new.key = k /\ new.message = m /\ new.reply # "completed"
        /\ new.pc = "replay" => runs[r].status = "completed"
    <3>1. CASE runs[r].status = "completed"
      BY <2>3, <3>1 DEF Opened, CallRecord, Replies
    <3>2. CASE runs[r].status = "in_progress"
      BY <2>3, <3>2 DEF Ended, CallRecord, Replies
    <3>3. CASE runs[r].status \notin {"completed", "in_progress"}
      BY <2>3, <3>3 DEF Ended, CallRecord, Replies
    <3>4. QED
      BY <3>1, <3>2, <3>3
  <2>6. calls'[d] = new
    BY <1>2, <2>1
  <2>7. RequestOK(d)'
    BY <2>1, <2>3, <2>4, <2>5, <2>6 DEF RequestOK, repoVars
  <2>8. QED
    BY <1>1, <1>2, <2>1, <2>5, <2>7, OneRequestMoves
<1>9. ASSUME NEW d \in Callers, NEW reply \in Replies,
             calls[d].pc \in {"agent", "replay"}, process' = process,
             calls' = Answered(d, reply),
             reply = "completed" => /\ calls[d].run \in Runs
                                    /\ runs'[calls[d].run].status = "completed"
      PROVE  ServiceInv'
  <2> DEFINE new == Ended(calls[d].message, calls[d].key, calls[d].run, reply)
  <2>1. calls[d] \in CallRecord
    BY <1>2
  <2>2. /\ new \in CallRecord /\ new.pc = "done" /\ new.reply = reply
        /\ new.run = calls[d].run /\ new.key = calls[d].key /\ new.message = calls[d].message
    BY <1>9, <2>1 DEF Ended, CallRecord
  <2>3. calls' = [calls EXCEPT ![d] = new]
    BY <1>9 DEF Answered
  <2>4. calls[d].run \in Runs \cup {None} /\ calls[d].key \in Keys \cup {None}
    BY <2>1 DEF CallRecord
  <2>5. calls[d].key # None /\ calls[d].run # None =>
           /\ requestKeys'[calls[d].key] = calls[d].run
           /\ runs'[calls[d].run].status # "absent"
           /\ runs'[calls[d].run].message = calls[d].message
    BY <1>3, <2>4 DEF KeyedCallsResolve
  <2>6. RequestOK(d)'
    BY <1>2, <1>9, <2>2, <2>3, <2>5 DEF RequestOK
  <2>7. QED
    BY <1>1, <1>2, <1>9, <2>2, <2>3, <2>6, OneRequestMoves
<1>10. ASSUME NEW d \in Callers, ReplayResult(d) \/ ReplayRaises(d) \/ FinalizationRaises(d)
       PROVE  ServiceInv'
  <2>1. CASE ReplayResult(d)
    <3>1. calls[d].run \in Runs /\ runs'[calls[d].run].status = "completed"
      BY <1>3, <2>1 DEF ReplayResult, ResultsAreCompleted
    <3>2. QED
      BY <1>9, <2>1, <3>1 DEF ReplayResult, Replies
  <2>2. CASE ReplayRaises(d) \/ FinalizationRaises(d)
    BY <1>9, <2>2 DEF ReplayRaises, FinalizationRaises, Replies
  <2>3. QED
    BY <1>10, <2>1, <2>2
<1>11. ASSUME NEW d \in Callers, NEW code \in AgentErrors, AgentFails(d, code)
       PROVE  ServiceInv'
  <2>1. \E reply \in {"research_error", "run_conflict"} : calls' = Answered(d, reply)
    BY <1>11 DEF AgentFails
  <2>2. QED
    BY <1>9, <1>11, <2>1 DEF AgentFails, Replies
<1>12. ASSUME NEW d \in Callers, NEW ckpt \in Checkpoints, FreshCheckpoint(ckpt),
              AgentReturns(d, ckpt)
       PROVE  ServiceInv'
  <2>1. calls[d].pc = "agent" /\ process' = process
    BY <1>12 DEF AgentReturns
  <2>2. calls[d].run \in Runs
    BY <2>1 DEF ExecutorsHoldTheirRun
  <2>3. CASE CompleteRun(calls[d].run, calls[d].from, ckpt) /\ calls' = Answered(d, "completed")
    <3>1. runs'[calls[d].run].status = "completed"
      BY <2>2, <2>3, CompleteEffect DEF RunEnds, RepoInv
    <3>2. QED
      BY <1>9, <2>1, <2>2, <2>3, <3>1 DEF Replies
  <2>4. CASE \E reply \in {"run_conflict", "thread_conflict"} : calls' = Answered(d, reply)
    BY <1>9, <2>1, <2>4 DEF Replies
  <2>5. QED
    BY <1>12, <2>3, <2>4 DEF AgentReturns
<1>13. ASSUME UNCHANGED vars
       PROVE  ServiceInv'
  <2> DEFINE Lost == {c \in Callers : FALSE}
  <2>1. calls' = [c \in Callers |-> IF c \in Lost THEN NoCall ELSE calls[c]] /\ process' = process
    BY <1>2, <1>13 DEF vars
  <2>2. QED
    BY <1>1, <1>2, <2>1, RequestsEnd
<1>14. ASSUME NEW p \in Processes, ProcessStep(p)
       PROVE  ServiceInv'
  BY <1>4, <1>5, <1>14 DEF ProcessStep
<1>15. ASSUME NEW c \in Callers, NEW p \in Processes, NEW named \in Threads \cup {None},
              NEW m \in Messages, NEW k \in Keys \cup {None}, RequestStep(c, p, named, m, k)
       PROVE  ServiceInv'
  BY <1>6, <1>7, <1>8, <1>15 DEF RequestStep
<1>16. QED
  <2> HIDE DEF ServiceInv
  <2>1. QED
    BY <1>10, <1>11, <1>12, <1>13, <1>14, <1>15 DEF Next

-----------------------------------------------------------------------------
\* Both invariants hold in every state of the service.
LEMMA ServiceInductive == Spec => [](RepoInv /\ ServiceInv)
<1>1. RepoInv /\ ServiceInv /\ [Next]_vars => (RepoInv /\ ServiceInv)'
  BY ServiceStep, ServiceStepIsRepoStep, InvStep
<1>2. QED
  BY <1>1, ServiceInit, PTL DEF Spec

\* Requests and processes are always in one of their declared states.
THEOREM ServiceTypeCorrect == Spec => []CallsTypeOK
  BY ServiceInductive, PTL DEF ServiceInv

\* No run is executed by two requests at a time.
THEOREM SingleExecutor == Spec => []OneExecutorPerRun
  BY ServiceInductive, PTL DEF ServiceInv

\* research()'s CheckpointConflictError handler is dead code: whatever crashes and
\* recovers, an active run still finds the head it was admitted with.
THEOREM NoCheckpointConflict == Spec => []CheckpointConflictUnreachable
<1>1. RepoInv /\ ServiceInv => CheckpointConflictUnreachable
  BY DEF RepoInv, ServiceInv, ExecutorsHoldTheirRun, HeadStableWhileActive,
         CheckpointConflictUnreachable, RequireActive, HeadMatches
<1>2. QED
  BY <1>1, ServiceInductive, PTL

\* Callers who present the same key are told of the same run, which is theirs.
THEOREM KeyedAgreement == Spec => []KeyedRepliesAgree
<1>1. RepoInv /\ ServiceInv => KeyedRepliesAgree
  BY DEF ServiceInv, KeyedCallsResolve, KeyedRepliesAgree
<1>2. QED
  BY <1>1, ServiceInductive, PTL

\* An answer that was delivered is, and stays, a completed run with a checkpoint.
THEOREM DurableAnswers == Spec => []CompletedReplyIsDurable
<1>1. RepoInv /\ ServiceInv => CompletedReplyIsDurable
  BY DEF RepoInv, ServiceInv, ResultsAreCompleted, HeadIsCommitted, CompletedReplyIsDurable
<1>2. QED
  BY <1>1, ServiceInductive, PTL

\* One caller executes a run, and while the run is active its compare-and-set on
\* the head can only succeed.
THEOREM ExclusiveExecution == Spec => []ExecutionIsExclusive
  BY SingleExecutor, NoCheckpointConflict, PTL DEF ExecutionIsExclusive

\* What callers were told stays true, of their key's run and of its completion.
THEOREM KeptReplies == Spec => []RepliesAreKept
  BY KeyedAgreement, DurableAnswers, PTL DEF RepliesAreKept

-----------------------------------------------------------------------------
\* One request moved: a run that is still in progress was attended by another
\* request before, or is attended by this one now.
LEMMA OthersStillAttend ==
  ASSUME NoStrandedRun, process' = process,
         NEW d \in Callers, \A c \in Callers \ {d} : calls'[c] = calls[c],
         \A q \in Runs : runs'[q].status = "in_progress" =>
            \/ Attends(d, q)'
            \/ runs[q].status = "in_progress" /\ ~Attends(d, q)
  PROVE  NoStrandedRun'
<1> SUFFICES ASSUME NEW q \in Runs, runs'[q].status = "in_progress", ~Attends(d, q)'
             PROVE  (\E c \in Callers : Attends(c, q))' \/ (\E p \in Processes : process[p] # "managed")'
  BY DEF NoStrandedRun, Attended
<1>1. (\E c \in Callers : Attends(c, q)) \/ (\E p \in Processes : process[p] # "managed")
  BY DEF NoStrandedRun, Attended
<1>2. CASE \E p \in Processes : process[p] # "managed"
  BY <1>2
<1>3. CASE \E c \in Callers : Attends(c, q)
  <2>1. PICK c \in Callers : Attends(c, q)
    BY <1>3
  <2>2. calls'[c] = calls[c]
    BY <2>1
  <2>3. QED
    BY <2>1, <2>2 DEF Attends
<1>4. QED
  BY <1>1, <1>2, <1>3

\* No step of the service strands a run.
LEMMA StrandedStep ==
  ASSUME RepoInv, ServiceInv, NoStrandedRun, [Next]_vars
  PROVE  NoStrandedRun'
<1>1. /\ process \in [Processes -> {"down", "managed", "unmanaged"}]
      /\ calls \in [Callers -> CallRecord]
      /\ RepoTypeOK /\ ExecutorsHoldTheirRun
  BY DEF ServiceInv, CallsTypeOK, CallRecord, RepoInv
<1>2. ASSUME NEW p \in Processes, Start(p) \/ StartRaises(p)
      PROVE  NoStrandedRun'
  <2>1. \A q \in Runs : /\ runs[q].status = "in_progress" => runs'[q].status = "error"
                        /\ runs[q].status # "in_progress" => runs'[q] = runs[q]
    BY <1>1, <1>2, RecoverEffect DEF Start, StartRaises
  <2>2. \A q \in Runs : runs'[q].status # "in_progress"
    BY <2>1
  <2>3. QED
    BY <2>2 DEF NoStrandedRun
<1>3. ASSUME NEW p \in Processes, StartWithoutRedis(p) \/ Crash(p)
      PROVE  NoStrandedRun'
  <2>1. process'[p] # "managed"
    BY <1>1, <1>3 DEF StartWithoutRedis, Crash
  <2>2. QED
    BY <2>1 DEF NoStrandedRun
<1>4. ASSUME NEW d \in Callers, NEW p \in Processes, NEW named \in Threads \cup {None},
             NEW m \in Messages, NEW k \in Keys \cup {None}, NEW r \in Runs, NEW t \in Threads,
             Admit(d, p, named, m, k, r, t) \/ AdmissionLands(d, p, named, m, k, r, t)
      PROVE  NoStrandedRun'
  <2>1. process' = process /\ \A c \in Callers \ {d} : calls'[c] = calls[c]
    BY <1>1, <1>4 DEF Admit, AdmissionLands
  <2>2. \A q \in Runs : ~Attends(d, q)
    BY <1>4 DEF Admit, AdmissionLands, Request, Attends
  <2>3. Attends(d, r)'
    BY <1>1, <1>4 DEF Admit, AdmissionLands, Opened, Ended, Attends
  <2>4. \A q \in Runs \ {r} : runs'[q] = runs[q]
    BY <1>1, <1>4 DEF Admit, AdmissionLands, AdmitRun, RepoTypeOK
  <2>5. QED
    BY <2>1, <2>2, <2>3, <2>4, OthersStillAttend
<1>5. ASSUME NEW d \in Callers, NEW p \in Processes, NEW named \in Threads \cup {None},
             NEW m \in Messages, NEW k \in Keys \cup {None},
             \/ AdmissionRaises(d, p, named, m, k)
             \/ Reject(d, p, named, m, k)
             \/ Replay(d, p, named, m, k)
      PROVE  NoStrandedRun'
  <2>1. /\ process' = process /\ runs' = runs
        /\ \A c \in Callers \ {d} : calls'[c] = calls[c]
    BY <1>1, <1>5 DEF AdmissionRaises, Reject, Replay, repoVars
  <2>2. \A q \in Runs : ~Attends(d, q)
    BY <1>5 DEF AdmissionRaises, Reject, Replay, Request, Attends
  <2>3. QED
    BY <2>1, <2>2, OthersStillAttend
<1>6. ASSUME NEW d \in Callers, ReplayResult(d) \/ ReplayRaises(d)
      PROVE  NoStrandedRun'
  <2>1. /\ process' = process /\ runs' = runs
        /\ \A c \in Callers \ {d} : calls'[c] = calls[c]
    BY <1>1, <1>6 DEF ReplayResult, ReplayRaises, Answered, repoVars
  <2>2. \A q \in Runs : ~Attends(d, q)
    BY <1>6 DEF ReplayResult, ReplayRaises, Attends
  <2>3. QED
    BY <2>1, <2>2, OthersStillAttend
<1>7. ASSUME NEW d \in Callers, FinalizationRaises(d)
      PROVE  NoStrandedRun'
  <2>1. process' = process /\ \A c \in Callers \ {d} : calls'[c] = calls[c]
    BY <1>1, <1>7 DEF FinalizationRaises, Answered
  <2>2. /\ calls'[d].pc = "done" /\ calls'[d].reply = "server_error"
        /\ calls'[d].run = calls[d].run
    BY <1>1, <1>7 DEF FinalizationRaises, Answered, Ended
  <2>3. \A q \in Runs : Attends(d, q) => Attends(d, q)'
    BY <2>2 DEF Attends
  <2>4. \A q \in Runs : runs'[q].status = "in_progress" => runs[q].status = "in_progress"
    <3>1. CASE UNCHANGED repoVars
      BY <3>1 DEF repoVars
    <3>2. CASE \E code \in ErrorCodes : FailRun(calls[d].run, code)
      BY <1>1, <3>2 DEF FailRun, RequireActive, RepoTypeOK, RunRecord
    <3>3. CASE \E ckpt \in Checkpoints : CompleteRun(calls[d].run, calls[d].from, ckpt)
      BY <1>1, <3>3 DEF CompleteRun, RequireActive, RepoTypeOK, RunRecord
    <3>4. QED
      BY <1>7, <3>1, <3>2, <3>3, ServiceAssumption DEF FinalizationRaises, FinalizationLands
  <2>5. QED
    BY <2>1, <2>3, <2>4, OthersStillAttend
<1>8. ASSUME NEW d \in Callers, NEW code \in AgentErrors, AgentFails(d, code)
      PROVE  NoStrandedRun'
  <2>1. process' = process /\ \A c \in Callers \ {d} : calls'[c] = calls[c]
    BY <1>1, <1>8 DEF AgentFails, Answered
  <2>2. \A q \in Runs : Attends(d, q) => q = calls[d].run
    BY DEF Attends
  <2>3. FailRun(calls[d].run, code) \/ (~RequireActive(calls[d].run) /\ UNCHANGED repoVars)
    BY <1>8 DEF AgentFails
  <2>4. /\ runs'[calls[d].run].status # "in_progress"
        /\ \A q \in Runs : runs'[q].status = "in_progress" => runs[q].status = "in_progress"
    <3>1. calls[d].run \in Runs
      BY <1>1, <1>8 DEF AgentFails, ExecutorsHoldTheirRun
    <3>2. CASE FailRun(calls[d].run, code)
      BY <1>1, <3>1, <3>2 DEF FailRun, RepoTypeOK, RunRecord
    <3>3. CASE ~RequireActive(calls[d].run) /\ UNCHANGED repoVars
      BY <3>3 DEF RequireActive, repoVars
    <3>4. QED
      BY <2>3, <3>2, <3>3
  <2>5. QED
    BY <2>1, <2>2, <2>4, OthersStillAttend
<1>9. ASSUME NEW d \in Callers, NEW ckpt \in Checkpoints, AgentReturns(d, ckpt)
      PROVE  NoStrandedRun'
  <2>1. process' = process /\ \A c \in Callers \ {d} : calls'[c] = calls[c]
    BY <1>1, <1>9 DEF AgentReturns, Answered
  <2>2. \A q \in Runs : Attends(d, q) => q = calls[d].run
    BY DEF Attends
  <2>3. \/ CompleteRun(calls[d].run, calls[d].from, ckpt)
        \/ FailRun(calls[d].run, "thread_conflict")
        \/ ~RequireActive(calls[d].run) /\ UNCHANGED repoVars
    BY <1>9 DEF AgentReturns
  <2>4. /\ runs'[calls[d].run].status # "in_progress"
        /\ \A q \in Runs : runs'[q].status = "in_progress" => runs[q].status = "in_progress"
    <3>1. calls[d].run \in Runs
      BY <1>1, <1>9 DEF AgentReturns, ExecutorsHoldTheirRun
    <3>2. CASE CompleteRun(calls[d].run, calls[d].from, ckpt)
      BY <1>1, <3>1, <3>2 DEF CompleteRun, RepoTypeOK, RunRecord
    <3>3. CASE FailRun(calls[d].run, "thread_conflict")
      BY <1>1, <3>1, <3>3 DEF FailRun, RepoTypeOK, RunRecord
    <3>4. CASE ~RequireActive(calls[d].run) /\ UNCHANGED repoVars
      BY <3>4 DEF RequireActive, repoVars
    <3>5. QED
      BY <2>3, <3>2, <3>3, <3>4
  <2>5. QED
    BY <2>1, <2>2, <2>4, OthersStillAttend
<1>10. ASSUME UNCHANGED vars
       PROVE  NoStrandedRun'
  BY <1>10 DEF vars, repoVars, NoStrandedRun, Attended, Attends
<1>11. ASSUME NEW p \in Processes, ProcessStep(p)
       PROVE  NoStrandedRun'
  BY <1>2, <1>3, <1>11 DEF ProcessStep
<1>12. ASSUME NEW c \in Callers, NEW p \in Processes, NEW named \in Threads \cup {None},
              NEW m \in Messages, NEW k \in Keys \cup {None}, RequestStep(c, p, named, m, k)
       PROVE  NoStrandedRun'
  BY <1>4, <1>5, <1>12 DEF RequestStep
<1>13. QED
  BY <1>6, <1>7, <1>8, <1>9, <1>10, <1>11, <1>12 DEF Next

\* With every process up under a run manager, no run is left to nobody: a request
\* executes it, or ended in a server error that said its fate is unknown.
THEOREM NobodyStranded == Spec => []NoStrandedRun
<1>1. Init => NoStrandedRun
  BY DEF Init, RepoInit, NoRun, NoStrandedRun
<1>2. (RepoInv /\ ServiceInv) /\ NoStrandedRun /\ [Next]_vars => NoStrandedRun'
  BY StrandedStep
<1>3. QED
  BY <1>1, <1>2, ServiceInductive, PTL DEF Spec
=============================================================================
