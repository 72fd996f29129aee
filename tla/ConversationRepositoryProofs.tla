-------------------- MODULE ConversationRepositoryProofs --------------------
(***************************************************************************)
(* Proofs about ConversationRepository, for every choice of its constants. *)
(*                                                                         *)
(* Effects: what each operation does to the tables, record by record.      *)
(* RepoInv: the safety invariants the runs check, strengthened by three    *)
(* facts about lineage so that every operation preserves the conjunction.  *)
(* Its theorems follow.                                                    *)
(*                                                                         *)
(* The second half is about PostgresTransactions, the same operations as   *)
(* transactions of any number of sessions.  CallOK says what a transaction *)
(* may rely on after each of its statements: the rows it holds are still   *)
(* what it read.  TxInv adds that no row is held twice, and RepoInv.  A    *)
(* statement changes one transaction and no table (LocalStep); a commit    *)
(* changes only rows its transaction holds (CommitStep), so every other    *)
(* transaction finds what it relies on unchanged.                          *)
(***************************************************************************)
EXTENDS PostgresTransactions, TLAPS

Lineage == [from : Checkpoints \cup {None}, to : Checkpoints \cup {None}]

\* The run a request key was used with keeps everything but its outcome.
SameIdentity(r) ==
    /\ runs'[r].thread = runs[r].thread
    /\ runs'[r].turn = runs[r].turn
    /\ runs'[r].key = runs[r].key
    /\ runs'[r].message = runs[r].message

\* Run r begins in thread t, which has no active run, with message m and key k.
RunBegins(r, t, m, k) ==
    /\ runs[r].status = "absent"
    /\ runs'[r] = [status |-> "in_progress", thread |-> t, turn |-> threads[t].next,
                   key |-> k, message |-> m, answer |-> "none", error |-> None]
    /\ \A q \in Runs \ {r} : runs'[q] = runs[q]
    /\ ActiveRuns(t) = {}
    /\ \A u \in Threads \ {t} : threads'[u] = threads[u]
    /\ threads'[t].status = "in_progress"
    /\ threads'[t].head = threads[t].head
    /\ threads'[t].next = threads[t].next + 1
    /\ k = None => requestKeys' = requestKeys
    /\ k # None => requestKeys[k] = None /\ requestKeys' = [requestKeys EXCEPT ![k] = r]
    /\ lineage'[r].from = threads[t].head /\ lineage'[r].to = lineage[r].to
    /\ \A q \in Runs \ {r} : lineage'[q] = lineage[q]

\* Active run r ends with status s and nothing else about the runs changes.
RunEnds(r, s) ==
    /\ runs[r].status = "in_progress"
    /\ runs'[r].status = s
    /\ SameIdentity(r)
    /\ \A q \in Runs \ {r} : runs'[q] = runs[q]
    /\ \A u \in Threads :
          /\ threads'[u].next = threads[u].next
          /\ threads'[u].status = IF u = runs[r].thread THEN s ELSE threads[u].status
    /\ requestKeys' = requestKeys

HeadsKept == /\ \A u \in Threads : threads'[u].head = threads[u].head
             /\ lineage' = lineage

-----------------------------------------------------------------------------
\* The initial tables are well typed.
LEMMA TypeInit == RepoInit => RepoTypeOK
  BY DEF RepoInit, RepoTypeOK, NoThread, NoRun, ThreadRecord, RunRecord, RunStatus,
         Terminal, Answer

\* fail_run ends a run with status "error".
LEMMA FailEffect ==
  ASSUME RepoTypeOK, NEW r \in Runs, NEW code \in ErrorCodes, FailRun(r, code)
  PROVE  /\ RepoTypeOK'
         /\ RunEnds(r, "error") /\ HeadsKept
         /\ runs'[r].error = code /\ runs'[r].answer = runs[r].answer
<1> DEFINE home == runs[r].thread
<1>1. /\ runs[r].status = "in_progress"
      /\ runs' = [runs EXCEPT ![r].status = "error", ![r].error = code]
      /\ threads' = [threads EXCEPT ![home].status = "error"]
      /\ requestKeys' = requestKeys /\ lineage' = lineage
  BY DEF FailRun, RequireActive
<1>2. /\ threads \in [Threads -> ThreadRecord]
      /\ runs \in [Runs -> RunRecord]
  BY DEF RepoTypeOK
<1> HIDE DEF home
<1>3. threads' \in [Threads -> ThreadRecord]
  BY <1>1, <1>2 DEF ThreadRecord, RunStatus, Terminal
<1>4. runs' \in [Runs -> RunRecord]
  <2>1. \A q \in Runs \ {r} : runs'[q] = runs[q]
    BY <1>1, <1>2
  <2>2. runs'[r] \in RunRecord
    BY <1>1, <1>2 DEF RunRecord, RunStatus, Terminal
  <2>3. QED
    BY <1>1, <1>2, <2>1, <2>2
<1>5. \A u \in Threads : /\ threads'[u].head = threads[u].head
                         /\ threads'[u].next = threads[u].next
                         /\ threads'[u].status = IF u = home THEN "error" ELSE threads[u].status
  BY <1>1, <1>2 DEF ThreadRecord
<1>6. /\ runs'[r].status = "error"
      /\ SameIdentity(r)
      /\ runs'[r].error = code /\ runs'[r].answer = runs[r].answer
      /\ \A q \in Runs \ {r} : runs'[q] = runs[q]
  BY <1>1, <1>2 DEF RunRecord, SameIdentity
<1>7. RepoTypeOK'
  BY <1>1, <1>3, <1>4 DEF RepoTypeOK
<1>8. QED
  BY <1>1, <1>5, <1>6, <1>7 DEF RunEnds, HeadsKept, home

\* cancel_run ends a run with status "cancelled".
LEMMA CancelEffect ==
  ASSUME RepoTypeOK, NEW r \in Runs, NEW partial \in {"none", "partial"}, CancelRun(r, partial)
  PROVE  /\ RepoTypeOK'
         /\ RunEnds(r, "cancelled") /\ HeadsKept
         /\ runs'[r].error = "cancelled" /\ runs'[r].answer = partial
<1> DEFINE home == runs[r].thread
<1>1. /\ runs[r].status = "in_progress"
      /\ runs' = [runs EXCEPT ![r].status = "cancelled", ![r].answer = partial,
                              ![r].error = "cancelled"]
      /\ threads' = [threads EXCEPT ![home].status = "cancelled"]
      /\ requestKeys' = requestKeys /\ lineage' = lineage
  BY DEF CancelRun, RequireActive
<1>2. /\ threads \in [Threads -> ThreadRecord]
      /\ runs \in [Runs -> RunRecord]
  BY DEF RepoTypeOK
<1> HIDE DEF home
<1>3. threads' \in [Threads -> ThreadRecord]
  BY <1>1, <1>2 DEF ThreadRecord, RunStatus, Terminal
<1>4. runs' \in [Runs -> RunRecord]
  <2>1. \A q \in Runs \ {r} : runs'[q] = runs[q]
    BY <1>1, <1>2
  <2>2. runs'[r] \in RunRecord
    BY <1>1, <1>2 DEF RunRecord, RunStatus, Terminal, Answer
  <2>3. QED
    BY <1>1, <1>2, <2>1, <2>2
<1>5. \A u \in Threads :
         /\ threads'[u].head = threads[u].head
         /\ threads'[u].next = threads[u].next
         /\ threads'[u].status = IF u = home THEN "cancelled" ELSE threads[u].status
  BY <1>1, <1>2 DEF ThreadRecord
<1>6. /\ runs'[r].status = "cancelled"
      /\ SameIdentity(r)
      /\ runs'[r].error = "cancelled" /\ runs'[r].answer = partial
      /\ \A q \in Runs \ {r} : runs'[q] = runs[q]
  BY <1>1, <1>2 DEF RunRecord, SameIdentity
<1>7. RepoTypeOK'
  BY <1>1, <1>3, <1>4 DEF RepoTypeOK
<1>8. QED
  BY <1>1, <1>5, <1>6, <1>7 DEF RunEnds, HeadsKept, home

\* complete_run ends a run with status "completed" and moves its thread's head.
LEMMA CompleteEffect ==
  ASSUME RepoTypeOK, NEW r \in Runs, NEW expected, NEW c \in Checkpoints,
         CompleteRun(r, expected, c)
  PROVE  /\ RepoTypeOK'
         /\ RunEnds(r, "completed")
         /\ runs'[r].error = runs[r].error /\ runs'[r].answer = "final"
         /\ threads[runs[r].thread].head = expected
         /\ \A u \in Threads :
               threads'[u].head = IF u = runs[r].thread THEN c ELSE threads[u].head
         /\ lineage'[r].from = lineage[r].from /\ lineage'[r].to = c
         /\ \A q \in Runs \ {r} : lineage'[q] = lineage[q]
<1> DEFINE home == runs[r].thread
<1>1. /\ runs[r].status = "in_progress"
      /\ threads[home].head = expected
      /\ runs' = [runs EXCEPT ![r].status = "completed", ![r].answer = "final"]
      /\ threads' = [threads EXCEPT ![home].status = "completed", ![home].head = c]
      /\ lineage' = [lineage EXCEPT ![r].to = c]
      /\ requestKeys' = requestKeys
  BY DEF CompleteRun, RequireActive, HeadMatches
<1>2. /\ threads \in [Threads -> ThreadRecord]
      /\ runs \in [Runs -> RunRecord]
      /\ lineage \in [Runs -> Lineage]
  BY DEF RepoTypeOK, Lineage
<1> HIDE DEF home
<1>3. threads' \in [Threads -> ThreadRecord]
  BY <1>1, <1>2 DEF ThreadRecord, RunStatus, Terminal
<1>4. runs' \in [Runs -> RunRecord]
  <2>1. \A q \in Runs \ {r} : runs'[q] = runs[q]
    BY <1>1, <1>2
  <2>2. runs'[r] \in RunRecord
    BY <1>1, <1>2 DEF RunRecord, RunStatus, Terminal, Answer
  <2>3. QED
    BY <1>1, <1>2, <2>1, <2>2
<1>5. \A u \in Threads :
         /\ threads'[u].next = threads[u].next
         /\ threads'[u].status = IF u = home THEN "completed" ELSE threads[u].status
         /\ threads'[u].head = IF u = home THEN c ELSE threads[u].head
  BY <1>1, <1>2 DEF ThreadRecord
<1>6. /\ runs'[r].status = "completed"
      /\ SameIdentity(r)
      /\ runs'[r].error = runs[r].error /\ runs'[r].answer = "final"
      /\ \A q \in Runs \ {r} : runs'[q] = runs[q]
  BY <1>1, <1>2 DEF RunRecord, SameIdentity
<1>7. /\ lineage' \in [Runs -> Lineage]
      /\ lineage'[r].from = lineage[r].from /\ lineage'[r].to = c
      /\ \A q \in Runs \ {r} : lineage'[q] = lineage[q]
  BY <1>1, <1>2 DEF Lineage
<1>8. RepoTypeOK'
  BY <1>1, <1>3, <1>4, <1>7 DEF RepoTypeOK, Lineage
<1>9. QED
  BY <1>1, <1>5, <1>6, <1>7, <1>8 DEF RunEnds, home

\* recover_abandoned_runs ends every active run with status "error".
LEMMA RecoverEffect ==
  ASSUME RepoTypeOK, RecoverAbandonedRuns
  PROVE  /\ RepoTypeOK'
         /\ HeadsKept /\ requestKeys' = requestKeys
         /\ \A q \in Runs : SameIdentity(q) /\ runs'[q].answer = runs[q].answer
         /\ \A q \in Runs : runs[q].status # "in_progress" => runs'[q] = runs[q]
         /\ \A q \in Runs : runs[q].status = "in_progress"
                               => runs'[q].status = "error" /\ runs'[q].error # None
         /\ \A u \in Threads :
               /\ threads'[u].next = threads[u].next
               /\ threads'[u].status = IF ActiveRuns(u) # {} THEN "error" ELSE threads[u].status
<1>1. /\ runs' = [q \in Runs |-> IF runs[q].status = "in_progress"
                                 THEN [runs[q] EXCEPT !.status = "error",
                                                      !.error = "process_interrupted"]
                                 ELSE runs[q]]
      /\ threads' = [u \in Threads |-> IF ActiveRuns(u) # {}
                                       THEN [threads[u] EXCEPT !.status = "error"]
                                       ELSE threads[u]]
      /\ requestKeys' = requestKeys /\ lineage' = lineage
  BY DEF RecoverAbandonedRuns
<1>2. /\ threads \in [Threads -> ThreadRecord]
      /\ runs \in [Runs -> RunRecord]
  BY DEF RepoTypeOK
<1>3. /\ threads' \in [Threads -> ThreadRecord]
      /\ \A u \in Threads :
            /\ threads'[u].head = threads[u].head
            /\ threads'[u].next = threads[u].next
            /\ threads'[u].status = IF ActiveRuns(u) # {} THEN "error" ELSE threads[u].status
  BY <1>1, <1>2 DEF ThreadRecord, RunStatus, Terminal
<1>4. runs' \in [Runs -> RunRecord]
  <2>1. ASSUME NEW x \in RunRecord
        PROVE  [x EXCEPT !.status = "error", !.error = "process_interrupted"] \in RunRecord
    BY CodesAssumption DEF RunRecord, RunStatus, Terminal
  <2>2. QED
    BY <1>1, <1>2, <2>1
<1>5. \A q \in Runs :
         /\ SameIdentity(q) /\ runs'[q].answer = runs[q].answer
         /\ runs[q].status # "in_progress" => runs'[q] = runs[q]
         /\ runs[q].status = "in_progress"
               => runs'[q].status = "error" /\ runs'[q].error = "process_interrupted"
  BY <1>1, <1>2 DEF RunRecord, SameIdentity
<1>6. RepoTypeOK'
  BY <1>1, <1>3, <1>4 DEF RepoTypeOK
<1>7. "process_interrupted" # None
  BY CodesAssumption, NoneAssumption
<1>8. HeadsKept
  BY <1>1, <1>3 DEF HeadsKept
<1>9. QED
  BY <1>1, <1>3, <1>5, <1>6, <1>7, <1>8

\* admit_run creates an active run in a thread that has none.
LEMMA AdmitEffect ==
  ASSUME RepoTypeOK, RunsHaveThreads,
         NEW r \in Runs, NEW named \in Threads \cup {None}, NEW t \in Threads,
         NEW m \in Messages, NEW k \in Keys \cup {None}, AdmitRun(r, named, t, m, k)
  PROVE  RepoTypeOK' /\ RunBegins(r, t, m, k)
<1>1. /\ AdmitOutcome(named, m, k) = "admit"
      /\ IF named = None THEN threads[t].status = "absent" ELSE t = named
      /\ runs[r].status = "absent"
      /\ runs' = [runs EXCEPT ![r] =
                    [status |-> "in_progress", thread |-> t, turn |-> threads[t].next,
                     key |-> k, message |-> m, answer |-> "none", error |-> None]]
      /\ requestKeys' = IF k = None THEN requestKeys ELSE [requestKeys EXCEPT ![k] = r]
      /\ threads' = [threads EXCEPT ![t].status = "in_progress", ![t].next = @ + 1]
      /\ lineage' = [lineage EXCEPT ![r].from = threads[t].head]
  BY DEF AdmitRun
<1>2. /\ threads \in [Threads -> ThreadRecord]
      /\ runs \in [Runs -> RunRecord]
      /\ requestKeys \in [Keys -> Runs \cup {None}]
      /\ lineage \in [Runs -> Lineage]
  BY DEF RepoTypeOK, Lineage
<1>3. threads[t].next \in Nat /\ threads[t].head \in Checkpoints \cup {None}
  BY <1>2 DEF ThreadRecord
<1>4. ~KnownKey(k) /\ (named # None => ActiveRuns(named) = {})
  BY <1>1 DEF AdmitOutcome
<1>5. ActiveRuns(t) = {}
  <2>1. CASE named = None
    BY <1>1, <2>1 DEF RunsHaveThreads, ActiveRuns, RunsOf
  <2>2. CASE named # None
    BY <1>1, <1>4, <2>2
  <2>3. QED
    BY <2>1, <2>2
<1>6. /\ threads' \in [Threads -> ThreadRecord]
      /\ \A u \in Threads \ {t} : threads'[u] = threads[u]
      /\ threads'[t].status = "in_progress"
      /\ threads'[t].head = threads[t].head
      /\ threads'[t].next = threads[t].next + 1
  BY <1>1, <1>2, <1>3 DEF ThreadRecord, RunStatus
<1>7. /\ runs' \in [Runs -> RunRecord]
      /\ runs'[r] = [status |-> "in_progress", thread |-> t, turn |-> threads[t].next,
                     key |-> k, message |-> m, answer |-> "none", error |-> None]
      /\ \A q \in Runs \ {r} : runs'[q] = runs[q]
  BY <1>1, <1>2, <1>3 DEF RunRecord, RunStatus, Answer
<1>8. /\ lineage' \in [Runs -> Lineage]
      /\ lineage'[r].from = threads[t].head /\ lineage'[r].to = lineage[r].to
      /\ \A q \in Runs \ {r} : lineage'[q] = lineage[q]
  BY <1>1, <1>2, <1>3 DEF Lineage
<1>9. /\ requestKeys' \in [Keys -> Runs \cup {None}]
      /\ k = None => requestKeys' = requestKeys
      /\ k # None => requestKeys[k] = None /\ requestKeys' = [requestKeys EXCEPT ![k] = r]
  BY <1>1, <1>2, <1>4 DEF KnownKey
<1>10. RepoTypeOK'
  BY <1>6, <1>7, <1>8, <1>9 DEF RepoTypeOK, Lineage
<1>11. QED
  BY <1>1, <1>5, <1>6, <1>7, <1>8, <1>9, <1>10 DEF RunBegins

-----------------------------------------------------------------------------
\* A run started from nothing or from a checkpoint some run committed.
ParentsAreCommitted ==
    \A r \in Runs : lineage[r].from # None => \E q \in Runs : lineage[q].to = lineage[r].from

\* So is a thread's head.
HeadsAreCommitted ==
    \A t \in Threads : threads[t].head # None => \E q \in Runs : lineage[q].to = threads[t].head

\* No completed run of a thread started from the thread's present head.
HeadIsUnextended ==
    \A r \in Runs : runs[r].status = "completed"
        => lineage[r].from # threads[runs[r].thread].head

\* Turns are numbered from 1.
NextIsPositive == \A t \in Threads : threads[t].next > 0

\* What every operation preserves.
RepoInv ==
    /\ RepoTypeOK /\ RunsHaveThreads
    /\ OneActiveRunPerThread /\ ActiveRunIsNewest
    /\ NextIsPositive /\ TurnsAreDense /\ StatusFollowsNewestTurn
    /\ HeadStableWhileActive /\ HeadIsCommitted
    /\ ParentsAreCommitted /\ HeadsAreCommitted /\ HeadIsUnextended /\ HistoryIsLinear
    /\ KeysResolveToTheirRun /\ LifecycleConstraint

\* The empty tables satisfy the invariant.
LEMMA InvInit == RepoInit => RepoInv
<1> SUFFICES ASSUME RepoInit PROVE RepoInv
  OBVIOUS
<1>1. /\ \A r \in Runs : /\ runs[r].status = "absent" /\ runs[r].answer = "none"
                         /\ runs[r].error = None
                         /\ lineage[r].from = None /\ lineage[r].to = None
      /\ \A t \in Threads : threads[t].head = None /\ threads[t].next = 1
      /\ \A k \in Keys : requestKeys[k] = None
  BY DEF RepoInit, NoRun, NoThread
<1>2. \A t \in Threads : RunsOf(t) = {}
  BY <1>1 DEF RunsOf
<1>3. RepoTypeOK
  BY TypeInit
<1>4. NextIsPositive /\ TurnsAreDense
  BY <1>1, <1>2 DEF NextIsPositive, TurnsAreDense
<1>5. HeadIsCommitted /\ ParentsAreCommitted /\ HeadsAreCommitted
  BY <1>1 DEF HeadIsCommitted, ParentsAreCommitted, HeadsAreCommitted
<1>6. RunsHaveThreads /\ OneActiveRunPerThread /\ ActiveRunIsNewest /\ StatusFollowsNewestTurn
  BY <1>1 DEF RunsHaveThreads, OneActiveRunPerThread, ActiveRunIsNewest, StatusFollowsNewestTurn
<1>7. HeadStableWhileActive /\ HeadIsUnextended /\ HistoryIsLinear
  BY <1>1 DEF HeadStableWhileActive, HeadIsUnextended, HistoryIsLinear
<1>8. KeysResolveToTheirRun /\ LifecycleConstraint
  BY <1>1 DEF KeysResolveToTheirRun, LifecycleConstraint
<1>9. QED
  BY <1>3, <1>4, <1>5, <1>6, <1>7, <1>8 DEF RepoInv

\* An admission preserves the invariant.
LEMMA AdmitKeepsInv ==
  ASSUME RepoInv,
         NEW r \in Runs, NEW named \in Threads \cup {None}, NEW t \in Threads,
         NEW m \in Messages, NEW k \in Keys \cup {None}, AdmitRun(r, named, t, m, k)
  PROVE  RepoInv'
<1> USE DEF RepoInv
<1>1. RepoTypeOK' /\ RunBegins(r, t, m, k)
  BY AdmitEffect
<1>2. /\ RepoTypeOK'
      /\ runs[r].status = "absent"
      /\ runs'[r] = [status |-> "in_progress", thread |-> t, turn |-> threads[t].next,
                     key |-> k, message |-> m, answer |-> "none", error |-> None]
      /\ \A q \in Runs \ {r} : runs'[q] = runs[q]
      /\ ActiveRuns(t) = {}
      /\ \A u \in Threads \ {t} : threads'[u] = threads[u]
      /\ threads'[t].status = "in_progress"
      /\ threads'[t].head = threads[t].head
      /\ threads'[t].next = threads[t].next + 1
      /\ k = None => requestKeys' = requestKeys
      /\ k # None => /\ requestKeys[k] = None
                     /\ requestKeys' = [requestKeys EXCEPT ![k] = r]
      /\ lineage'[r].from = threads[t].head /\ lineage'[r].to = lineage[r].to
      /\ \A q \in Runs \ {r} : lineage'[q] = lineage[q]
  BY <1>1 DEF RunBegins
<1>3. /\ runs'[r].status = "in_progress" /\ runs'[r].thread = t
      /\ runs'[r].turn = threads[t].next /\ runs'[r].key = k
      /\ runs'[r].answer = "none" /\ runs'[r].error = None
  BY <1>2
<1>4. \A u \in Threads : threads[u].next \in Nat
  BY DEF RepoTypeOK, ThreadRecord
<1>5. \A q \in Runs : runs[q].turn \in Nat
  BY DEF RepoTypeOK, RunRecord
<1>6. \A q \in Runs : runs[q].status = "in_progress" => runs[q].thread # t
  BY <1>2 DEF ActiveRuns, RunsOf
<1>7. /\ RunsOf(t)' = RunsOf(t) \cup {r}
      /\ \A u \in Threads \ {t} : RunsOf(u)' = RunsOf(u)
      /\ r \notin RunsOf(t)
  BY <1>2, <1>3 DEF RunsOf
<1>8. \A q \in RunsOf(t) : q \in Runs /\ runs[q].turn \in 1..(threads[t].next - 1)
  BY DEF TurnsAreDense, RunsOf
<1>9. RunsHaveThreads'
  BY <1>2, <1>3 DEF RunsHaveThreads
<1>10. OneActiveRunPerThread'
  BY <1>2, <1>3, <1>6 DEF OneActiveRunPerThread
<1>11. ActiveRunIsNewest'
  BY <1>2, <1>3, <1>4, <1>6 DEF ActiveRunIsNewest, RunsHaveThreads
<1>12. TurnsAreDense'
  <2> SUFFICES ASSUME NEW u \in Threads
               PROVE  /\ \A r1, r2 \in RunsOf(u)' : runs'[r1].turn = runs'[r2].turn => r1 = r2
                      /\ \A q \in RunsOf(u)' : runs'[q].turn \in 1..(threads'[u].next - 1)
                      /\ \A i \in 1..(threads'[u].next - 1) :
                            \E q \in RunsOf(u)' : runs'[q].turn = i
    BY DEF TurnsAreDense
  <2>1. CASE u # t
    <3>1. RunsOf(u)' = RunsOf(u) /\ threads'[u] = threads[u]
      BY <1>2, <1>7, <2>1
    <3>2. \A q \in RunsOf(u) : runs'[q] = runs[q]
      BY <1>2 DEF RunsOf
    <3>3. QED
      BY <3>1, <3>2 DEF TurnsAreDense
  <2>2. CASE u = t
    <3>1. \A q \in RunsOf(t) : runs'[q] = runs[q]
      BY <1>2 DEF RunsOf
    <3>2. threads[t].next \in Nat \ {0}
      BY <1>4 DEF NextIsPositive
    <3>3. \A r1, r2 \in RunsOf(u)' : runs'[r1].turn = runs'[r2].turn => r1 = r2
      BY <1>3, <1>4, <1>7, <1>8, <2>2, <3>1 DEF TurnsAreDense
    <3>4. \A q \in RunsOf(u)' : runs'[q].turn \in 1..(threads'[u].next - 1)
      BY <1>2, <1>3, <1>7, <1>8, <2>2, <3>1, <3>2
    <3>5. \A i \in 1..(threads'[u].next - 1) : \E q \in RunsOf(u)' : runs'[q].turn = i
      <4>1. \A i \in 1..(threads[t].next - 1) : \E q \in RunsOf(t) : runs[q].turn = i
        BY DEF TurnsAreDense
      <4>2. SUFFICES ASSUME NEW i \in 1..threads[t].next
                     PROVE  \E q \in RunsOf(t)' : runs'[q].turn = i
        BY <1>2, <2>2, <3>2
      <4>3. CASE i = threads[t].next
        BY <1>3, <1>7, <4>3
      <4>4. CASE i # threads[t].next
        <5>1. i \in 1..(threads[t].next - 1)
          BY <3>2, <4>4
        <5>2. QED
          BY <1>7, <3>1, <4>1, <5>1
      <4>5. QED
        BY <4>3, <4>4
    <3>6. QED
      BY <3>3, <3>4, <3>5
  <2>3. QED
    BY <2>1, <2>2
<1>13. NextIsPositive'
  BY <1>2, <1>4 DEF NextIsPositive
<1>14. StatusFollowsNewestTurn'
  <2>1. \A q \in Runs \ {r} : runs[q].status # "absent" /\ runs[q].thread = t
                                 => runs[q].turn # threads'[t].next - 1
    BY <1>2, <1>4, <1>8 DEF RunsOf
  <2>2. QED
    BY <1>2, <1>3, <1>4, <2>1 DEF StatusFollowsNewestTurn, RunsHaveThreads
<1>15. \A u \in Threads : threads'[u].head = threads[u].head
  BY <1>2
<1>16. HeadStableWhileActive'
  BY <1>2, <1>3, <1>15 DEF HeadStableWhileActive, RunsHaveThreads
<1>17. \A q \in Runs : lineage'[q].to = lineage[q].to
  BY <1>2
<1>18. HeadIsCommitted'
  <2>1. \A u \in Threads : \A q \in RunsOf(u) : q \in RunsOf(u)' /\ runs'[q] = runs[q]
    BY <1>2, <1>7 DEF RunsOf
  <2>2. \A q \in Runs : (runs'[q].status = "completed") <=> (runs[q].status = "completed")
    BY <1>2, <1>3
  <2>3. \A u \in Threads : threads[u].head # None =>
           \E q \in RunsOf(u) : runs[q].status = "completed" /\ lineage[q].to = threads[u].head
    BY DEF HeadIsCommitted
  <2>4. \A u \in Threads : threads'[u].head # None =>
           \E q \in RunsOf(u)' : runs'[q].status = "completed" /\ lineage'[q].to = threads'[u].head
    BY <1>15, <1>17, <2>1, <2>3 DEF RunsOf
  <2>5. QED
    BY <1>17, <2>2, <2>4 DEF HeadIsCommitted
<1>19. ParentsAreCommitted' /\ HeadsAreCommitted'
  BY <1>2, <1>15, <1>17 DEF ParentsAreCommitted, HeadsAreCommitted
<1>20. HeadIsUnextended' /\ HistoryIsLinear'
  BY <1>2, <1>3, <1>15 DEF HeadIsUnextended, HistoryIsLinear, RunsHaveThreads
<1>21. KeysResolveToTheirRun'
  <2>1. CASE k = None
    <3>1. \A j \in Keys : requestKeys[j] \in Runs \cup {None}
      BY DEF RepoTypeOK
    <3>2. \A j \in Keys : requestKeys'[j] # None =>
             runs'[requestKeys'[j]].status # "absent" /\ runs'[requestKeys'[j]].key = j
      BY <1>2, <1>3, <2>1, <3>1 DEF KeysResolveToTheirRun
    <3>3. \A q \in Runs : runs'[q].status # "absent" /\ runs'[q].key # None
                             => requestKeys'[runs'[q].key] = q
      BY <1>2, <1>3, <2>1 DEF KeysResolveToTheirRun
    <3>4. QED
      BY <3>2, <3>3 DEF KeysResolveToTheirRun
  <2>2. CASE k # None
    <3>1. /\ requestKeys'[k] = r
          /\ \A j \in Keys \ {k} : requestKeys'[j] = requestKeys[j]
      BY <1>2, <2>2 DEF RepoTypeOK
    <3>2. \A q \in Runs : runs[q].key \in Keys \cup {None}
      BY DEF RepoTypeOK, RunRecord
    <3>3. \A j \in Keys : requestKeys[j] \in Runs \cup {None}
      BY DEF RepoTypeOK
    <3>4. \A q \in Runs \ {r} : runs[q].status # "absent" => runs[q].key # k
      BY <1>2, <2>2, NoneAssumption DEF KeysResolveToTheirRun
    <3>5. \A j \in Keys : requestKeys'[j] # None =>
             runs'[requestKeys'[j]].status # "absent" /\ runs'[requestKeys'[j]].key = j
      BY <1>2, <1>3, <3>1, <3>3 DEF KeysResolveToTheirRun
    <3>6. \A q \in Runs : runs'[q].status # "absent" /\ runs'[q].key # None
                             => requestKeys'[runs'[q].key] = q
      BY <1>2, <1>3, <3>1, <3>2, <3>4 DEF KeysResolveToTheirRun
    <3>7. QED
      BY <3>5, <3>6 DEF KeysResolveToTheirRun
  <2>3. QED
    BY <2>1, <2>2
<1>22. LifecycleConstraint'
  BY <1>2, <1>3 DEF LifecycleConstraint
<1>23. QED
  BY <1>2, <1>9, <1>10, <1>11, <1>12, <1>14, <1>16, <1>18, <1>19, <1>20, <1>21, <1>22, <1>13

\* Ending a run preserves what the invariant says of turns, keys and statuses.
LEMMA EndKeepsTurns ==
  ASSUME RepoInv, NEW r \in Runs, NEW s \in Terminal, RunEnds(r, s)
  PROVE  /\ RunsHaveThreads' /\ OneActiveRunPerThread' /\ ActiveRunIsNewest'
         /\ NextIsPositive' /\ TurnsAreDense' /\ StatusFollowsNewestTurn'
         /\ KeysResolveToTheirRun'
<1> USE DEF RepoInv
<1>1. /\ runs[r].status = "in_progress" /\ runs'[r].status = s
      /\ SameIdentity(r)
      /\ \A q \in Runs \ {r} : runs'[q] = runs[q]
      /\ \A u \in Threads :
            /\ threads'[u].next = threads[u].next
            /\ threads'[u].status = IF u = runs[r].thread THEN s ELSE threads[u].status
      /\ requestKeys' = requestKeys
  BY DEF RunEnds
<1>2. s # "absent" /\ s # "in_progress"
  BY DEF Terminal
<1>3. \A q \in Runs : /\ SameIdentity(q)
                      /\ runs'[q].status = "absent" <=> runs[q].status = "absent"
                      /\ runs'[q].status = "in_progress" => q # r /\ runs[q].status = "in_progress"
  BY <1>1, <1>2 DEF SameIdentity
<1>4. \A u \in Threads : RunsOf(u)' = RunsOf(u)
  BY <1>3 DEF RunsOf, SameIdentity
<1>5. RunsHaveThreads'
  BY <1>1, <1>2, <1>3 DEF RunsHaveThreads, SameIdentity
<1>6. OneActiveRunPerThread'
  BY <1>3 DEF OneActiveRunPerThread, SameIdentity
<1>7. ActiveRunIsNewest'
  BY <1>1, <1>3 DEF ActiveRunIsNewest, RunsHaveThreads, SameIdentity
<1>8. NextIsPositive' /\ TurnsAreDense'
  <2>1. \A u \in Threads : threads'[u].next = threads[u].next
    BY <1>1
  <2>2. \A q \in Runs : runs'[q].turn = runs[q].turn
    BY <1>3 DEF SameIdentity
  <2>3. \A u \in Threads : \A q \in RunsOf(u) : q \in Runs
    BY DEF RunsOf
  <2>4. QED
    BY <1>4, <2>1, <2>2, <2>3 DEF NextIsPositive, TurnsAreDense
<1>9. StatusFollowsNewestTurn'
  <2> SUFFICES ASSUME NEW q \in Runs, runs'[q].status # "absent",
                      runs'[q].turn = threads'[runs'[q].thread].next - 1
               PROVE  threads'[runs'[q].thread].status = runs'[q].status
    BY DEF StatusFollowsNewestTurn
  <2>1. /\ runs[q].status # "absent" /\ runs[q].thread \in Threads
        /\ runs'[q].thread = runs[q].thread /\ runs'[q].turn = runs[q].turn
        /\ runs[q].turn = threads[runs[q].thread].next - 1
    BY <1>1, <1>3 DEF RunsHaveThreads, SameIdentity
  <2>2. CASE q = r
    BY <1>1, <2>1, <2>2
  <2>3. CASE q # r
    <3>1. runs[q].thread # runs[r].thread
      <4>1. SUFFICES ASSUME runs[q].thread = runs[r].thread
                     PROVE  FALSE
        OBVIOUS
      <4>2. runs[r].turn = threads[runs[r].thread].next - 1
        BY <1>1 DEF ActiveRunIsNewest
      <4>3. q \in RunsOf(runs[r].thread) /\ r \in RunsOf(runs[r].thread)
        BY <1>1, <2>1, <4>1 DEF RunsOf
      <4>4. QED
        BY <2>1, <2>3, <4>1, <4>2, <4>3 DEF TurnsAreDense
    <3>2. QED
      BY <1>1, <2>1, <2>3, <3>1 DEF StatusFollowsNewestTurn
  <2>4. QED
    BY <2>2, <2>3
<1>10. KeysResolveToTheirRun'
  <2>1. \A k \in Keys : requestKeys[k] \in Runs \cup {None}
    BY DEF RepoTypeOK
  <2>2. \A k \in Keys : requestKeys'[k] # None =>
           runs'[requestKeys'[k]].status # "absent" /\ runs'[requestKeys'[k]].key = k
    BY <1>1, <1>3, <2>1 DEF KeysResolveToTheirRun, SameIdentity
  <2>3. \A q \in Runs : runs'[q].status # "absent" /\ runs'[q].key # None
                           => requestKeys'[runs'[q].key] = q
    BY <1>1, <1>3 DEF KeysResolveToTheirRun, SameIdentity
  <2>4. QED
    BY <2>2, <2>3 DEF KeysResolveToTheirRun
<1>11. QED
  BY <1>5, <1>6, <1>7, <1>8, <1>9, <1>10

\* Failing or cancelling a run leaves the committed history as it is.
LEMMA AbandonKeepsInv ==
  ASSUME RepoInv, RepoTypeOK', NEW r \in Runs, NEW s \in {"error", "cancelled"},
         RunEnds(r, s), HeadsKept,
         runs'[r].error # None,
         s = "error" => runs'[r].answer = "none",
         runs'[r].answer # "final"
  PROVE  RepoInv'
<1> USE DEF RepoInv
<1>1. s \in Terminal
  BY DEF Terminal
<1>2. /\ RunsHaveThreads' /\ OneActiveRunPerThread' /\ ActiveRunIsNewest'
      /\ NextIsPositive' /\ TurnsAreDense' /\ StatusFollowsNewestTurn'
      /\ KeysResolveToTheirRun'
  BY <1>1, EndKeepsTurns
<1>3. /\ runs[r].status = "in_progress" /\ runs'[r].status = s
      /\ \A q \in Runs : /\ q # r => runs'[q] = runs[q]
                         /\ runs'[q].thread = runs[q].thread
  BY DEF RunEnds, SameIdentity
<1>4. /\ \A u \in Threads : threads'[u].head = threads[u].head
      /\ lineage' = lineage
  BY DEF HeadsKept
<1>5. \A q \in Runs : (runs'[q].status = "completed") <=> (runs[q].status = "completed")
  BY <1>3
<1>6. HeadStableWhileActive'
  BY <1>3, <1>4 DEF HeadStableWhileActive, RunsHaveThreads
<1>7. HeadIsCommitted'
  <2>1. \A u \in Threads : RunsOf(u)' = RunsOf(u)
    BY <1>3 DEF RunsOf
  <2>2. \A u \in Threads : \A q \in RunsOf(u) : q \in Runs
    BY DEF RunsOf
  <2>3. QED
    BY <1>4, <1>5, <2>1, <2>2 DEF HeadIsCommitted
<1>8. ParentsAreCommitted' /\ HeadsAreCommitted'
  BY <1>4 DEF ParentsAreCommitted, HeadsAreCommitted
<1>9. HeadIsUnextended' /\ HistoryIsLinear'
  BY <1>3, <1>4, <1>5 DEF HeadIsUnextended, HistoryIsLinear, RunsHaveThreads
<1>10. LifecycleConstraint'
  BY <1>3 DEF LifecycleConstraint
<1>11. QED
  BY <1>2, <1>6, <1>7, <1>8, <1>9, <1>10

\* Completing a run with a fresh checkpoint extends the committed history.
LEMMA CompleteKeepsInv ==
  ASSUME RepoInv, NEW r \in Runs, NEW expected \in Checkpoints \cup {None},
         NEW c \in Checkpoints, FreshCheckpoint(c), CompleteRun(r, expected, c)
  PROVE  RepoInv'
<1> USE DEF RepoInv
<1>1. /\ RepoTypeOK'
      /\ RunEnds(r, "completed")
      /\ runs'[r].error = runs[r].error /\ runs'[r].answer = "final"
      /\ \A u \in Threads :
            threads'[u].head = IF u = runs[r].thread THEN c ELSE threads[u].head
      /\ lineage'[r].from = lineage[r].from /\ lineage'[r].to = c
      /\ \A q \in Runs \ {r} : lineage'[q] = lineage[q]
  BY CompleteEffect
<1>2. /\ RunsHaveThreads' /\ OneActiveRunPerThread' /\ ActiveRunIsNewest'
      /\ NextIsPositive' /\ TurnsAreDense' /\ StatusFollowsNewestTurn'
      /\ KeysResolveToTheirRun'
  BY <1>1, EndKeepsTurns DEF Terminal
<1>3. /\ runs[r].status = "in_progress" /\ runs'[r].status = "completed"
      /\ runs[r].thread \in Threads
      /\ \A q \in Runs : /\ q # r => runs'[q] = runs[q]
                         /\ runs'[q].thread = runs[q].thread
  BY <1>1 DEF RunEnds, SameIdentity, RunsHaveThreads
<1>4. c # None
  BY NoneAssumption
<1>5. \A q \in Runs : lineage[q].to # c
  BY DEF FreshCheckpoint
<1>6. \A q \in Runs : lineage[q].from # c
  BY <1>4, <1>5 DEF ParentsAreCommitted
<1>7. lineage[r].to = None
  BY <1>3 DEF HeadIsCommitted
<1>8. lineage[r].from = threads[runs[r].thread].head
  BY <1>3 DEF HeadStableWhileActive
<1>9. \A q \in Runs : lineage'[q].from = lineage[q].from
  BY <1>1
<1>10. \A q \in Runs : lineage[q].to # None => lineage'[q].to = lineage[q].to
  BY <1>1, <1>7
<1>11. HeadStableWhileActive'
  BY <1>1, <1>3, <1>9 DEF HeadStableWhileActive, OneActiveRunPerThread, RunsHaveThreads
<1>12. HeadIsCommitted'
  <2>1. \A u \in Threads : RunsOf(u)' = RunsOf(u)
    BY <1>3 DEF RunsOf
  <2>2. r \in RunsOf(runs[r].thread)
    BY <1>3 DEF RunsOf
  <2>3. \A u \in Threads : threads'[u].head # None =>
           \E q \in RunsOf(u)' : runs'[q].status = "completed" /\ lineage'[q].to = threads'[u].head
    <3> SUFFICES ASSUME NEW u \in Threads, threads'[u].head # None
                 PROVE  \E q \in RunsOf(u) : /\ runs'[q].status = "completed"
                                             /\ lineage'[q].to = threads'[u].head
      BY <2>1
    <3>1. CASE u = runs[r].thread
      BY <1>1, <1>3, <2>2, <3>1
    <3>2. CASE u # runs[r].thread
      <4>1. PICK q \in RunsOf(u) : /\ runs[q].status = "completed"
                                   /\ lineage[q].to = threads[u].head
        BY <1>1, <3>2 DEF HeadIsCommitted
      <4>2. q \in Runs /\ q # r
        BY <1>3, <4>1 DEF RunsOf
      <4>3. QED
        BY <1>1, <1>3, <3>2, <4>1, <4>2
    <3>3. QED
      BY <3>1, <3>2
  <2>4. \A q \in Runs : (lineage'[q].to # None) <=> (runs'[q].status = "completed")
    BY <1>1, <1>3, <1>4 DEF HeadIsCommitted
  <2>5. QED
    BY <2>3, <2>4 DEF HeadIsCommitted
<1>13. ParentsAreCommitted'
  BY <1>9, <1>10 DEF ParentsAreCommitted
<1>14. HeadsAreCommitted'
  BY <1>1, <1>10 DEF HeadsAreCommitted
<1>15. HeadIsUnextended'
  BY <1>1, <1>3, <1>6, <1>9 DEF HeadIsUnextended, RunsHaveThreads
<1>16. HistoryIsLinear'
  BY <1>3, <1>8, <1>9 DEF HistoryIsLinear, HeadIsUnextended
<1>17. LifecycleConstraint'
  BY <1>1, <1>3 DEF LifecycleConstraint
<1>18. QED
  BY <1>1, <1>2, <1>11, <1>12, <1>13, <1>14, <1>15, <1>16, <1>17

\* The active runs S fail together, and nothing else changes.
SomeFail(S) ==
    /\ HeadsKept /\ requestKeys' = requestKeys
    /\ \A q \in Runs : SameIdentity(q) /\ runs'[q].answer = runs[q].answer
    /\ \A q \in Runs \ S : runs'[q] = runs[q]
    /\ \A q \in S : runs'[q].status = "error" /\ runs'[q].error # None
    /\ \A u \in Threads :
          /\ threads'[u].next = threads[u].next
          /\ threads'[u].status = IF \E q \in S : runs[q].thread = u THEN "error"
                                                                    ELSE threads[u].status

\* Any set of active runs may fail at once; the history is left alone.
LEMMA SomeFailKeepsInv ==
  ASSUME RepoInv, RepoTypeOK', NEW S \in SUBSET Runs,
         \A q \in S : runs[q].status = "in_progress", SomeFail(S)
  PROVE  RepoInv'
<1> USE DEF RepoInv, SomeFail
<1>2. \A q \in Runs : /\ runs'[q].thread = runs[q].thread /\ runs'[q].turn = runs[q].turn
                      /\ runs'[q].key = runs[q].key
                      /\ runs'[q].status = "in_progress" => runs[q].status = "in_progress"
                      /\ runs'[q].status = "absent" <=> runs[q].status = "absent"
                      /\ runs'[q].status = "completed" <=> runs[q].status = "completed"
  BY DEF SameIdentity
<1>3. /\ \A u \in Threads : threads'[u].head = threads[u].head /\ threads'[u].next = threads[u].next
      /\ lineage' = lineage
  BY DEF HeadsKept
<1>4. /\ \A u \in Threads : RunsOf(u)' = RunsOf(u)
      /\ \A u \in Threads : \A q \in RunsOf(u) : q \in Runs
  BY <1>2 DEF RunsOf
<1>5. RunsHaveThreads'
  BY <1>2 DEF RunsHaveThreads
<1>6. OneActiveRunPerThread'
  BY <1>2 DEF OneActiveRunPerThread
<1>7. ActiveRunIsNewest' /\ HeadStableWhileActive'
  BY <1>2, <1>3 DEF ActiveRunIsNewest, HeadStableWhileActive, RunsHaveThreads
<1>8. NextIsPositive' /\ TurnsAreDense'
  BY <1>2, <1>3, <1>4 DEF NextIsPositive, TurnsAreDense
<1>9. StatusFollowsNewestTurn'
  <2> SUFFICES ASSUME NEW q \in Runs, runs[q].status # "absent",
                      runs[q].turn = threads[runs[q].thread].next - 1
               PROVE  threads'[runs[q].thread].status = runs'[q].status
    BY <1>2, <1>3 DEF StatusFollowsNewestTurn, RunsHaveThreads
  <2>1. runs[q].thread \in Threads
    BY DEF RunsHaveThreads
  <2>2. CASE q \in S
    BY <2>1, <2>2
  <2>3. CASE q \notin S
    <3>1. ASSUME NEW p \in S, runs[p].thread = runs[q].thread
          PROVE  FALSE
      <4>1. p \in RunsOf(runs[q].thread) /\ q \in RunsOf(runs[q].thread)
        BY <3>1 DEF RunsOf
      <4>2. runs[p].turn = runs[q].turn
        BY <3>1 DEF ActiveRunIsNewest
      <4>3. QED
        BY <2>1, <2>3, <3>1, <4>1, <4>2 DEF TurnsAreDense
    <3>2. QED
      BY <2>1, <2>3, <3>1 DEF StatusFollowsNewestTurn
  <2>4. QED
    BY <2>2, <2>3
<1>10. HeadIsCommitted' /\ ParentsAreCommitted' /\ HeadsAreCommitted'
  BY <1>2, <1>3, <1>4 DEF HeadIsCommitted, ParentsAreCommitted, HeadsAreCommitted
<1>11. HeadIsUnextended' /\ HistoryIsLinear'
  BY <1>2, <1>3 DEF HeadIsUnextended, HistoryIsLinear, RunsHaveThreads
<1>12. KeysResolveToTheirRun'
  <2>1. \A k \in Keys : requestKeys[k] \in Runs \cup {None}
    BY DEF RepoTypeOK
  <2>2. QED
    BY <1>2, <2>1 DEF KeysResolveToTheirRun
<1>13. LifecycleConstraint'
  BY DEF LifecycleConstraint
<1>14. QED
  BY <1>5, <1>6, <1>7, <1>8, <1>9, <1>10, <1>11, <1>12, <1>13

\* Recovery fails every active run at once.
LEMMA RecoverKeepsInv ==
  ASSUME RepoInv, RecoverAbandonedRuns
  PROVE  RepoInv'
<1> DEFINE S == {q \in Runs : runs[q].status = "in_progress"}
<1>1. RepoTypeOK' /\ HeadsKept /\ requestKeys' = requestKeys
  BY RecoverEffect DEF RepoInv
<1>2. \A u \in Threads : ActiveRuns(u) # {} <=> \E q \in S : runs[q].thread = u
  BY DEF ActiveRuns, RunsOf
<1>3. SomeFail(S)
  BY <1>2, RecoverEffect DEF RepoInv, SomeFail
<1>4. QED
  BY <1>1, <1>3, SomeFailKeepsInv

\* Every step of the repository preserves the invariant.
LEMMA InvStep == RepoInv /\ [RepoNext]_repoVars => RepoInv'
<1> SUFFICES ASSUME RepoInv, [RepoNext]_repoVars
             PROVE  RepoInv'
  OBVIOUS
<1>1. ASSUME NEW r \in Runs, NEW named \in Threads \cup {None}, NEW t \in Threads,
             NEW m \in Messages, NEW k \in Keys \cup {None}, AdmitRun(r, named, t, m, k)
      PROVE  RepoInv'
  BY <1>1, AdmitKeepsInv
<1>2. ASSUME NEW r \in Runs, NEW expected \in Checkpoints \cup {None},
             NEW c \in Checkpoints, FreshCheckpoint(c), CompleteRun(r, expected, c)
      PROVE  RepoInv'
  BY <1>2, CompleteKeepsInv
<1>3. ASSUME NEW r \in Runs, NEW code \in ErrorCodes, FailRun(r, code)
      PROVE  RepoInv'
  <2>1. /\ RepoTypeOK' /\ RunEnds(r, "error") /\ HeadsKept
        /\ runs'[r].error = code /\ runs'[r].answer = runs[r].answer
    BY <1>3, FailEffect DEF RepoInv
  <2>2. code # None
    BY NoneAssumption
  <2>3. runs[r].answer = "none"
    BY <2>1 DEF RepoInv, LifecycleConstraint, RunEnds
  <2>4. QED
    BY <2>1, <2>2, <2>3, AbandonKeepsInv
<1>4. ASSUME NEW r \in Runs, NEW partial \in {"none", "partial"}, CancelRun(r, partial)
      PROVE  RepoInv'
  <2>1. /\ RepoTypeOK' /\ RunEnds(r, "cancelled") /\ HeadsKept
        /\ runs'[r].error = "cancelled" /\ runs'[r].answer = partial
    BY <1>4, CancelEffect DEF RepoInv
  <2>2. QED
    BY <2>1, NoneAssumption, AbandonKeepsInv
<1>5. ASSUME RecoverAbandonedRuns
      PROVE  RepoInv'
  BY <1>5, RecoverKeepsInv
<1>6. ASSUME UNCHANGED repoVars
      PROVE  RepoInv'
  BY <1>6 DEF repoVars, RepoInv, RepoTypeOK, RunsHaveThreads, OneActiveRunPerThread,
              ActiveRunIsNewest, NextIsPositive, TurnsAreDense, StatusFollowsNewestTurn,
              HeadStableWhileActive, HeadIsCommitted, ParentsAreCommitted, HeadsAreCommitted,
              HeadIsUnextended, HistoryIsLinear, KeysResolveToTheirRun, LifecycleConstraint,
              RunsOf, ActiveRuns
<1>7. QED
  BY <1>1, <1>2, <1>3, <1>4, <1>5, <1>6 DEF RepoNext

\* The invariant holds in every state of the repository.
LEMMA Inductive == RepoSpec => []RepoInv
  BY InvInit, InvStep, PTL DEF RepoSpec

-----------------------------------------------------------------------------
\* Type correctness of the repository.
THEOREM RepoTypeCorrect == RepoSpec => []RepoTypeOK
  BY Inductive, PTL DEF RepoInv

\* The index on active runs never rejects anything: admission alone keeps every
\* thread to one active run.
THEOREM OneActiveRun == RepoSpec => []OneActiveRunPerThread
  BY Inductive, PTL DEF RepoInv

\* complete_run's compare-and-set cannot fail for a caller that passes the head
\* its run was admitted with.
THEOREM HeadStable == RepoSpec => []HeadStableWhileActive
  BY Inductive, PTL DEF RepoInv

\* The completed runs of a thread form a chain of checkpoints.
THEOREM LinearHistory == RepoSpec => []HistoryIsLinear
  BY Inductive, PTL DEF RepoInv

\* The head of a thread is a checkpoint that one of its completed runs left.
THEOREM CommittedHead == RepoSpec => []HeadIsCommitted
  BY Inductive, PTL DEF RepoInv

\* Turns are numbered without a gap, and the newest decides the thread's status.
THEOREM TurnNumbering == RepoSpec => [](TurnsAreDense /\ StatusFollowsNewestTurn)
  BY Inductive, PTL DEF RepoInv

\* A request key resolves to the run that was admitted with it.
THEOREM KeyResolution == RepoSpec => []KeysResolveToTheirRun
  BY Inductive, PTL DEF RepoInv

\* Every row satisfies the lifecycle constraint of the database.
THEOREM RowsAreLegal == RepoSpec => []LifecycleConstraint
  BY Inductive, PTL DEF RepoInv

\* One active run per thread, dense turns, and a status that follows the newest.
THEOREM ConsistentThreads == RepoSpec => []ThreadsConsistent
  BY Inductive, PTL DEF RepoInv, ThreadsConsistent

\* The head of a thread is the last link of the chain of its answers, and the
\* point its active run started from.
THEOREM ConsistentHeads == RepoSpec => []HeadsConsistent
  BY Inductive, PTL DEF RepoInv, HeadsConsistent

\* Rows are well typed, legal, and found by the request key they carry.
THEOREM ConsistentRows == RepoSpec => []RowsConsistent
  BY Inductive, PTL DEF RepoInv, RowsConsistent

\* A step of the repository rewrites no terminal run and changes no run's
\* identity.
LEMMA FinalStep ==
  ASSUME RepoInv, [RepoNext]_repoVars, NEW q \in Runs
  PROVE  /\ runs[q].status \in Terminal => runs'[q] = runs[q]
         /\ runs[q].status # "absent" => SameIdentity(q)
<1> USE DEF RepoInv, Terminal
<1>1. ASSUME NEW r \in Runs, NEW s, RunEnds(r, s)
      PROVE  /\ runs[q].status \in Terminal => runs'[q] = runs[q]
             /\ SameIdentity(q)
  BY <1>1 DEF RunEnds, SameIdentity
<1>2. ASSUME NEW r \in Runs, NEW named \in Threads \cup {None}, NEW t \in Threads,
             NEW m \in Messages, NEW k \in Keys \cup {None}, AdmitRun(r, named, t, m, k)
      PROVE  runs[q].status # "absent" => runs'[q] = runs[q]
  <2>1. RunBegins(r, t, m, k)
    BY <1>2, AdmitEffect
  <2>2. QED
    BY <2>1 DEF RunBegins
<1>3. ASSUME NEW r \in Runs, NEW expected \in Checkpoints \cup {None},
             NEW c \in Checkpoints, CompleteRun(r, expected, c)
      PROVE  RunEnds(r, "completed")
  BY <1>3, CompleteEffect
<1>4. ASSUME NEW r \in Runs, NEW code \in ErrorCodes, FailRun(r, code)
      PROVE  RunEnds(r, "error")
  BY <1>4, FailEffect
<1>5. ASSUME NEW r \in Runs, NEW partial \in {"none", "partial"}, CancelRun(r, partial)
      PROVE  RunEnds(r, "cancelled")
  BY <1>5, CancelEffect
<1>6. ASSUME RecoverAbandonedRuns
      PROVE  /\ runs[q].status # "in_progress" => runs'[q] = runs[q]
             /\ SameIdentity(q)
  BY <1>6, RecoverEffect
<1>7. ASSUME UNCHANGED repoVars
      PROVE  runs'[q] = runs[q]
  BY <1>7 DEF repoVars
<1>8. CASE \E r \in Runs, named \in Threads \cup {None}, t \in Threads,
             m \in Messages, k \in Keys \cup {None} : AdmitRun(r, named, t, m, k)
  BY <1>2, <1>8 DEF SameIdentity
<1>9. CASE \E r \in Runs, s \in Terminal : RunEnds(r, s)
  BY <1>1, <1>9
<1>10. CASE RecoverAbandonedRuns \/ UNCHANGED repoVars
  BY <1>6, <1>7, <1>10 DEF SameIdentity
<1>11. QED
  BY <1>3, <1>4, <1>5, <1>8, <1>9, <1>10 DEF RepoNext

\* Terminal runs stay what they are.
THEOREM TerminalFinal == RepoSpec => TerminalRunsAreFinal
<1>1. RepoInv /\ [RepoNext]_repoVars => [KeepsFinishedRuns]_repoVars
  BY FinalStep DEF SameIdentity, KeepsFinishedRuns
<1>2. QED
  BY <1>1, Inductive, PTL DEF RepoSpec, TerminalRunsAreFinal

\* A step that moves a thread's head completes that thread's active run.
LEMMA HeadMoveStep ==
  ASSUME RepoInv, [RepoNext]_repoVars
  PROVE  HeadMovesWithCompletion
<1> USE DEF RepoInv
<1>1. ASSUME NEW r \in Runs, NEW named \in Threads \cup {None}, NEW t \in Threads,
             NEW m \in Messages, NEW k \in Keys \cup {None}, AdmitRun(r, named, t, m, k)
      PROVE  \A u \in Threads : threads'[u].head = threads[u].head
  BY <1>1, AdmitEffect DEF RunBegins
<1>2. ASSUME NEW r \in Runs, NEW expected \in Checkpoints \cup {None},
             NEW c \in Checkpoints, CompleteRun(r, expected, c)
      PROVE  HeadMovesWithCompletion
  <2>1. /\ runs[r].status = "in_progress" /\ runs'[r].status = "completed"
        /\ lineage'[r].to = c
        /\ \A u \in Threads :
              threads'[u].head = IF u = runs[r].thread THEN c ELSE threads[u].head
    BY <1>2, CompleteEffect DEF RunEnds
  <2>2. QED
    BY <2>1 DEF HeadMovesWithCompletion
<1>3. ASSUME NEW r \in Runs, NEW code \in ErrorCodes, FailRun(r, code)
      PROVE  \A u \in Threads : threads'[u].head = threads[u].head
  BY <1>3, FailEffect DEF HeadsKept
<1>4. ASSUME NEW r \in Runs, NEW partial \in {"none", "partial"}, CancelRun(r, partial)
      PROVE  \A u \in Threads : threads'[u].head = threads[u].head
  BY <1>4, CancelEffect DEF HeadsKept
<1>5. ASSUME RecoverAbandonedRuns
      PROVE  \A u \in Threads : threads'[u].head = threads[u].head
  BY <1>5, RecoverEffect DEF HeadsKept
<1>6. ASSUME UNCHANGED repoVars
      PROVE  \A u \in Threads : threads'[u].head = threads[u].head
  BY <1>6 DEF repoVars
<1>7. ASSUME \A u \in Threads : threads'[u].head = threads[u].head
      PROVE  HeadMovesWithCompletion
  BY <1>7 DEF HeadMovesWithCompletion
<1>8. QED
  BY <1>1, <1>2, <1>3, <1>4, <1>5, <1>6, <1>7 DEF RepoNext

\* History is only extended: finished runs stay what they are, and a head moves
\* only to the answer of the run that completes.
THEOREM HistoryKept == RepoSpec => HistoryIsKept
<1>1. RepoInv /\ [RepoNext]_repoVars
        => [KeepsFinishedRuns /\ HeadMovesWithCompletion]_repoVars
  BY FinalStep, HeadMoveStep DEF SameIdentity, KeepsFinishedRuns
<1>2. QED
  BY <1>1, Inductive, PTL DEF RepoSpec, HistoryIsKept

\* What outlives every step: a run that exists keeps its starting checkpoint and
\* goes on existing, and a request key that is in use keeps its run.
LEMMA HistoryStep ==
  ASSUME RepoInv, [RepoNext]_repoVars
  PROVE  /\ \A q \in Runs : runs[q].status # "absent"
                               => runs'[q].status # "absent" /\ lineage'[q].from = lineage[q].from
         /\ \A j \in Keys : requestKeys[j] # None => requestKeys'[j] = requestKeys[j]
<1> USE DEF RepoInv
<1> DEFINE Outlives ==
             /\ \A q \in Runs : runs[q].status # "absent" =>
                   /\ runs'[q].status # "absent"
                   /\ lineage'[q].from = lineage[q].from
             /\ \A j \in Keys : requestKeys[j] # None => requestKeys'[j] = requestKeys[j]
<1>1. ASSUME NEW r \in Runs, NEW named \in Threads \cup {None}, NEW t \in Threads,
             NEW m \in Messages, NEW k \in Keys \cup {None}, AdmitRun(r, named, t, m, k)
      PROVE  Outlives
  <2>1. RunBegins(r, t, m, k)
    BY <1>1, AdmitEffect
  <2>2. requestKeys \in [Keys -> Runs \cup {None}]
    BY DEF RepoTypeOK
  <2>3. \A j \in Keys : requestKeys[j] # None => requestKeys'[j] = requestKeys[j]
    BY <2>1, <2>2 DEF RunBegins
  <2>4. \A q \in Runs : runs[q].status # "absent" =>
           runs'[q].status # "absent" /\ lineage'[q].from = lineage[q].from
    BY <2>1 DEF RunBegins
  <2>5. QED
    BY <2>3, <2>4
<1>2. ASSUME NEW r \in Runs, NEW s \in Terminal, RunEnds(r, s),
             \A q \in Runs : lineage'[q].from = lineage[q].from
      PROVE  Outlives
  BY <1>2 DEF RunEnds, Terminal
<1>3. ASSUME NEW r \in Runs, NEW expected \in Checkpoints \cup {None},
             NEW c \in Checkpoints, CompleteRun(r, expected, c)
      PROVE  Outlives
  <2>1. RunEnds(r, "completed") /\ \A q \in Runs : lineage'[q].from = lineage[q].from
    BY <1>3, CompleteEffect
  <2>2. QED
    BY <1>2, <2>1 DEF Terminal
<1>4. ASSUME NEW r \in Runs, NEW code \in ErrorCodes, FailRun(r, code)
      PROVE  Outlives
  BY <1>2, <1>4, FailEffect DEF Terminal, HeadsKept
<1>5. ASSUME NEW r \in Runs, NEW partial \in {"none", "partial"}, CancelRun(r, partial)
      PROVE  Outlives
  BY <1>2, <1>5, CancelEffect DEF Terminal, HeadsKept
<1>6. ASSUME RecoverAbandonedRuns
      PROVE  Outlives
  BY <1>6, RecoverEffect DEF HeadsKept
<1>7. ASSUME UNCHANGED repoVars
      PROVE  Outlives
  BY <1>7 DEF repoVars
<1>8. QED
  BY <1>1, <1>3, <1>4, <1>5, <1>6, <1>7 DEF RepoNext

-----------------------------------------------------------------------------
Pcs == {"idle", "thread", "active", "insert", "resolve", "run", "commit", "done"}

Txn == [op : {"none", "admit", "recover"} \cup Finalizers, pc : Pcs,
        named : Threads \cup {None}, message : Messages \cup {None},
        key : Keys \cup {None}, run : Runs \cup {None}, thread : Threads \cup {None},
        turn : Nat, head : Checkpoints \cup {None}, todo : SUBSET Runs, seen : SUBSET Runs,
        holds : SUBSET (Threads \cup Runs \cup Keys), reply : TxReplies]

\* A transaction that ended holds nothing; a replay it told of is the caller's.
EndedOK(c) ==
    /\ c.op = "none" /\ c.holds = {}
    /\ c.reply \in {"none", "replay"}
    /\ c.reply = "replay" =>
          /\ c.run \in Runs /\ c.key \in Keys
          /\ runs[c.run].status # "absent"
          /\ runs[c.run].message = c.message /\ runs[c.run].key = c.key
          /\ c.named # None => runs[c.run].thread = c.named
          /\ requestKeys[c.key] = c.run

\* The admission holds its thread, which is as it was read.
ThreadHeld(c) ==
    /\ c.thread \in Threads /\ c.thread \in c.holds
    /\ c.turn = threads[c.thread].next /\ c.head = threads[c.thread].head
    /\ IF c.named = None THEN threads[c.thread].status = "absent"
       ELSE c.thread = c.named /\ threads[c.thread].status # "absent"

AdmitOK(c) ==
    /\ c.message \in Messages
    /\ c.pc \in {"thread", "active", "insert", "resolve", "commit"}
    /\ c.pc = "thread" => c.holds = {} /\ c.thread = c.named
    /\ c.pc = "resolve" => c.holds = {} /\ KnownKey(c.key)
    /\ c.pc \in {"active", "insert", "commit"} => ThreadHeld(c)
    /\ c.pc \in {"active", "insert"} => c.holds = {c.thread}
    /\ c.pc \in {"insert", "commit"} => ActiveRuns(c.thread) = {}
    /\ c.pc = "commit" =>
          /\ c.run \in Runs /\ runs[c.run].status = "absent"
          /\ ~KnownKey(c.key)
          /\ c.holds = {c.thread, c.run} \cup ({c.key} \ {None})

\* A finalization that has its run's row knows that the run is active.
FinalizeOK(c) ==
    /\ c.pc \in {"run", "thread", "commit"}
    /\ c.run \in Runs /\ runs[c.run].status # "absent"
    /\ c.head = lineage[c.run].from
    /\ c.pc = "run" => c.holds = {}
    /\ c.pc \in {"thread", "commit"} =>
          runs[c.run].status = "in_progress" /\ c.thread = runs[c.run].thread
    /\ c.pc = "thread" => c.holds = {c.run}
    /\ c.pc = "commit" => c.holds = {c.run, c.thread}

\* Every run a recovery saw is still to be visited, held, or over.
VisitedOK(c) ==
    /\ c.todo \subseteq c.seen
    /\ \A r \in c.seen : runs[r].status # "absent"
    /\ c.holds \subseteq Threads \cup Runs
    /\ \A r \in c.holds \cap Runs : runs[r].status = "in_progress"
    /\ c.todo # {} => c.holds \subseteq Runs

RecoverOK(c) ==
    /\ c.pc \in {"run", "thread", "commit"}
    /\ VisitedOK(c)
    /\ c.pc = "run" => c.run \in c.seen /\ c.holds \subseteq Runs
    /\ \A r \in c.seen : RequireActive(r) =>
          r \in c.holds \/ (c.pc = "run" /\ r \in c.todo \cup {c.run})
    /\ c.pc \in {"thread", "commit"} => c.todo = {}
    /\ c.pc = "thread" => c.thread \in Threads
    /\ c.pc = "commit" => \A r \in c.holds \cap Runs : runs[r].thread \in c.holds

CallOK(c) ==
    /\ c.pc \in {"idle", "done"} => EndedOK(c)
    /\ c.pc \notin {"idle", "done"} => c.op # "none" /\ c.reply = "none"
    /\ c.op = "admit" => AdmitOK(c)
    /\ c.op \in Finalizers => FinalizeOK(c)
    /\ c.op = "recover" => RecoverOK(c)

HeldOnce == \A s, u \in Sessions : s # u => txn[s].holds \cap txn[u].holds = {}

TxInv ==
    /\ RepoInv
    /\ txn \in [Sessions -> Txn]
    /\ HeldOnce
    /\ \A s \in Sessions : CallOK(txn[s])

-----------------------------------------------------------------------------
\* A statement of session s leaves the tables alone and makes its transaction c.
LEMMA LocalStep ==
  ASSUME TxInv, NEW s \in Sessions, NEW c \in Txn, CallOK(c),
         \A u \in Sessions \ {s} : c.holds \cap txn[u].holds = {},
         UNCHANGED repoVars, txn' = [txn EXCEPT ![s] = c]
  PROVE  TxInv'
<1>1. RepoInv'
  BY InvStep DEF TxInv
<1>2. txn' \in [Sessions -> Txn]
  BY DEF TxInv
<1>3. \A u \in Sessions : txn'[u] = IF u = s THEN c ELSE txn[u]
  BY DEF TxInv
<1>4. HeldOnce'
  BY <1>3 DEF TxInv, HeldOnce
<1>5. \A u \in Sessions : CallOK(txn[u])'
  <2> SUFFICES ASSUME NEW u \in Sessions PROVE CallOK(txn[u])'
    OBVIOUS
  <2> DEFINE d == IF u = s THEN c ELSE txn[u]
  <2>1. CallOK(d)
    BY DEF TxInv
  <2>2. txn'[u] = d
    BY <1>3
  <2>3. QED
    BY <2>1, <2>2 DEF repoVars, CallOK, EndedOK, AdmitOK, ThreadHeld, FinalizeOK, RecoverOK,
              VisitedOK, KnownKey, ActiveRuns, RunsOf, RequireActive
<1>6. QED
  BY <1>1, <1>2, <1>4, <1>5 DEF TxInv

\* What no step of the repository undoes.
HistoryGrows ==
    /\ \A q \in Runs : runs[q].status # "absent" =>
          /\ runs'[q].status # "absent" /\ SameIdentity(q)
          /\ lineage'[q].from = lineage[q].from
          /\ runs[q].status # "in_progress" => runs'[q].status # "in_progress"
    /\ \A k \in Keys : requestKeys[k] # None => requestKeys'[k] = requestKeys[k]

\* The rows outside H are as they were, and no run begins in a thread outside H.
RowsKeptBut(H) ==
    /\ \A t \in Threads \ H : /\ threads'[t] = threads[t]
                              /\ ActiveRuns(t) = {} => ActiveRuns(t)' = {}
    /\ \A r \in Runs \ H : runs'[r] = runs[r]
    /\ \A k \in Keys \ H : requestKeys'[k] = requestKeys[k]

\* What a transaction relies on survives the commit of another one.
LEMMA OthersKeep ==
  ASSUME TxInv, NEW s \in Sessions, NEW u \in Sessions, u # s,
         HistoryGrows, RowsKeptBut(txn[s].holds), txn'[u] = txn[u]
  PROVE  CallOK(txn[u])'
<1> DEFINE c == txn[u]
<1>1. c \in Txn /\ CallOK(c)
  BY DEF TxInv
<1>2. c.holds \cap txn[s].holds = {}
  BY DEF TxInv, HeldOnce
<1>3. /\ \A t \in c.holds \cap Threads : /\ threads'[t] = threads[t]
                                         /\ ActiveRuns(t) = {} => ActiveRuns(t)' = {}
      /\ \A r \in c.holds \cap Runs : runs'[r] = runs[r]
      /\ \A k \in c.holds \cap Keys : requestKeys'[k] = requestKeys[k]
  BY <1>2 DEF RowsKeptBut
<1>4. c.op \in {"none", "admit", "recover"} \cup Finalizers
  BY <1>1 DEF Txn
<1>5. ASSUME EndedOK(c)
      PROVE  EndedOK(c)'
  BY <1>1, <1>5, NoneAssumption DEF EndedOK, HistoryGrows, SameIdentity
<1>6. ASSUME AdmitOK(c)
      PROVE  AdmitOK(c)'
  <2>1. c.pc = "resolve" => KnownKey(c.key)'
    BY <1>1, <1>6 DEF AdmitOK, KnownKey, HistoryGrows, Txn
  <2>2. c.pc \in {"active", "insert", "commit"} => ThreadHeld(c)'
    BY <1>3, <1>6 DEF AdmitOK, ThreadHeld
  <2>3. c.pc \in {"insert", "commit"} => ActiveRuns(c.thread)' = {}
    BY <1>3, <1>6 DEF AdmitOK, ThreadHeld
  <2>4. c.pc = "commit" => runs'[c.run].status = "absent" /\ ~KnownKey(c.key)'
    BY <1>1, <1>3, <1>6 DEF AdmitOK, KnownKey, Txn
  <2>5. QED
    BY <1>6, <2>1, <2>2, <2>3, <2>4 DEF AdmitOK
<1>7. ASSUME FinalizeOK(c)
      PROVE  FinalizeOK(c)'
  BY <1>1, <1>3, <1>7 DEF FinalizeOK, HistoryGrows
<1>8. ASSUME RecoverOK(c)
      PROVE  RecoverOK(c)'
  <2>1. c.seen \subseteq Runs
    BY <1>1 DEF Txn
  <2>2. VisitedOK(c)'
    BY <1>3, <1>8, <2>1 DEF RecoverOK, VisitedOK, HistoryGrows
  <2>3. \A r \in c.seen : RequireActive(r)' => RequireActive(r)
    BY <1>8, <2>1 DEF RecoverOK, VisitedOK, HistoryGrows, RequireActive
  <2>4. \A r \in c.holds \cap Runs : runs'[r].thread = runs[r].thread
    BY <1>3
  <2>5. QED
    BY <1>8, <2>2, <2>3, <2>4 DEF RecoverOK
<1>9. QED
  BY <1>1, <1>4, <1>5, <1>6, <1>7, <1>8 DEF CallOK

\* The commit of session s changes rows it holds, and ends its transaction.
LEMMA CommitStep ==
  ASSUME TxInv, NEW s \in Sessions, RepoInv', HistoryGrows, RowsKeptBut(txn[s].holds),
         txn' = [txn EXCEPT ![s] = NoTxn]
  PROVE  TxInv'
<1>1. NoTxn \in Txn
  BY DEF NoTxn, Txn, Pcs, TxReplies
<1>2. /\ txn' \in [Sessions -> Txn]
      /\ \A u \in Sessions : txn'[u] = IF u = s THEN NoTxn ELSE txn[u]
  BY <1>1 DEF TxInv
<1>3. HeldOnce'
  BY <1>2 DEF TxInv, HeldOnce, NoTxn
<1>4. CallOK(txn[s])'
  BY <1>2 DEF CallOK, EndedOK, NoTxn, Finalizers
<1>5. \A u \in Sessions \ {s} : CallOK(txn[u])'
  BY <1>2, OthersKeep
<1>6. QED
  BY <1>2, <1>3, <1>4, <1>5 DEF TxInv
-----------------------------------------------------------------------------
\* An empty transaction relies on nothing.
LEMMA NoTxnOK == NoTxn \in Txn /\ NoTxn.holds = {} /\ CallOK(NoTxn)
  BY DEF NoTxn, Txn, Pcs, TxReplies, CallOK, EndedOK, Finalizers

\* A statement that ends its transaction without a replay keeps the invariant.
LEMMA EndStep ==
  ASSUME TxInv, NEW s \in Sessions, UNCHANGED repoVars, txn' = [txn EXCEPT ![s] = NoTxn]
  PROVE  TxInv'
  BY NoTxnOK, LocalStep

\* A statement that locks nothing new keeps the invariant if its transaction
\* can rely on what it found.
LEMMA KeepStep ==
  ASSUME TxInv, NEW s \in Sessions, NEW c \in Txn, CallOK(c), c.holds \subseteq txn[s].holds,
         UNCHANGED repoVars, txn' = [txn EXCEPT ![s] = c]
  PROVE  TxInv'
<1>1. \A u \in Sessions \ {s} : c.holds \cap txn[u].holds = {}
  BY DEF TxInv, HeldOnce
<1>2. QED
  BY <1>1, LocalStep

\* An open transaction has an operation; what it is fixes what holds of it.
LEMMA OpenCall ==
  ASSUME TxInv, NEW s \in Sessions
  PROVE  /\ txn[s] \in Txn /\ CallOK(txn[s])
         /\ txn[s].op = "admit" => AdmitOK(txn[s]) /\ txn[s].reply = "none"
         /\ txn[s].op \in Finalizers => FinalizeOK(txn[s]) /\ txn[s].reply = "none"
         /\ txn[s].op = "recover" => RecoverOK(txn[s]) /\ txn[s].reply = "none"
         /\ ~Open(s) => txn[s].holds = {}
  BY DEF TxInv, CallOK, EndedOK, Open, Finalizers, AdmitOK, FinalizeOK, RecoverOK

\* What is told of a known key is the run it was used with, or a conflict.
LEMMA ResolvedOK ==
  ASSUME RepoInv, NEW call \in Txn, KnownKey(call.key)
  PROVE  Resolved(call) \in Txn /\ CallOK(Resolved(call)) /\ Resolved(call).holds = {}
<1> DEFINE r == requestKeys[call.key]
<1>1. call.key \in Keys /\ r \in Runs /\ runs[r].status # "absent" /\ runs[r].key = call.key
  BY NoneAssumption DEF KnownKey, RepoInv, RepoTypeOK, KeysResolveToTheirRun, Txn
<1>2. CASE ValidReplay(r, call.named, call.message)
  <2> DEFINE c == [NoTxn EXCEPT !.pc = "done", !.reply = "replay", !.named = call.named,
                                !.message = call.message, !.key = call.key, !.run = r]
  <2>1. Resolved(call) = c
    BY <1>2 DEF Resolved, Kept, Txn
  <2>2. c \in Txn
    BY <1>1 DEF NoTxn, Txn, Pcs, TxReplies
  <2>3. /\ c.op = "none" /\ c.pc = "done" /\ c.holds = {} /\ c.reply = "replay" /\ c.run = r
        /\ c.key = call.key /\ c.message = call.message /\ c.named = call.named
    BY DEF NoTxn
  <2> HIDE DEF c
  <2>4. CallOK(c)
    BY <1>1, <1>2, <2>3 DEF CallOK, EndedOK, ValidReplay, Finalizers
  <2>5. QED
    BY <2>1, <2>2, <2>3, <2>4
<1>3. CASE ~ValidReplay(r, call.named, call.message)
  BY <1>3, NoTxnOK DEF Resolved, Kept
<1>4. QED
  BY <1>2, <1>3

\* An admission opens holding nothing.
LEMMA BeginAdmitStep ==
  ASSUME TxInv, NEW s \in Sessions, NEW named \in Threads \cup {None}, NEW m \in Messages,
         NEW k \in Keys \cup {None}, BeginAdmit(s, named, m, k)
  PROVE  TxInv'
<1> DEFINE call == [NoTxn EXCEPT !.op = "admit", !.named = named, !.message = m, !.key = k]
           first == [call EXCEPT !.pc = "thread", !.thread = named]
<1>1. call \in Txn /\ call.key = k
  BY DEF NoTxn, Txn, Pcs, TxReplies
<1>2. first \in Txn
  BY DEF NoTxn, Txn, Pcs, TxReplies
<1>3. CallOK(first) /\ first.holds = {}
  BY DEF NoTxn, CallOK, AdmitOK, Finalizers
<1> HIDE DEF call, first
<1>4. CASE KnownKey(k)
  <2>1. txn' = [txn EXCEPT ![s] = Resolved(call)]
    BY <1>4 DEF BeginAdmit, call
  <2>2. RepoInv /\ UNCHANGED repoVars
    BY DEF TxInv, BeginAdmit
  <2>3. /\ Resolved(call) \in Txn /\ CallOK(Resolved(call))
        /\ Resolved(call).holds = {}
    BY <1>1, <1>4, <2>2, ResolvedOK
  <2>4. QED
    BY <2>1, <2>2, <2>3, LocalStep
<1>5. CASE ~KnownKey(k)
  <2>1. txn' = [txn EXCEPT ![s] = first]
    BY <1>5 DEF BeginAdmit, call, first
  <2>2. QED
    BY <1>2, <1>3, <2>1, LocalStep DEF BeginAdmit
<1>6. QED
  BY <1>4, <1>5

\* The thread a session locks is nobody else's.
LEMMA LockThreadStep ==
  ASSUME TxInv, NEW s \in Sessions, NEW t \in Threads, LockThread(s, t)
  PROVE  TxInv'
<1> DEFINE c == [txn[s] EXCEPT !.pc = "active", !.thread = t, !.turn = threads[t].next,
                               !.head = threads[t].head, !.holds = @ \cup {t}]
<1>1. txn[s] \in Txn /\ AdmitOK(txn[s]) /\ txn[s].reply = "none"
  BY OpenCall DEF LockThread, Doing
<1>2. /\ txn[s].op = "admit" /\ txn[s].pc = "thread" /\ txn[s].holds = {}
      /\ txn[s].thread = txn[s].named /\ txn[s].message \in Messages
      /\ Blockers(s) = {}
      /\ IF txn[s].named = None THEN threads[t].status = "absent" /\ t \notin Held
         ELSE t = txn[s].named /\ threads[t].status # "absent"
  BY <1>1 DEF LockThread, Doing, AdmitOK
<1>3. threads[t].next \in Nat /\ threads[t].head \in Checkpoints \cup {None}
  BY DEF TxInv, RepoInv, RepoTypeOK, ThreadRecord
<1>4. c \in Txn
  BY <1>1, <1>3 DEF Txn, Pcs
<1>5. /\ c.op = "admit" /\ c.pc = "active" /\ c.thread = t /\ c.turn = threads[t].next
      /\ c.head = threads[t].head /\ c.holds = {t} /\ c.named = txn[s].named
      /\ c.message = txn[s].message /\ c.reply = "none"
  BY <1>1, <1>2 DEF Txn
<1>6. txn' = [txn EXCEPT ![s] = c]
  BY DEF LockThread, TakesThread, TxInv
<1> HIDE DEF c
<1>7. CallOK(c)
  BY <1>2, <1>5 DEF CallOK, AdmitOK, ThreadHeld, Finalizers
<1>8. \A u \in Sessions \ {s} : t \notin txn[u].holds
  <2>1. CASE txn[s].named = None
    BY <1>2, <2>1 DEF Held
  <2>2. CASE txn[s].named # None
    <3>1. Wants(s) = {t}
      BY <1>2, <2>2 DEF Wants
    <3>2. QED
      BY <1>2, <3>1 DEF Blockers
  <2>3. QED
    BY <2>1, <2>2
<1>9. QED
  BY <1>4, <1>5, <1>6, <1>7, <1>8, LocalStep DEF LockThread

\* Reading the active run of a locked thread takes no lock.
LEMMA FetchActiveStep ==
  ASSUME TxInv, NEW s \in Sessions, FetchActive(s)
  PROVE  TxInv'
<1> DEFINE c == [txn[s] EXCEPT !.pc = "insert"]
<1>1. /\ txn[s] \in Txn /\ AdmitOK(txn[s]) /\ txn[s].reply = "none"
      /\ txn[s].op = "admit" /\ txn[s].pc = "active"
  BY OpenCall DEF FetchActive, Doing
<1>2. CASE ActiveRuns(txn[s].thread) # {}
  BY <1>2, EndStep DEF FetchActive, Ends, Kept
<1>3. CASE ActiveRuns(txn[s].thread) = {}
  <2>1. txn' = [txn EXCEPT ![s] = c]
    BY <1>3 DEF FetchActive, TxInv
  <2>2. c \in Txn
    BY <1>1 DEF Txn, Pcs
  <2>3. /\ c.op = "admit" /\ c.pc = "insert" /\ c.holds = txn[s].holds /\ c.reply = "none"
        /\ c.thread = txn[s].thread /\ c.turn = txn[s].turn /\ c.head = txn[s].head
        /\ c.named = txn[s].named /\ c.message = txn[s].message
    BY <1>1 DEF Txn
  <2> HIDE DEF c
  <2>4. CallOK(c)
    BY <1>1, <1>3, <2>3 DEF CallOK, AdmitOK, ThreadHeld, Finalizers
  <2>5. QED
    BY <2>1, <2>2, <2>3, <2>4, KeepStep DEF FetchActive
<1>4. QED
  BY <1>2, <1>3

\* An admission to an unknown thread ends and gives its locks back.
LEMMA ThreadNotFoundStep ==
  ASSUME TxInv, NEW s \in Sessions, ThreadNotFound(s)
  PROVE  TxInv'
  BY EndStep DEF ThreadNotFound, Ends, Kept

\* The unique indexes on turns and on active runs have nothing to reject.
LEMMA IndexesAccept ==
  ASSUME TxInv, NEW s \in Sessions, Doing(s, "admit", "insert")
  PROVE  ~TurnTaken(s) /\ ActiveRuns(txn[s].thread) = {}
<1>1. AdmitOK(txn[s])
  BY OpenCall DEF Doing
<1>2. /\ txn[s].thread \in Threads /\ txn[s].turn = threads[txn[s].thread].next
      /\ ActiveRuns(txn[s].thread) = {}
  BY <1>1 DEF Doing, AdmitOK, ThreadHeld
<1>3. \A q \in RunsOf(txn[s].thread) : runs[q].turn \in 1..(threads[txn[s].thread].next - 1)
  BY <1>2 DEF TxInv, RepoInv, TurnsAreDense
<1>4. threads[txn[s].thread].next \in Nat
  BY <1>2 DEF TxInv, RepoInv, RepoTypeOK, ThreadRecord
<1>5. QED
  BY <1>2, <1>3, <1>4 DEF TurnTaken

\* An insertion locks a row that did not exist.
LEMMA InsertRunStep ==
  ASSUME TxInv, NEW s \in Sessions, NEW r \in Runs, InsertRun(s, r)
  PROVE  TxInv'
<1>1. /\ txn[s] \in Txn /\ AdmitOK(txn[s]) /\ txn[s].reply = "none"
      /\ txn[s].op = "admit" /\ txn[s].pc = "insert"
  BY OpenCall DEF InsertRun, Doing
<1>2. ~TurnTaken(s) /\ ActiveRuns(txn[s].thread) = {}
  BY IndexesAccept DEF InsertRun
<1>3. CASE KnownKey(txn[s].key)
  <2> DEFINE c == [txn[s] EXCEPT !.pc = "resolve", !.holds = {}]
  <2>1. txn' = [txn EXCEPT ![s] = c]
    BY <1>2, <1>3 DEF InsertRun, TxInv
  <2>2. c \in Txn
    BY <1>1 DEF Txn, Pcs
  <2>3. /\ c.op = "admit" /\ c.pc = "resolve" /\ c.holds = {} /\ c.reply = "none"
        /\ c.key = txn[s].key /\ c.message = txn[s].message
    BY <1>1 DEF Txn
  <2> HIDE DEF c
  <2>4. CallOK(c)
    BY <1>1, <1>3, <2>3 DEF CallOK, AdmitOK, Finalizers
  <2>5. QED
    BY <2>1, <2>2, <2>3, <2>4, KeepStep DEF InsertRun
<1>4. CASE ~KnownKey(txn[s].key)
  <2> DEFINE k == txn[s].key
             c == [txn[s] EXCEPT !.pc = "commit", !.run = r,
                                 !.holds = @ \cup {r} \cup ({k} \ {None})]
  <2>1. txn' = [txn EXCEPT ![s] = c] /\ runs[r].status = "absent" /\ r \notin Held
    BY <1>2, <1>4 DEF InsertRun, TxInv
  <2>2. c \in Txn
    BY <1>1 DEF Txn, Pcs
  <2>3. /\ c.op = "admit" /\ c.pc = "commit" /\ c.run = r /\ c.reply = "none"
        /\ c.holds = {txn[s].thread, r} \cup ({k} \ {None})
        /\ c.thread = txn[s].thread /\ c.turn = txn[s].turn /\ c.head = txn[s].head
        /\ c.named = txn[s].named /\ c.message = txn[s].message /\ c.key = k
    BY <1>1 DEF Txn, AdmitOK
  <2>4. \A u \in Sessions \ {s} : c.holds \cap txn[u].holds = {}
    <3>1. Wants(s) = {k} \ {None} /\ Blockers(s) = {}
      BY <1>1 DEF Wants, InsertRun
    <3>2. \A u \in Sessions \ {s} : txn[u].holds \cap ({k} \ {None}) = {}
      BY <3>1 DEF Blockers
    <3>3. \A u \in Sessions \ {s} : r \notin txn[u].holds
      BY <2>1 DEF Held
    <3>4. \A u \in Sessions \ {s} : txn[s].thread \notin txn[u].holds
      BY <1>1 DEF AdmitOK, TxInv, HeldOnce
    <3> HIDE DEF c, k
    <3>5. QED
      BY <2>3, <3>2, <3>3, <3>4
  <2> HIDE DEF c
  <2>5. CallOK(c)
    BY <1>1, <1>2, <1>4, <2>1, <2>3 DEF CallOK, AdmitOK, ThreadHeld, Finalizers
  <2>6. QED
    BY <2>1, <2>2, <2>4, <2>5, LocalStep DEF InsertRun
<1>5. QED
  BY <1>3, <1>4

\* An admission whose key is known is answered from the row of its run.
LEMMA ResolveKeyStep ==
  ASSUME TxInv, NEW s \in Sessions, ResolveKey(s)
  PROVE  TxInv'
<1>1. txn[s] \in Txn /\ KnownKey(txn[s].key) /\ RepoInv
  BY OpenCall DEF ResolveKey, Doing, AdmitOK, TxInv
<1>2. /\ Resolved(txn[s]) \in Txn /\ CallOK(Resolved(txn[s]))
      /\ Resolved(txn[s]).holds = {}
  BY <1>1, ResolvedOK
<1>3. txn' = [txn EXCEPT ![s] = Resolved(txn[s])]
  BY DEF ResolveKey, TxInv
<1>4. QED
  BY <1>2, <1>3, KeepStep DEF ResolveKey

\* A finalization opens with the head its run was admitted with.
LEMMA BeginFinalizeStep ==
  ASSUME TxInv, NEW s \in Sessions, NEW op \in Finalizers, NEW r \in Runs,
         BeginFinalize(s, op, r)
  PROVE  TxInv'
<1> DEFINE c == [NoTxn EXCEPT !.op = op, !.pc = "run", !.run = r, !.head = lineage[r].from]
<1>1. lineage[r].from \in Checkpoints \cup {None}
  BY DEF TxInv, RepoInv, RepoTypeOK
<1>2. c \in Txn
  BY <1>1 DEF NoTxn, Txn, Pcs, TxReplies
<1>3. /\ c.op = op /\ c.pc = "run" /\ c.run = r /\ c.head = lineage[r].from
      /\ c.holds = {} /\ c.reply = "none"
  BY DEF NoTxn
<1>4. txn' = [txn EXCEPT ![s] = c] /\ runs[r].status # "absent"
  BY DEF BeginFinalize
<1> HIDE DEF c
<1>5. CallOK(c)
  BY <1>3, <1>4 DEF CallOK, FinalizeOK, Finalizers
<1>6. QED
  BY <1>2, <1>3, <1>4, <1>5, KeepStep DEF BeginFinalize

\* A finalization that got its run's row holds that row only.
LEMMA LockRunStep ==
  ASSUME TxInv, NEW s \in Sessions, LockRun(s)
  PROVE  TxInv'
<1> DEFINE r == txn[s].run
           c == [txn[s] EXCEPT !.pc = "thread", !.thread = runs[r].thread, !.holds = {r}]
<1>1. /\ txn[s] \in Txn /\ FinalizeOK(txn[s]) /\ txn[s].reply = "none"
      /\ txn[s].op \in Finalizers /\ txn[s].pc = "run" /\ Blockers(s) = {}
  BY OpenCall DEF LockRun
<1>2. r \in Runs /\ runs[r].status # "absent" /\ txn[s].head = lineage[r].from
  BY <1>1 DEF FinalizeOK
<1>3. CASE ~RequireActive(r)
  BY <1>3, EndStep DEF LockRun, Ends, Kept
<1>4. CASE RequireActive(r)
  <2>1. txn' = [txn EXCEPT ![s] = c]
    BY <1>4 DEF LockRun, TxInv
  <2>2. runs[r].thread \in Threads
    BY <1>2 DEF TxInv, RepoInv, RunsHaveThreads
  <2>3. c \in Txn
    BY <1>1, <1>2, <2>2 DEF Txn, Pcs
  <2>4. /\ c.op = txn[s].op /\ c.pc = "thread" /\ c.run = r /\ c.head = txn[s].head
        /\ c.holds = {r} /\ c.reply = "none" /\ c.thread = runs[r].thread
    BY <1>1 DEF Txn
  <2>5. \A u \in Sessions \ {s} : c.holds \cap txn[u].holds = {}
    <3>1. Wants(s) = {r}
      BY <1>1 DEF Wants
    <3>2. QED
      BY <1>1, <2>4, <3>1 DEF Blockers
  <2> HIDE DEF c, r
  <2>6. CallOK(c)
    BY <1>1, <1>2, <1>4, <2>4 DEF CallOK, FinalizeOK, Finalizers, RequireActive
  <2>7. QED
    BY <2>1, <2>3, <2>5, <2>6, LocalStep DEF LockRun
<1>5. QED
  BY <1>3, <1>4

\* complete_run's compare-and-set finds the head its caller was admitted with.
LEMMA HeadIsExpected ==
  ASSUME TxInv, NEW s \in Sessions, txn[s].op \in Finalizers, txn[s].pc = "thread"
  PROVE  threads[txn[s].thread].head = txn[s].head
  BY OpenCall DEF FinalizeOK, TxInv, RepoInv, HeadStableWhileActive

\* A finalization locks the thread of the run it holds, as the thread is now.
LEMMA UpdateThreadStep ==
  ASSUME TxInv, NEW s \in Sessions, UpdateThread(s)
  PROVE  TxInv'
<1> DEFINE t == txn[s].thread
           c == [txn[s] EXCEPT !.pc = "commit", !.holds = @ \cup {t}]
<1>1. /\ txn[s] \in Txn /\ FinalizeOK(txn[s]) /\ txn[s].reply = "none"
      /\ txn[s].op \in Finalizers /\ txn[s].pc = "thread" /\ Blockers(s) = {}
  BY OpenCall DEF UpdateThread
<1>2. txn' = [txn EXCEPT ![s] = c]
  BY <1>1, HeadIsExpected DEF UpdateThread, TxInv
<1>3. t \in Threads
  BY <1>1 DEF FinalizeOK, TxInv, RepoInv, RunsHaveThreads
<1>4. c \in Txn
  BY <1>1, <1>3 DEF Txn, Pcs
<1>5. /\ c.op = txn[s].op /\ c.pc = "commit" /\ c.run = txn[s].run /\ c.head = txn[s].head
      /\ c.holds = txn[s].holds \cup {t} /\ c.reply = "none" /\ c.thread = t
  BY <1>1 DEF Txn
<1>6. \A u \in Sessions \ {s} : c.holds \cap txn[u].holds = {}
  <2>1. Wants(s) = {t}
    BY <1>1, <1>3, NoneAssumption DEF Wants
  <2>2. \A u \in Sessions \ {s} : t \notin txn[u].holds
    BY <1>1, <2>1 DEF Blockers
  <2>3. \A u \in Sessions \ {s} : txn[s].holds \cap txn[u].holds = {}
    BY DEF TxInv, HeldOnce
  <2>4. QED
    BY <1>5, <2>2, <2>3
<1> HIDE DEF c
<1>7. CallOK(c)
  BY <1>1, <1>5 DEF CallOK, FinalizeOK, Finalizers
<1>8. QED
  BY <1>2, <1>4, <1>6, <1>7, LocalStep DEF UpdateThread

\* A rolled back transaction leaves the tables as they were.
LEMMA RollbackStep ==
  ASSUME TxInv, NEW s \in Sessions, Rollback(s)
  PROVE  TxInv'
  BY EndStep DEF Rollback, Ends, Kept

-----------------------------------------------------------------------------
\* A recovery goes on to a row it has still to visit, to a thread of a run it
\* holds, or to its commit.
LEMMA NextRowStep ==
  ASSUME TxInv, NEW s \in Sessions, NEW call \in Txn, call.op = "recover",
         call.reply = "none", VisitedOK(call),
         \A r \in call.seen : RequireActive(r) => r \in call.holds \cup call.todo,
         \A u \in Sessions \ {s} : call.holds \cap txn[u].holds = {},
         UNCHANGED repoVars, NextRow(s, call)
  PROVE  TxInv'
<1>1. CASE call.todo # {}
  <2>1. PICK r \in call.todo :
           txn' = [txn EXCEPT ![s] = [call EXCEPT !.pc = "run", !.run = r, !.todo = @ \ {r}]]
    BY <1>1 DEF NextRow
  <2> DEFINE c == [call EXCEPT !.pc = "run", !.run = r, !.todo = @ \ {r}]
  <2>2. r \in Runs /\ r \in call.seen /\ call.holds \subseteq Runs
    BY <1>1 DEF Txn, VisitedOK
  <2>3. c \in Txn
    BY <2>2 DEF Txn, Pcs
  <2>4. /\ c.op = "recover" /\ c.pc = "run" /\ c.run = r /\ c.todo = call.todo \ {r}
        /\ c.seen = call.seen /\ c.holds = call.holds /\ c.reply = "none"
    BY DEF Txn
  <2> HIDE DEF c
  <2>5. CallOK(c)
    BY <2>2, <2>4 DEF CallOK, RecoverOK, VisitedOK, Finalizers
  <2>6. QED
    BY <2>1, <2>3, <2>4, <2>5, LocalStep DEF c
<1> DEFINE left == {runs[r].thread : r \in call.holds \cap Runs} \ call.holds
<1>2. CASE call.todo = {} /\ left # {}
  <2>1. PICK t \in left : txn' = [txn EXCEPT ![s] = [call EXCEPT !.pc = "thread", !.thread = t]]
    BY <1>2 DEF NextRow
  <2> DEFINE c == [call EXCEPT !.pc = "thread", !.thread = t]
  <2>2. t \in Threads
    BY DEF VisitedOK, TxInv, RepoInv, RunsHaveThreads
  <2>3. c \in Txn
    BY <2>2 DEF Txn, Pcs
  <2>4. /\ c.op = "recover" /\ c.pc = "thread" /\ c.thread = t /\ c.todo = {}
        /\ c.seen = call.seen /\ c.holds = call.holds /\ c.reply = "none"
    BY <1>2 DEF Txn
  <2> HIDE DEF c, left
  <2>5. CallOK(c)
    BY <1>2, <2>2, <2>4 DEF CallOK, RecoverOK, VisitedOK, Finalizers
  <2>6. QED
    BY <2>1, <2>3, <2>4, <2>5, LocalStep DEF c
<1>3. CASE call.todo = {} /\ left = {}
  <2> DEFINE c == [call EXCEPT !.pc = "commit"]
  <2>1. txn' = [txn EXCEPT ![s] = c]
    BY <1>3 DEF NextRow
  <2>2. c \in Txn
    BY DEF Txn, Pcs
  <2>3. /\ c.op = "recover" /\ c.pc = "commit" /\ c.todo = {}
        /\ c.seen = call.seen /\ c.holds = call.holds /\ c.reply = "none"
    BY <1>3 DEF Txn
  <2>4. \A r \in call.holds \cap Runs : runs[r].thread \in call.holds
    BY <1>3
  <2> HIDE DEF c, left
  <2>5. CallOK(c)
    BY <1>3, <2>3, <2>4 DEF CallOK, RecoverOK, VisitedOK, Finalizers
  <2>6. QED
    BY <2>1, <2>2, <2>3, <2>5, LocalStep DEF c
<1>4. QED
  BY <1>1, <1>2, <1>3

\* A recovery opens with the runs that are active in its snapshot.
LEMMA BeginRecoverStep ==
  ASSUME TxInv, NEW s \in Sessions, BeginRecover(s)
  PROVE  TxInv'
<1> DEFINE active == {r \in Runs : RequireActive(r)}
           call == [NoTxn EXCEPT !.op = "recover", !.todo = active, !.seen = active]
<1>1. call \in Txn
  BY DEF NoTxn, Txn, Pcs, TxReplies
<1>2. /\ call.op = "recover" /\ call.reply = "none" /\ call.holds = {}
      /\ call.todo = active /\ call.seen = active
  BY DEF NoTxn
<1>3. NextRow(s, call) /\ UNCHANGED repoVars
  BY DEF BeginRecover
<1> HIDE DEF call
<1>4. VisitedOK(call)
  BY <1>2 DEF VisitedOK, RequireActive
<1>5. QED
  BY <1>1, <1>2, <1>3, <1>4, NextRowStep

\* A recovery locks the run it has come to and reads it again once it has the lock.
LEMMA RecoverRunStep ==
  ASSUME TxInv, NEW s \in Sessions, RecoverRun(s)
  PROVE  TxInv'
<1> DEFINE c == txn[s]
           call == IF RequireActive(c.run) THEN [c EXCEPT !.holds = @ \cup {c.run}] ELSE c
<1>1. /\ c \in Txn /\ RecoverOK(c) /\ c.reply = "none" /\ c.op = "recover" /\ c.pc = "run"
      /\ Blockers(s) = {} /\ NextRow(s, call) /\ UNCHANGED repoVars
  BY OpenCall DEF RecoverRun, Doing
<1>2. c.run \in Runs /\ c.run \in c.seen /\ c.holds \subseteq Runs
  BY <1>1 DEF RecoverOK, Txn
<1>3. call \in Txn
  BY <1>1, <1>2 DEF Txn
<1>4. /\ call.op = "recover" /\ call.reply = "none" /\ call.todo = c.todo /\ call.seen = c.seen
      /\ call.holds = IF RequireActive(c.run) THEN c.holds \cup {c.run} ELSE c.holds
  BY <1>1 DEF Txn
<1>5. \A u \in Sessions \ {s} : call.holds \cap txn[u].holds = {}
  <2>1. Wants(s) = {c.run}
    BY <1>1 DEF Wants
  <2>2. \A u \in Sessions \ {s} : c.run \notin txn[u].holds
    BY <1>1, <2>1 DEF Blockers
  <2>3. \A u \in Sessions \ {s} : c.holds \cap txn[u].holds = {}
    BY DEF TxInv, HeldOnce
  <2>4. QED
    BY <1>4, <2>2, <2>3
<1> HIDE DEF call
<1>6. VisitedOK(call)
  BY <1>1, <1>2, <1>4 DEF RecoverOK, VisitedOK, RequireActive
<1>7. \A r \in call.seen : RequireActive(r) => r \in call.holds \cup call.todo
  BY <1>1, <1>4 DEF RecoverOK
<1>8. QED
  BY <1>1, <1>3, <1>4, <1>5, <1>6, <1>7, NextRowStep

\* A recovery locks the threads of the runs it changes.
LEMMA RecoverThreadStep ==
  ASSUME TxInv, NEW s \in Sessions, RecoverThread(s)
  PROVE  TxInv'
<1> DEFINE c == txn[s]
           call == [c EXCEPT !.holds = @ \cup {c.thread}]
<1>1. /\ c \in Txn /\ RecoverOK(c) /\ c.reply = "none" /\ c.op = "recover" /\ c.pc = "thread"
      /\ Blockers(s) = {} /\ NextRow(s, call) /\ UNCHANGED repoVars
  BY OpenCall DEF RecoverThread, Doing
<1>2. c.thread \in Threads /\ c.todo = {}
  BY <1>1 DEF RecoverOK
<1>3. call \in Txn
  BY <1>1, <1>2 DEF Txn
<1>4. /\ call.op = "recover" /\ call.reply = "none" /\ call.todo = {} /\ call.seen = c.seen
      /\ call.holds = c.holds \cup {c.thread}
  BY <1>1, <1>2 DEF Txn
<1>5. \A u \in Sessions \ {s} : call.holds \cap txn[u].holds = {}
  <2>1. Wants(s) = {c.thread}
    BY <1>1, <1>2, NoneAssumption DEF Wants
  <2>2. \A u \in Sessions \ {s} : c.thread \notin txn[u].holds
    BY <1>1, <2>1 DEF Blockers
  <2>3. \A u \in Sessions \ {s} : c.holds \cap txn[u].holds = {}
    BY DEF TxInv, HeldOnce
  <2>4. QED
    BY <1>4, <2>2, <2>3
<1> HIDE DEF call
<1>6. VisitedOK(call)
  BY <1>1, <1>2, <1>4, TablesAssumption DEF RecoverOK, VisitedOK
<1>7. \A r \in call.seen : RequireActive(r) => r \in call.holds \cup call.todo
  BY <1>1, <1>4 DEF RecoverOK
<1>8. QED
  BY <1>1, <1>3, <1>4, <1>5, <1>6, <1>7, NextRowStep

-----------------------------------------------------------------------------
\* A step of the repository undoes nothing.
LEMMA RepoStepGrows ==
  ASSUME RepoInv, [RepoNext]_repoVars
  PROVE  HistoryGrows
<1>1. \A q \in Runs : runs[q].status # "absent" =>
         runs[q].status \in {"in_progress"} \cup Terminal
  BY DEF RepoInv, RepoTypeOK, RunRecord, RunStatus
<1>2. QED
  BY <1>1, FinalStep, HistoryStep DEF HistoryGrows, Terminal

\* CommitAdmit is the repository's AdmitRun: what the transaction read is current.
LEMMA CommitAdmitIsAdmitRun ==
  ASSUME TxInv, NEW s \in Sessions, CommitAdmit(s)
  PROVE  AdmitRun(txn[s].run, txn[s].named, txn[s].thread, txn[s].message, txn[s].key)
<1> DEFINE c == txn[s]
<1>1. AdmitOK(c) /\ c.pc = "commit"
  BY OpenCall DEF CommitAdmit, Doing
<1>2. /\ c.turn = threads[c.thread].next /\ c.head = threads[c.thread].head
      /\ IF c.named = None THEN threads[c.thread].status = "absent"
         ELSE c.thread = c.named /\ threads[c.thread].status # "absent"
      /\ ActiveRuns(c.thread) = {} /\ ~KnownKey(c.key) /\ runs[c.run].status = "absent"
  BY <1>1 DEF AdmitOK, ThreadHeld
<1>3. AdmitOutcome(c.named, c.message, c.key) = "admit"
  BY <1>2 DEF AdmitOutcome
<1>4. QED
  BY <1>2, <1>3 DEF AdmitRun, CommitAdmit

\* A committed admission is one admission of the repository.
LEMMA CommitAdmitStep ==
  ASSUME TxInv, NEW s \in Sessions, CommitAdmit(s)
  PROVE  TxInv'
<1> DEFINE c == txn[s]
<1>1. /\ c \in Txn /\ c.message \in Messages /\ c.run \in Runs /\ c.thread \in Threads
      /\ c.holds = {c.thread, c.run} \cup ({c.key} \ {None})
  BY OpenCall DEF CommitAdmit, Doing, AdmitOK, ThreadHeld
<1>2. /\ c.named \in Threads \cup {None} /\ c.key \in Keys \cup {None}
      /\ RepoInv /\ RepoTypeOK /\ RunsHaveThreads
  BY <1>1 DEF Txn, TxInv, RepoInv
<1>3. AdmitRun(c.run, c.named, c.thread, c.message, c.key)
  BY CommitAdmitIsAdmitRun
<1>4. RepoNext
  BY <1>1, <1>2, <1>3 DEF RepoNext
<1>5. RepoInv' /\ HistoryGrows
  BY <1>2, <1>4, InvStep, RepoStepGrows
<1>6. RunBegins(c.run, c.thread, c.message, c.key)
  BY <1>1, <1>2, <1>3, AdmitEffect
<1>7. RowsKeptBut(c.holds)
  <2>1. \A t \in Threads \ c.holds : threads'[t] = threads[t]
    BY <1>1, <1>6 DEF RunBegins
  <2>2. \A r \in Runs \ c.holds : runs'[r] = runs[r]
    BY <1>1, <1>6 DEF RunBegins
  <2>3. \A t \in Threads \ c.holds : ActiveRuns(t) = {} => ActiveRuns(t)' = {}
    BY <1>1, <1>6 DEF RunBegins, ActiveRuns, RunsOf
  <2>4. \A k \in Keys \ c.holds : requestKeys'[k] = requestKeys[k]
    BY <1>1, <1>2, <1>6 DEF RunBegins, RepoTypeOK
  <2>5. QED
    BY <2>1, <2>2, <2>3, <2>4 DEF RowsKeptBut
<1>8. txn' = [txn EXCEPT ![s] = NoTxn]
  BY DEF CommitAdmit, Ends, Kept
<1>9. QED
  BY <1>5, <1>7, <1>8, CommitStep

\* What a finalization has found when it commits.
LEMMA ReadyToFinish ==
  ASSUME TxInv, NEW s \in Sessions, txn[s].op \in Finalizers, txn[s].pc = "commit"
  PROVE  /\ txn[s].run \in Runs /\ RequireActive(txn[s].run)
         /\ txn[s].thread = runs[txn[s].run].thread
         /\ txn[s].head = threads[txn[s].thread].head
         /\ txn[s].head \in Checkpoints \cup {None}
         /\ txn[s].holds = {txn[s].run, txn[s].thread}
         /\ runs[txn[s].run].answer = "none" /\ runs[txn[s].run].error = None
<1>1. FinalizeOK(txn[s]) /\ txn[s] \in Txn
  BY OpenCall
<1>2. RepoInv
  BY DEF TxInv
<1>3. /\ txn[s].run \in Runs /\ runs[txn[s].run].status = "in_progress"
      /\ txn[s].thread = runs[txn[s].run].thread /\ txn[s].head = lineage[txn[s].run].from
      /\ txn[s].holds = {txn[s].run, txn[s].thread}
  BY <1>1 DEF FinalizeOK
<1>4. QED
  BY <1>1, <1>2, <1>3 DEF RepoInv, HeadStableWhileActive, LifecycleConstraint, RequireActive, Txn

\* The commits of the finalizations are those of the repository: the head is the
\* expected one, and what they overwrite was empty.
LEMMA CommitCompleteIsCompleteRun ==
  ASSUME TxInv, NEW s \in Sessions, NEW c, CommitComplete(s, c)
  PROVE  CompleteRun(txn[s].run, txn[s].head, c)
<1> DEFINE r == txn[s].run
<1>1. /\ r \in Runs /\ RequireActive(r) /\ txn[s].thread = runs[r].thread
      /\ txn[s].head = threads[txn[s].thread].head /\ runs[r].error = None
  BY ReadyToFinish DEF CommitComplete, Doing, Finalizers
<1>2. runs \in [Runs -> RunRecord]
  BY DEF TxInv, RepoInv, RepoTypeOK
<1>3. runs' = [runs EXCEPT ![r].status = "completed", ![r].answer = "final", ![r].error = None]
  BY DEF CommitComplete, Finishes
<1>4. runs' = [runs EXCEPT ![r].status = "completed", ![r].answer = "final"]
  BY <1>1, <1>2, <1>3 DEF RunRecord
<1>5. QED
  BY <1>1, <1>4 DEF CommitComplete, CompleteRun, HeadMatches, Finishes

\* Committing a failure is fail_run of the repository.
LEMMA CommitFailIsFailRun ==
  ASSUME TxInv, NEW s \in Sessions, NEW code, CommitFail(s, code)
  PROVE  FailRun(txn[s].run, code)
<1> DEFINE r == txn[s].run
<1>1. /\ r \in Runs /\ RequireActive(r) /\ txn[s].thread = runs[r].thread
      /\ runs[r].answer = "none"
  BY ReadyToFinish DEF CommitFail, Doing, Finalizers
<1>2. runs \in [Runs -> RunRecord]
  BY DEF TxInv, RepoInv, RepoTypeOK
<1>3. runs' = [runs EXCEPT ![r].status = "error", ![r].answer = "none", ![r].error = code]
  BY DEF CommitFail, Finishes
<1>4. runs' = [runs EXCEPT ![r].status = "error", ![r].error = code]
  BY <1>1, <1>2, <1>3 DEF RunRecord
<1>5. QED
  BY <1>1, <1>4 DEF CommitFail, FailRun, Finishes

\* Committing a cancellation is cancel_run of the repository.
LEMMA CommitCancelIsCancelRun ==
  ASSUME TxInv, NEW s \in Sessions, NEW partial, CommitCancel(s, partial)
  PROVE  CancelRun(txn[s].run, partial)
<1> DEFINE r == txn[s].run
<1>1. r \in Runs /\ RequireActive(r) /\ txn[s].thread = runs[r].thread
  BY ReadyToFinish DEF CommitCancel, Doing, Finalizers
<1>2. QED
  BY <1>1 DEF CommitCancel, CancelRun, Finishes

\* The commit of a finalization changes its run and that run's thread.
LEMMA FinishStep ==
  ASSUME TxInv, NEW s \in Sessions, txn[s].op \in Finalizers, txn[s].pc = "commit",
         NEW status \in Terminal, RunEnds(txn[s].run, status),
         \A u \in Threads \ {txn[s].thread} : threads'[u] = threads[u],
         RepoNext, txn' = [txn EXCEPT ![s] = NoTxn]
  PROVE  TxInv'
<1> DEFINE r == txn[s].run
<1>1. /\ r \in Runs /\ txn[s].thread = runs[r].thread
      /\ txn[s].holds = {r, txn[s].thread}
  BY ReadyToFinish
<1>2. RepoInv
  BY DEF TxInv
<1>3. RepoInv' /\ HistoryGrows
  BY <1>2, InvStep, RepoStepGrows
<1>4. RowsKeptBut(txn[s].holds)
  <2>1. \A t \in Threads : ActiveRuns(t) = {} => ActiveRuns(t)' = {}
    BY <1>1 DEF RunEnds, ActiveRuns, RunsOf, Terminal
  <2>2. QED
    BY <1>1, <2>1 DEF RunEnds, RowsKeptBut
<1>5. QED
  BY <1>3, <1>4, CommitStep

\* A committed completion keeps the invariant.
LEMMA CommitCompleteStep ==
  ASSUME TxInv, NEW s \in Sessions, NEW c \in Checkpoints, FreshCheckpoint(c),
         CommitComplete(s, c)
  PROVE  TxInv'
<1>1. /\ txn[s].op \in Finalizers /\ txn[s].pc = "commit" /\ txn[s].run \in Runs
      /\ txn[s].head \in Checkpoints \cup {None}
  BY ReadyToFinish DEF CommitComplete, Doing, Finalizers
<1>2. CompleteRun(txn[s].run, txn[s].head, c)
  BY CommitCompleteIsCompleteRun
<1>3. RepoNext
  BY <1>1, <1>2 DEF RepoNext
<1>4. RunEnds(txn[s].run, "completed")
  BY <1>1, <1>2, CompleteEffect DEF TxInv, RepoInv
<1>5. txn' = [txn EXCEPT ![s] = NoTxn]
  BY DEF CommitComplete, Finishes, Ends, Kept
<1>6. \A u \in Threads \ {txn[s].thread} : threads'[u] = threads[u]
  BY DEF CommitComplete, TxInv, RepoInv, RepoTypeOK
<1>7. QED
  BY <1>1, <1>3, <1>4, <1>5, <1>6, FinishStep DEF Terminal

\* A committed failure keeps the invariant.
LEMMA CommitFailStep ==
  ASSUME TxInv, NEW s \in Sessions, NEW code \in ErrorCodes, CommitFail(s, code)
  PROVE  TxInv'
<1>1. txn[s].op \in Finalizers /\ txn[s].pc = "commit" /\ txn[s].run \in Runs
  BY ReadyToFinish DEF CommitFail, Doing, Finalizers
<1>2. FailRun(txn[s].run, code)
  BY CommitFailIsFailRun
<1>3. RepoNext
  BY <1>1, <1>2 DEF RepoNext
<1>4. RunEnds(txn[s].run, "error")
  BY <1>1, <1>2, FailEffect DEF TxInv, RepoInv
<1>5. txn' = [txn EXCEPT ![s] = NoTxn]
  BY DEF CommitFail, Finishes, Ends, Kept
<1>6. \A u \in Threads \ {txn[s].thread} : threads'[u] = threads[u]
  BY DEF CommitFail, TxInv, RepoInv, RepoTypeOK
<1>7. QED
  BY <1>1, <1>3, <1>4, <1>5, <1>6, FinishStep DEF Terminal

\* A committed cancellation keeps the invariant.
LEMMA CommitCancelStep ==
  ASSUME TxInv, NEW s \in Sessions, NEW partial \in {"none", "partial"},
         CommitCancel(s, partial)
  PROVE  TxInv'
<1>1. txn[s].op \in Finalizers /\ txn[s].pc = "commit" /\ txn[s].run \in Runs
  BY ReadyToFinish DEF CommitCancel, Doing, Finalizers
<1>2. CancelRun(txn[s].run, partial)
  BY CommitCancelIsCancelRun
<1>3. RepoNext
  BY <1>1, <1>2 DEF RepoNext
<1>4. RunEnds(txn[s].run, "cancelled")
  BY <1>1, <1>2, CancelEffect DEF TxInv, RepoInv
<1>5. txn' = [txn EXCEPT ![s] = NoTxn]
  BY DEF CommitCancel, Finishes, Ends, Kept
<1>6. \A u \in Threads \ {txn[s].thread} : threads'[u] = threads[u]
  BY DEF CommitCancel, TxInv, RepoInv, RepoTypeOK
<1>7. QED
  BY <1>1, <1>3, <1>4, <1>5, <1>6, FinishStep DEF Terminal

\* A recovery that found the runs S fails them and their threads, nothing else.
LEMMA RecoverSomeEffect ==
  ASSUME RepoTypeOK, NEW S \in SUBSET Runs, RecoverSome(S)
  PROVE  RepoTypeOK' /\ SomeFail(S)
<1>1. /\ threads \in [Threads -> ThreadRecord]
      /\ runs \in [Runs -> RunRecord]
      /\ requestKeys' = requestKeys /\ lineage' = lineage
  BY DEF RepoTypeOK, RecoverSome
<1>2. /\ threads' \in [Threads -> ThreadRecord]
      /\ \A u \in Threads :
            /\ threads'[u].head = threads[u].head
            /\ threads'[u].next = threads[u].next
            /\ threads'[u].status = IF \E q \in S : runs[q].thread = u THEN "error"
                                                                      ELSE threads[u].status
  BY <1>1 DEF RecoverSome, ThreadRecord, RunStatus, Terminal
<1>3. runs' \in [Runs -> RunRecord]
  <2>1. ASSUME NEW x \in RunRecord
        PROVE  [x EXCEPT !.status = "error", !.error = "process_interrupted"] \in RunRecord
    BY CodesAssumption DEF RunRecord, RunStatus, Terminal
  <2>2. QED
    BY <1>1, <2>1 DEF RecoverSome
<1>4. /\ \A q \in Runs : SameIdentity(q) /\ runs'[q].answer = runs[q].answer
      /\ \A q \in Runs \ S : runs'[q] = runs[q]
      /\ \A q \in S : runs'[q].status = "error" /\ runs'[q].error = "process_interrupted"
  BY <1>1 DEF RecoverSome, RunRecord, SameIdentity
<1>5. "process_interrupted" # None
  BY CodesAssumption, NoneAssumption
<1>6. RepoTypeOK'
  BY <1>1, <1>2, <1>3 DEF RepoTypeOK
<1>7. HeadsKept
  BY <1>1, <1>2 DEF HeadsKept
<1>8. QED
  BY <1>1, <1>2, <1>4, <1>5, <1>6, <1>7 DEF SomeFail

\* A committed recovery fails a set of active runs, which keeps the invariant.
LEMMA CommitRecoverStep ==
  ASSUME TxInv, NEW s \in Sessions, CommitRecover(s)
  PROVE  TxInv'
<1> DEFINE S == txn[s].holds \cap Runs
<1>1. /\ \A q \in S : runs[q].status = "in_progress"
      /\ \A q \in S : runs[q].thread \in txn[s].holds
  BY OpenCall DEF CommitRecover, Doing, RecoverOK, VisitedOK
<1>2. RepoInv /\ RecoverSome(S)
  BY DEF TxInv, CommitRecover
<1>3. RepoTypeOK' /\ SomeFail(S)
  BY <1>2, RecoverSomeEffect DEF RepoInv
<1>4. RepoInv'
  BY <1>1, <1>2, <1>3, SomeFailKeepsInv
<1>5. HistoryGrows
  BY <1>1, <1>3, NoneAssumption DEF SomeFail, HeadsKept, HistoryGrows
<1>6. RowsKeptBut(txn[s].holds)
  <2>1. \A t \in Threads \ txn[s].holds : threads'[t] = threads[t]
    BY <1>1, <1>2 DEF RecoverSome, RepoInv, RepoTypeOK
  <2>2. \A t \in Threads : ActiveRuns(t) = {} => ActiveRuns(t)' = {}
    BY <1>1, <1>3 DEF SomeFail, ActiveRuns, RunsOf, SameIdentity
  <2>3. QED
    BY <1>3, <2>1, <2>2 DEF SomeFail, RowsKeptBut
<1>7. txn' = [txn EXCEPT ![s] = NoTxn]
  BY DEF CommitRecover, Ends, Kept
<1>8. QED
  BY <1>4, <1>5, <1>6, <1>7, CommitStep

-----------------------------------------------------------------------------
\* No transaction has begun at first.
LEMMA TxInvInit == TxInit => TxInv
  BY InvInit, NoTxnOK DEF TxInit, TxInv, HeldOnce

\* Every statement keeps the invariant.
LEMMA TxInvStep == TxInv /\ [TxNext]_txVars => TxInv'
<1> SUFFICES ASSUME TxInv, [TxNext]_txVars PROVE TxInv'
  OBVIOUS
<1>1. ASSUME NEW s \in Sessions, NEW named \in Threads \cup {None}, NEW m \in Messages,
             NEW k \in Keys \cup {None}, BeginAdmit(s, named, m, k)
      PROVE  TxInv'
  BY <1>1, BeginAdmitStep
<1>2. ASSUME NEW s \in Sessions, NEW t \in Threads, LockThread(s, t)
      PROVE  TxInv'
  BY <1>2, LockThreadStep
<1>3. ASSUME NEW s \in Sessions, ThreadNotFound(s) \/ FetchActive(s) \/ ResolveKey(s)
      PROVE  TxInv'
  BY <1>3, ThreadNotFoundStep, FetchActiveStep, ResolveKeyStep
<1>4. ASSUME NEW s \in Sessions, NEW r \in Runs, InsertRun(s, r)
      PROVE  TxInv'
  BY <1>4, InsertRunStep
<1>5. ASSUME NEW s \in Sessions, CommitAdmit(s)
      PROVE  TxInv'
  BY <1>5, CommitAdmitStep
<1>6. ASSUME NEW s \in Sessions, NEW op \in Finalizers, NEW r \in Runs, BeginFinalize(s, op, r)
      PROVE  TxInv'
  BY <1>6, BeginFinalizeStep
<1>7. ASSUME NEW s \in Sessions, LockRun(s) \/ UpdateThread(s)
      PROVE  TxInv'
  BY <1>7, LockRunStep, UpdateThreadStep
<1>8. ASSUME NEW s \in Sessions, NEW c \in Checkpoints, FreshCheckpoint(c), CommitComplete(s, c)
      PROVE  TxInv'
  BY <1>8, CommitCompleteStep
<1>9. ASSUME NEW s \in Sessions, NEW code \in ErrorCodes, CommitFail(s, code)
      PROVE  TxInv'
  BY <1>9, CommitFailStep
<1>10. ASSUME NEW s \in Sessions, NEW partial \in {"none", "partial"}, CommitCancel(s, partial)
       PROVE  TxInv'
  BY <1>10, CommitCancelStep
<1>11. ASSUME NEW s \in Sessions,
              BeginRecover(s) \/ RecoverRun(s) \/ RecoverThread(s) \/ CommitRecover(s)
       PROVE  TxInv'
  BY <1>11, BeginRecoverStep, RecoverRunStep, RecoverThreadStep, CommitRecoverStep
<1>12. ASSUME NEW s \in Sessions, Rollback(s)
       PROVE  TxInv'
  BY <1>12, RollbackStep
<1>13. CASE UNCHANGED txVars
  <2>1. UNCHANGED repoVars /\ txn' = txn
    BY <1>13 DEF txVars
  <2>2. RepoInv'
    BY <2>1, InvStep DEF TxInv
  <2>3. QED
    BY <2>1, <2>2 DEF TxInv, repoVars, CallOK, EndedOK, AdmitOK, ThreadHeld, FinalizeOK,
       RecoverOK, VisitedOK, KnownKey, ActiveRuns, RunsOf, RequireActive, HeldOnce
<1>14. QED
  BY <1>1, <1>2, <1>3, <1>4, <1>5, <1>6, <1>7, <1>8, <1>9, <1>10, <1>11, <1>12, <1>13 DEF TxNext

\* The invariant holds of every reachable state.
LEMMA TxInductive == TxSpec => []TxInv
  BY TxInvInit, TxInvStep, PTL DEF TxSpec

-----------------------------------------------------------------------------
\* What the statement a transaction has come to tells of its operation.
LEMMA OpenOps ==
  ASSUME TxInv, NEW s \in Sessions, Open(s)
  PROVE  \/ txn[s].op = "admit" /\ AdmitOK(txn[s])
         \/ txn[s].op \in Finalizers /\ FinalizeOK(txn[s])
         \/ txn[s].op = "recover" /\ RecoverOK(txn[s])
  BY OpenCall DEF Open, CallOK, Txn

\* Who holds a request key wants nothing more.
LEMMA KeyHoldersCommit ==
  ASSUME TxInv, NEW u \in Sessions, NEW k \in Keys, k \in txn[u].holds
  PROVE  Wants(u) = {}
<1>1. Open(u)
  BY OpenCall
<1>2. k \notin Threads /\ k \notin Runs
  BY TablesAssumption
<1>3. CASE txn[u].op = "admit" /\ AdmitOK(txn[u])
  BY <1>2, <1>3 DEF AdmitOK, ThreadHeld, Wants
<1>4. CASE txn[u].op \in Finalizers /\ FinalizeOK(txn[u])
  BY <1>2, <1>4 DEF FinalizeOK, TxInv, RepoInv, RunsHaveThreads
<1>5. CASE txn[u].op = "recover" /\ RecoverOK(txn[u])
  BY <1>2, <1>5 DEF RecoverOK, VisitedOK
<1>6. QED
  BY <1>1, <1>3, <1>4, <1>5, OpenOps

\* Who holds a thread wants a request key, or is a recovery that wants a thread,
\* or wants nothing more.
LEMMA ThreadHolders ==
  ASSUME TxInv, NEW u \in Sessions, NEW t \in Threads, t \in txn[u].holds
  PROVE  \/ Wants(u) = {}
         \/ Wants(u) \subseteq Keys
         \/ txn[u].op = "recover" /\ txn[u].pc = "thread"
<1>1. Open(u)
  BY OpenCall
<1>2. t \notin Keys /\ t \notin Runs
  BY TablesAssumption
<1>3. CASE txn[u].op = "admit" /\ AdmitOK(txn[u])
  <2>1. txn[u].key \in Keys \cup {None}
    BY OpenCall DEF Txn
  <2>2. QED
    BY <1>2, <1>3, <2>1 DEF AdmitOK, Wants
<1>4. CASE txn[u].op \in Finalizers /\ FinalizeOK(txn[u])
  BY <1>2, <1>4 DEF FinalizeOK, Wants
<1>5. CASE txn[u].op = "recover" /\ RecoverOK(txn[u])
  BY <1>2, <1>5 DEF RecoverOK, Wants
<1>6. QED
  BY <1>1, <1>3, <1>4, <1>5, OpenOps

\* Who holds a run wants no run, unless it is a recovery.
LEMMA RunHolders ==
  ASSUME TxInv, NEW u \in Sessions, NEW r \in Runs, r \in txn[u].holds, txn[u].pc = "run"
  PROVE  txn[u].op = "recover"
  BY OpenOps DEF Open, AdmitOK, FinalizeOK

\* What a statement wants is a thread, a request key or a run, as its place says.
LEMMA WantedRows ==
  ASSUME TxInv, NEW s \in Sessions, NEW x \in Wants(s)
  PROVE  \/ txn[s].pc = "thread" /\ x \in Threads
         \/ txn[s].pc = "insert" /\ x \in Keys
         \/ txn[s].pc = "run" /\ x \in Runs
<1>1. txn[s] \in Txn
  BY OpenCall
<1>2. CASE txn[s].pc = "run"
  <2>1. Open(s) /\ x = txn[s].run
    BY <1>2 DEF Open, Wants
  <2>2. txn[s].run \in Runs
    BY <1>1, <1>2, <2>1, OpenOps DEF AdmitOK, FinalizeOK, RecoverOK, Txn
  <2>3. QED
    BY <1>2, <2>1, <2>2
<1>3. QED
  BY <1>1, <1>2 DEF Wants, Txn

\* Following who waits for whom inside S leads to somebody who waits for nobody:
\* key holders commit, thread holders wait for keys at most, and the one recovery
\* cannot wait for itself.
LEMMA LocksOrdered == TxInv => LocksAreAcyclic
<1> SUFFICES ASSUME TxInv, NEW S \in (SUBSET Sessions) \ {{}},
                    \A s, u \in S : txn[s].op = "recover" /\ txn[u].op = "recover" => s = u,
                    \A s \in S : Blockers(s) \cap S # {}
             PROVE  FALSE
  BY DEF LocksAreAcyclic
<1>1. \A s \in S : \E u \in S, x \in Wants(s) : u # s /\ x \in txn[u].holds
  BY DEF Blockers
<1>2. \A s \in S : txn[s].pc # "insert"
  <2> SUFFICES ASSUME NEW s \in S, txn[s].pc = "insert" PROVE FALSE
    OBVIOUS
  <2>1. PICK u \in S, x \in Wants(s) : x \in txn[u].holds
    BY <1>1
  <2>2. x \in Keys
    BY WantedRows
  <2>3. Wants(u) = {}
    BY <2>1, <2>2, KeyHoldersCommit
  <2>4. QED
    BY <1>1, <2>3
<1>3. ASSUME NEW s \in S, txn[s].pc = "thread"
      PROVE  \E u \in S : u # s /\ txn[u].op = "recover" /\ txn[u].pc = "thread"
  <2>1. PICK u \in S, x \in Wants(s) : u # s /\ x \in txn[u].holds
    BY <1>1
  <2>2. x \in Threads
    BY <1>3, WantedRows
  <2>3. PICK v \in S, y \in Wants(u) : v # u /\ y \in txn[v].holds
    BY <1>1
  <2>4. ~(Wants(u) \subseteq Keys)
    BY <1>2, <2>3, WantedRows, TablesAssumption
  <2>5. QED
    BY <2>1, <2>2, <2>3, <2>4, ThreadHolders
<1>4. \A s \in S : txn[s].pc # "thread"
  BY <1>3
<1>5. ASSUME NEW s \in S
      PROVE  \E u \in S : u # s /\ txn[u].op = "recover"
  <2>1. PICK u \in S, x \in Wants(s) : u # s /\ x \in txn[u].holds
    BY <1>1
  <2>2. x \in Runs
    BY <1>2, <1>4, WantedRows
  <2>3. txn[u].pc = "run"
    BY <1>1, <1>2, <1>4, WantedRows
  <2>4. QED
    BY <2>1, <2>2, <2>3, RunHolders
<1>6. PICK s \in S : TRUE
  OBVIOUS
<1>7. QED
  BY <1>5, <1>6

\* Every transaction has its declared shape, holds rows of its own, and none once
\* it is over; and no transactions wait for each other in a circle, but for two
\* recoveries that visit their rows in different orders.
THEOREM LocksSound == TxSpec => []LocksAreSound
<1>1. TxInv => TxTypeOK
  BY OpenCall DEF TxInv, TxTypeOK, Txn, Pcs, HeldOnce
<1>2. TxInv => LocksAreSound
  BY <1>1, LocksOrdered DEF LocksAreSound
<1>3. QED
  BY <1>2, TxInductive, PTL

\* Behind the lock on its thread an admission meets no unique index and a
\* completion finds the head it expects, whatever the other sessions do.
THEOREM ThreadLockSuffices == TxSpec => []ThreadLockDecides
<1>1. ASSUME TxInv, NEW s \in Sessions
      PROVE  /\ txn[s].reply \notin {"not_admitted", "active_index", "checkpoint_conflict"}
             /\ txn[s].pc = "resolve" => KnownKey(txn[s].key)
  <2>1. CASE Open(s)
    BY <1>1, <2>1, OpenOps, OpenCall DEF AdmitOK, FinalizeOK, RecoverOK
  <2>2. CASE ~Open(s)
    BY <1>1, <2>2, OpenCall DEF Open, CallOK, EndedOK
  <2>3. QED
    BY <2>1, <2>2
<1>2. TxInv => ThreadLockDecides
  BY <1>1 DEF ThreadLockDecides
<1>3. QED
  BY <1>2, TxInductive, PTL

\* A recovery commits with every run it saw that is still active, and a raced
\* retransmission is told of the run that has its key.
THEOREM WaitersReadCurrentRows == TxSpec => []WaitersReadAgain
<1>1. TxInv => RecoveryIsThorough
  BY OpenCall DEF RecoveryIsThorough, Doing, RecoverOK
<1>2. ASSUME TxInv, NEW s \in Sessions, txn[s].reply = "replay"
      PROVE  EndedOK(txn[s])
  <2>1. CASE Open(s)
    BY <1>2, <2>1, OpenOps, OpenCall
  <2>2. CASE ~Open(s)
    BY <1>2, <2>2, OpenCall DEF Open, CallOK
  <2>3. QED
    BY <2>1, <2>2
<1>3. TxInv => ReplaysAreOwn
  BY <1>2 DEF ReplaysAreOwn, EndedOK
<1>4. TxInv => WaitersReadAgain
  BY <1>1, <1>3 DEF WaitersReadAgain
<1>5. QED
  BY <1>4, TxInductive, PTL

-----------------------------------------------------------------------------
\* What a step may do to the tables: nothing, an operation of the repository, or
\* the failure of some active runs.
RepoEffect ==
    \/ UNCHANGED repoVars
    \/ RepoNext
    \/ \E S \in SUBSET {r \in Runs : RequireActive(r)} : RecoverSome(S)

\* Every statement but a commit leaves the tables alone; every commit is one
\* operation of the repository.
LEMMA StepsRefine ==
  ASSUME TxInv, [TxNext]_txVars
  PROVE  RepoEffect
<1>1. ASSUME NEW s \in Sessions, CommitAdmit(s)
      PROVE  RepoEffect
  <2>1. AdmitRun(txn[s].run, txn[s].named, txn[s].thread, txn[s].message, txn[s].key)
    BY <1>1, CommitAdmitIsAdmitRun
  <2>2. /\ txn[s].run \in Runs /\ txn[s].thread \in Threads /\ txn[s].message \in Messages
        /\ txn[s].named \in Threads \cup {None} /\ txn[s].key \in Keys \cup {None}
    BY <1>1, OpenCall DEF CommitAdmit, Doing, AdmitOK, ThreadHeld, Txn
  <2>3. QED
    BY <2>1, <2>2 DEF RepoNext, RepoEffect
<1>2. ASSUME NEW s \in Sessions, NEW c \in Checkpoints, FreshCheckpoint(c), CommitComplete(s, c)
      PROVE  RepoEffect
  <2>1. CompleteRun(txn[s].run, txn[s].head, c)
    BY <1>2, CommitCompleteIsCompleteRun
  <2>2. txn[s].run \in Runs /\ txn[s].head \in Checkpoints \cup {None}
    BY <1>2, ReadyToFinish DEF CommitComplete, Doing, Finalizers
  <2>3. QED
    BY <1>2, <2>1, <2>2 DEF RepoNext, RepoEffect
<1>3. ASSUME NEW s \in Sessions, NEW code \in ErrorCodes, CommitFail(s, code)
      PROVE  RepoEffect
  <2>1. FailRun(txn[s].run, code)
    BY <1>3, CommitFailIsFailRun
  <2>2. txn[s].run \in Runs
    BY <1>3, ReadyToFinish DEF CommitFail, Doing, Finalizers
  <2>3. QED
    BY <2>1, <2>2 DEF RepoNext, RepoEffect
<1>4. ASSUME NEW s \in Sessions, NEW partial \in {"none", "partial"}, CommitCancel(s, partial)
      PROVE  RepoEffect
  <2>1. CancelRun(txn[s].run, partial)
    BY <1>4, CommitCancelIsCancelRun
  <2>2. txn[s].run \in Runs
    BY <1>4, ReadyToFinish DEF CommitCancel, Doing, Finalizers
  <2>3. QED
    BY <2>1, <2>2 DEF RepoNext, RepoEffect
<1>5. ASSUME NEW s \in Sessions, CommitRecover(s)
      PROVE  RepoEffect
  <2>1. \A r \in txn[s].holds \cap Runs : RequireActive(r)
    BY <1>5, OpenCall DEF CommitRecover, Doing, RecoverOK, VisitedOK, RequireActive
  <2>2. QED
    BY <1>5, <2>1 DEF CommitRecover, RepoEffect
<1>6. QED
  BY <1>1, <1>2, <1>3, <1>4, <1>5 DEF TxNext, RepoEffect, txVars, BeginAdmit, LockThread,
     ThreadNotFound, FetchActive, ResolveKey, InsertRun, BeginFinalize, LockRun, UpdateThread,
     BeginRecover, RecoverRun, RecoverThread, Rollback

\* The transactions implement the atomic repository: what another session sees of
\* them is one operation each, however their statements interleave.
THEOREM TransactionsAreAtomic == TxSpec => ImplementsRepository
<1>1. TxInv /\ [TxNext]_txVars => [RepoEffect]_repoVars
  BY StepsRefine
<1>2. QED
  BY <1>1, TxInductive, PTL DEF TxSpec, ImplementsRepository, RepoEffect

\* Under any interleaving of transactions a thread has one active run, dense
\* turns, and the status of the newest; its head is the last of a chain of
\* answers; and its rows are legal and found by their keys.
THEOREM TablesStayConsistent ==
    TxSpec => [](ThreadsConsistent /\ HeadsConsistent /\ RowsConsistent)
<1>1. TxInv => ThreadsConsistent /\ HeadsConsistent /\ RowsConsistent
  BY DEF TxInv, RepoInv, ThreadsConsistent, HeadsConsistent, RowsConsistent
<1>2. QED
  BY <1>1, TxInductive, PTL

\* No transaction rewrites a finished run, and a head moves only when a run of its
\* thread completes.
THEOREM TransactionsKeepHistory == TxSpec => HistoryIsKept
<1>1. ASSUME TxInv, [TxNext]_txVars
      PROVE  KeepsFinishedRuns /\ HeadMovesWithCompletion
  <2>1. RepoInv /\ RepoTypeOK
    BY <1>1 DEF TxInv, RepoInv
  <2>2. CASE [RepoNext]_repoVars
    BY <2>1, <2>2, FinalStep, HeadMoveStep DEF SameIdentity, KeepsFinishedRuns
  <2>3. ASSUME NEW S \in SUBSET {r \in Runs : RequireActive(r)}, RecoverSome(S)
        PROVE  KeepsFinishedRuns /\ HeadMovesWithCompletion
    <3>1. SomeFail(S)
      BY <2>1, <2>3, RecoverSomeEffect
    <3>2. KeepsFinishedRuns
      BY <2>1, <3>1 DEF SomeFail, SameIdentity, KeepsFinishedRuns, RequireActive, Terminal
    <3>3. QED
      BY <3>1, <3>2 DEF SomeFail, HeadsKept, HeadMovesWithCompletion
  <2>4. QED
    BY <1>1, <2>2, <2>3, StepsRefine DEF RepoEffect
<1>2. TxInv /\ [TxNext]_txVars => [KeepsFinishedRuns /\ HeadMovesWithCompletion]_repoVars
  BY <1>1
<1>3. QED
  BY <1>2, TxInductive, PTL DEF TxSpec, HistoryIsKept
=============================================================================
