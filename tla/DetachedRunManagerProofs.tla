---------------------- MODULE DetachedRunManagerProofs ----------------------
(***************************************************************************)
(* Proofs about DetachedRunManager, for any number of runs and requests    *)
(* and whatever fails.                                                     *)
(*                                                                         *)
(* RunInv says what holds of one run by itself: its rows and streams, its  *)
(* channel and its _execute task.  The other parts tie the runs to what    *)
(* refers to them: submissions, the queue, the worker, cancellations,      *)
(* attachments and the loop of close().  QuietInv is what holds as long as *)
(* no repository call raised.                                              *)
(***************************************************************************)
EXTENDS DetachedRunManager, TLAPS

Statuses == {"absent", "in_progress"} \cup TerminalStatus
Channel == [open : BOOLEAN, terminal : BOOLEAN, cancelRequested : BOOLEAN, events : Nat]
Exec == [pc : ExecPcs, replay : BOOLEAN, cancelling : BOOLEAN,
         then : {"none", "running", "errored", "finished"}, event : Event \cup {None}]
Item == [run : Runs, replay : BOOLEAN]
Request == [pc : {"idle", "admitting", "admitted", "awaiting", "persisting", "publishing"},
            run : Runs \cup {None}, replay : BOOLEAN, event : Event \cup {None}]
Closer == [pc : {"none", "failing", "publishing", "next"}, run : Runs \cup {None},
           event : Event \cup {None}, visited : SUBSET Runs, owned : SUBSET Runs]

TypeInv ==
    /\ durable \in [Runs -> Statuses]
    /\ primary \in [Runs -> Seq(Event)] /\ local \in [Runs -> Seq(Event)]
    /\ degraded \in SUBSET Runs
    /\ up \in {"down", "serving", "closing", "interrupting", "closed"}
    /\ channel \in [Runs -> Channel] /\ exec \in [Runs -> Exec]
    /\ queue \in Seq(Item \cup {Stop})
    /\ worker \in [pc : {"none", "idle", "busy", "returned", "dead"},
                   run : Runs \cup {None}, cancelling : BOOLEAN]
    /\ submits \in [Submitters -> Request]
    /\ cancels \in [Cancellers -> Request]
    /\ attaches \in [Attachers -> Request]
    /\ closer \in Closer
    /\ budget \in [restarts : Nat, db : 0..DbFaults, redis : Nat]
    /\ agentRuns \in [Runs -> Nat]

-----------------------------------------------------------------------------
Over(r) == durable[r] \in TerminalStatus

\* The last event of a run that has ended, on its way to Redis.
Final(e, r) == e \in Event /\ e.end # "no" /\ Over(r)

\* The task of run r has more to say than the event it is publishing.
Going(r) ==
    \/ exec[r].pc \in {"created", "running", "committing", "failing", "errored", "reporting"}
    \/ exec[r].pc = "publishing" /\ exec[r].then # "finished"

\* The local buffer holds the events of the channel, under their numbers.
Numbered(r) ==
    /\ Len(local[r]) = channel[r].events
    /\ \A i \in 1..Len(local[r]) : local[r][i].id = i
    /\ Ended(local[r]) => channel[r].terminal

ExecInv(r) ==
    /\ exec[r].replay => /\ durable[r] = "completed"
                         /\ exec[r].pc \notin {"committing", "failing", "errored", "reporting"}
    /\ Going(r) => ~channel[r].terminal
    /\ exec[r].pc = "publishing" =>
          /\ exec[r].event \in Event
          /\ exec[r].then \in {"running", "errored", "finished"}
          /\ exec[r].then = "finished" <=> exec[r].event.end # "no"
          /\ exec[r].then = "errored" => ~exec[r].replay /\ Over(r)
          /\ exec[r].then = "finished" => Ended(local[r])
    /\ exec[r].pc = "errored" => Over(r)
    /\ exec[r].pc = "finished" => Ended(local[r]) /\ (r \in degraded \/ Ended(primary[r]))
    /\ exec[r].pc # "none" /\ ~exec[r].replay => agentRuns[r] = 1 /\ Numbered(r)

RunInv(r) ==
    /\ durable[r] = "absent" => /\ local[r] = <<>> /\ primary[r] = <<>>
                                /\ agentRuns[r] = 0 /\ ~channel[r].open
    /\ ~channel[r].open => channel[r] = NoChannel /\ exec[r].pc = "none"
    /\ channel[r].terminal => Over(r)
    /\ Ended(local[r]) \/ Ended(primary[r]) => Over(r)
    /\ agentRuns[r] <= 1
    /\ ExecInv(r)

\* Run r as its admission left it.
Untouched(r) ==
    /\ durable[r] = "in_progress" /\ agentRuns[r] = 0 /\ local[r] = <<>>
    /\ channel[r].events = 0 /\ ~channel[r].terminal

\* Submission s was told of a new run and has not enqueued it yet.
Fresh(s) == submits[s].pc = "admitted" /\ ~submits[s].replay

SubmitsInv ==
    /\ \A s \in Submitters :
          /\ submits[s].pc \in {"idle", "admitting", "admitted"}
          /\ submits[s].pc # "idle" => submits[s].run \in Runs
          /\ submits[s].pc = "admitted" /\ submits[s].replay
                => durable[submits[s].run] = "completed"
          /\ Fresh(s) => Untouched(submits[s].run) /\ ~channel[submits[s].run].open
    /\ \A s, u \in Submitters : Fresh(s) /\ Fresh(u) /\ submits[s].run = submits[u].run => s = u

\* A queued run has a channel and no task; unless it was cancelled, or its worker
\* has returned, nothing has happened to it.
ItemInv(x) ==
    /\ channel[x.run].open /\ exec[x.run].pc = "none"
    /\ IF x.replay THEN durable[x.run] = "completed"
       ELSE durable[x.run] # "absent" /\ agentRuns[x.run] = 0
    /\ ~channel[x.run].cancelRequested /\ worker.pc # "returned" =>
          /\ ~channel[x.run].terminal
          /\ ~x.replay => Untouched(x.run)

QueueInv ==
    /\ \A i \in 1..Len(queue) : queue[i] # Stop => ItemInv(queue[i])
    /\ \A i, j \in 1..Len(queue) :
          queue[i] # Stop /\ queue[j] # Stop /\ queue[i].run = queue[j].run => i = j

WorkerInv ==
    /\ \A r \in Runs : exec[r].pc \in Suspended => worker.pc = "busy" /\ worker.run = r
    /\ worker.pc = "busy" => worker.run \in Runs /\ exec[worker.run].pc \in Suspended \cup Finished
    /\ up = "closed" => worker.pc \in {"returned", "dead"}
    /\ \A r \in Runs : exec[r].pc = "cancelled" \/ exec[r].cancelling =>
          channel[r].cancelRequested \/ up \in {"interrupting", "closed"}
    /\ \A r \in Runs : up = "serving" /\ channel[r].open /\ ~channel[r].cancelRequested
          => Queued(r) \/ exec[r].pc # "none"

CancelInv(c) ==
    /\ cancels[c].pc \in {"idle", "awaiting", "persisting", "publishing"}
    /\ cancels[c].pc = "idle" => cancels[c].run = None
    /\ cancels[c].pc # "idle" =>
          /\ cancels[c].run \in Runs
          /\ channel[cancels[c].run].open /\ channel[cancels[c].run].cancelRequested
    /\ cancels[c].pc \in {"persisting", "publishing"} =>
          exec[cancels[c].run].pc \notin Suspended
    /\ cancels[c].pc = "publishing" => Final(cancels[c].event, cancels[c].run)

AttachInv(a) ==
    attaches[a].pc = "publishing" =>
        attaches[a].run \in Runs /\ Final(attaches[a].event, attaches[a].run)

CancelsInv == \A c \in Cancellers : CancelInv(c)
AttachesInv == \A a \in Attachers : AttachInv(a)

\* The loop of close() runs after the worker returned.  What it visited is over, but
\* for the run it is just failing.
CloserInv ==
    /\ closer.pc # "none" => worker.pc = "returned"
    /\ closer.pc \in {"failing", "publishing"} => closer.run \in Runs
    /\ closer.pc = "failing" => channel[closer.run].open
    /\ closer.pc = "publishing" => Final(closer.event, closer.run)
    /\ \A r \in closer.visited : Over(r) \/ (closer.pc = "failing" /\ r = closer.run)

SafeInv ==
    /\ TypeInv
    /\ \A r \in Runs : RunInv(r)
    /\ SubmitsInv /\ QueueInv /\ WorkerInv
    /\ CancelsInv /\ AttachesInv /\ CloserInv

-----------------------------------------------------------------------------
\* Without database faults: the task of a run finds it in progress until it
\* finalizes it, and every announcement carries the status that was committed.
QuietRun(r) ==
    /\ \A i \in 1..Len(local[r]) : local[r][i].end \in {"no", durable[r]}
    /\ \A i \in 1..Len(primary[r]) : primary[r][i].end \in {"no", durable[r]}
    /\ exec[r].pc \notin {"reporting", "raised"}
    /\ exec[r].pc = "publishing" => exec[r].event.end \in {"no", durable[r]}
    /\ /\ ~exec[r].replay
       /\ \/ exec[r].pc \in {"created", "running", "committing", "failing"}
          \/ exec[r].pc = "publishing" /\ exec[r].then = "running"
       => durable[r] = "in_progress"
    /\ exec[r].pc = "errored" \/ (exec[r].pc = "publishing" /\ exec[r].then = "errored")
       => durable[r] = "error"

\* An open run is accounted for: queued, being cancelled, executing, or left to the
\* loop of close(), which may have ended early.
Accounted(r) ==
    channel[r].open /\ durable[r] = "in_progress" =>
        \/ Queued(r) \/ Cancelling(r) \/ exec[r].pc \in Suspended
        \/ up = "interrupting" \/ (up = "closed" /\ closer.pc # "none")

\* What a request or close() announces is what was committed.
CancelQuiet(c) ==
    cancels[c].pc = "publishing" => cancels[c].event.end = durable[cancels[c].run]
AttachQuiet(a) ==
    attaches[a].pc = "publishing" => attaches[a].event.end = durable[attaches[a].run]
CloserQuiet == closer.pc = "publishing" => closer.event.end = durable[closer.run]

QuietInv ==
    budget.db = DbFaults =>
        /\ \A r \in Runs : QuietRun(r) /\ Accounted(r)
        /\ \A r \in Runs : channel[r].cancelRequested /\ durable[r] = "in_progress"
                              => Cancelling(r)
        /\ worker.pc # "dead"
        /\ \A c \in Cancellers : CancelQuiet(c)
        /\ \A a \in Attachers : AttachQuiet(a)
        /\ CloserQuiet

ManagerInv == SafeInv /\ QuietInv

-----------------------------------------------------------------------------
\* What follows the last event of a stream.
LEMMA AppendEvent ==
  ASSUME NEW events \in Seq(Event), NEW e \in Event
  PROVE  /\ Append(events, e) \in Seq(Event)
         /\ Len(Append(events, e)) = Len(events) + 1
         /\ \A i \in 1..Len(events) : Append(events, e)[i] = events[i]
         /\ Append(events, e)[Len(events) + 1] = e
         /\ Ended(Append(events, e)) <=> e.end # "no"
<1>1. /\ Append(events, e) \in Seq(Event)
      /\ Len(Append(events, e)) = Len(events) + 1
      /\ \A i \in 1..Len(events) : Append(events, e)[i] = events[i]
      /\ Append(events, e)[Len(events) + 1] = e
  OBVIOUS
<1>2. Append(events, e) # <<>>
  BY <1>1
<1>3. QED
  BY <1>1, <1>2 DEF Ended, Last

\* The local half of publish: other buffers are as they were, this one takes the
\* event unless it has ended.
LEMMA LocalEffect ==
  ASSUME TypeInv, NEW r \in Runs, NEW e \in Event, PublishLocal(r, e)
  PROVE  /\ local' \in [Runs -> Seq(Event)]
         /\ \A q \in Runs \ {r} : local'[q] = local[q]
         /\ local'[r] = IF Ended(local[r]) THEN local[r] ELSE Append(local[r], e)
         /\ Ended(local'[r]) <=> Ended(local[r]) \/ e.end # "no"
<1>1. local \in [Runs -> Seq(Event)]
  BY DEF TypeInv
<1>2. CASE Ended(local[r])
  BY <1>1, <1>2 DEF PublishLocal
<1>3. CASE ~Ended(local[r])
  BY <1>1, <1>3, AppendEvent DEF PublishLocal
<1>4. QED
  BY <1>2, <1>3

\* The primary half: the stream takes the event, or the run is degraded.
LEMMA PrimaryEffect ==
  ASSUME TypeInv, NEW r \in Runs, NEW e \in Event, PublishPrimary(r, e)
  PROVE  /\ primary' \in [Runs -> Seq(Event)]
         /\ degraded' \in SUBSET Runs
         /\ budget' \in [restarts : Nat, db : 0..DbFaults, redis : Nat]
         /\ budget'.db = budget.db
         /\ \A q \in Runs \ {r} : primary'[q] = primary[q] /\ (q \in degraded' <=> q \in degraded)
         /\ r \in degraded => r \in degraded'
         /\ primary'[r] \in {primary[r], Append(primary[r], e)}
         /\ primary'[r] = Append(primary[r], e) \/ r \in degraded'
<1>1. /\ primary \in [Runs -> Seq(Event)] /\ degraded \in SUBSET Runs
      /\ budget \in [restarts : Nat, db : 0..DbFaults, redis : Nat]
  BY DEF TypeInv
<1>2. primary' \in {primary, [primary EXCEPT ![r] = Append(@, e)]}
  BY DEF PublishPrimary, Accepted
<1>3. /\ primary' \in [Runs -> Seq(Event)]
      /\ \A q \in Runs \ {r} : primary'[q] = primary[q]
      /\ primary'[r] \in {primary[r], Append(primary[r], e)}
  <2>1. Append(primary[r], e) \in Seq(Event)
    BY <1>1, AppendEvent
  <2>2. CASE primary' = primary
    BY <1>1, <2>2
  <2>3. CASE primary' = [primary EXCEPT ![r] = Append(@, e)]
    BY <1>1, <2>1, <2>3
  <2>4. QED
    BY <1>2, <2>2, <2>3
<1>4. degraded' \in {degraded, degraded \cup {r}}
  BY DEF PublishPrimary
<1>5. budget' \in [restarts : Nat, db : 0..DbFaults, redis : Nat] /\ budget'.db = budget.db
  <2>1. CASE UNCHANGED budget
    BY <1>1, <2>1
  <2>2. CASE budget.redis > 0 /\ budget' = [budget EXCEPT !.redis = @ - 1]
    BY <1>1, <2>2
  <2>3. QED
    BY <2>1, <2>2 DEF PublishPrimary
<1>6. primary'[r] = Append(primary[r], e) \/ r \in degraded'
  BY <1>1 DEF PublishPrimary, Accepted
<1>7. QED
  BY <1>1, <1>3, <1>4, <1>5, <1>6

\* A run's channel numbers its next event.
LEMMA RecordEffect ==
  ASSUME TypeInv, NEW r \in Runs, NEW end \in {"no"} \cup TerminalStatus,
         channel' = Recorded(r, end)
  PROVE  /\ channel' \in [Runs -> Channel]
         /\ \A q \in Runs \ {r} : channel'[q] = channel[q]
         /\ channel'[r].open = channel[r].open
         /\ channel'[r].cancelRequested = channel[r].cancelRequested
         /\ channel'[r].events = channel[r].events + 1
         /\ channel'[r].terminal <=> end # "no"
         /\ NextEvent(r, end) \in Event
         /\ NextEvent(r, end).id = channel[r].events + 1 /\ NextEvent(r, end).end = end
<1>1. channel \in [Runs -> Channel] /\ channel[r].events \in Nat
  BY DEF TypeInv, Channel
<1>2. PICK b \in BOOLEAN : b = (end # "no")
  OBVIOUS
<1>3. PICK n \in Nat : n = channel[r].events + 1
  BY <1>1
<1> DEFINE c == [channel[r] EXCEPT !.events = n, !.terminal = b]
<1>4. channel' = [channel EXCEPT ![r] = c]
  BY <1>1, <1>2, <1>3 DEF Recorded
<1>5. c \in Channel
  BY <1>1, <1>2 DEF Channel
<1>6. /\ c.open = channel[r].open /\ c.cancelRequested = channel[r].cancelRequested
      /\ c.events = channel[r].events + 1
  BY <1>1, <1>3 DEF Channel
<1>7. c.terminal = b
  BY <1>1 DEF Channel
<1>8. NextEvent(r, end) \in Event
  BY <1>1 DEF NextEvent, Event
<1>9. NextEvent(r, end).id = channel[r].events + 1 /\ NextEvent(r, end).end = end
  BY DEF NextEvent
<1>10. channel'[r] = c /\ \A q \in Runs \ {r} : channel'[q] = channel[q]
  BY <1>1, <1>4
<1>11. channel' \in [Runs -> Channel]
  BY <1>1, <1>4, <1>5
<1> HIDE DEF c
<1>12. QED
  BY <1>2, <1>6, <1>7, <1>8, <1>9, <1>10, <1>11

-----------------------------------------------------------------------------
\* Run q is as it was.
SameRun(q) ==
    /\ durable'[q] = durable[q] /\ local'[q] = local[q] /\ primary'[q] = primary[q]
    /\ q \in degraded' <=> q \in degraded
    /\ channel'[q] = channel[q] /\ exec'[q] = exec[q] /\ agentRuns'[q] = agentRuns[q]

\* What is said of a run rests on these variables of the run alone.
LEMMA SameRunKeeps ==
  ASSUME NEW q \in Runs, SameRun(q)
  PROVE  /\ RunInv(q) => RunInv(q)'
         /\ QuietRun(q) => QuietRun(q)'
  BY DEF SameRun, RunInv, ExecInv, Going, Numbered, QuietRun, Over

\* A step of the task of run r concerns that run alone.
LEMMA TaskFrame ==
  ASSUME ManagerInv, NEW r \in Runs, exec[r].pc \in Suspended,
         UNCHANGED <<up, queue, worker, requests, closer>>,
         \A q \in Runs \ {r} : SameRun(q),
         exec'[r].pc \in Suspended \cup Finished,
         exec'[r].cancelling => exec[r].cancelling,
         exec'[r].pc = "cancelled" => exec[r].cancelling,
         channel'[r].open, channel'[r].cancelRequested = channel[r].cancelRequested,
         durable'[r] # "absent", Over(r) => durable'[r] = durable[r],
         budget'.db <= budget.db,
         TypeInv', RunInv(r)', budget'.db = DbFaults => QuietRun(r)'
  PROVE  ManagerInv'
<1>1. /\ \A q \in Runs : RunInv(q)
      /\ SubmitsInv /\ QueueInv /\ WorkerInv /\ CancelsInv /\ AttachesInv /\ CloserInv
      /\ QuietInv /\ TypeInv
  BY DEF ManagerInv, SafeInv
<1>2. /\ channel[r].open /\ exec[r].pc # "none" /\ worker.pc = "busy" /\ worker.run = r
      /\ exec[r].pc \notin Finished
  BY <1>1 DEF RunInv, Suspended, Finished, WorkerInv
<1>3. \A q \in Runs : RunInv(q)'
  BY <1>1, SameRunKeeps
<1>4. \A q \in Runs : Over(q) => Over(q)' /\ durable'[q] = durable[q]
  BY DEF SameRun, Over
<1>5. \A q \in Runs : durable[q] = "completed" => durable'[q] = "completed"
  BY <1>4 DEF Over, TerminalStatus
<1>6. SubmitsInv'
  <2>1. \A s \in Submitters : Fresh(s) => SameRun(submits[s].run) /\ submits[s].run \in Runs
    BY <1>1, <1>2 DEF SubmitsInv, Fresh
  <2>2. \A s \in Submitters : Fresh(s)' <=> Fresh(s)
    BY DEF Fresh, requests
  <2>3. submits' = submits
    BY DEF requests
  <2>4. QED
    BY <1>1, <1>5, <2>1, <2>2, <2>3 DEF SubmitsInv, SameRun, Untouched
<1>7. QueueInv'
  <2>1. ASSUME NEW x \in Item, ItemInv(x)
        PROVE  ItemInv(x)'
    <3>1. x.run \in Runs /\ x.run # r
      BY <1>2, <2>1 DEF Item, ItemInv
    <3>2. QED
      BY <2>1, <3>1 DEF ItemInv, SameRun, Untouched
  <2>2. \A i \in 1..Len(queue) : queue[i] # Stop => queue[i] \in Item
    BY <1>1 DEF TypeInv
  <2>3. QED
    BY <1>1, <2>1, <2>2 DEF QueueInv
<1>8. WorkerInv'
  <2>1. \A q \in Runs : exec'[q].pc \in Suspended => q = r \/ exec[q].pc \in Suspended
    BY DEF SameRun
  <2>2. \A q \in Runs : exec'[q].pc = "cancelled" \/ exec'[q].cancelling =>
           channel'[q].cancelRequested \/ up' \in {"interrupting", "closed"}
    BY <1>1 DEF WorkerInv, SameRun
  <2>3. \A q \in Runs : Queued(q)' <=> Queued(q)
    BY DEF Queued
  <2>4. \A q \in Runs : /\ channel'[q].open => channel[q].open
                        /\ channel'[q].cancelRequested = channel[q].cancelRequested
                        /\ exec[q].pc # "none" => exec'[q].pc # "none"
    BY <1>2 DEF SameRun, Suspended, Finished
  <2>5. \A q \in Runs : up' = "serving" /\ channel'[q].open /\ ~channel'[q].cancelRequested
           => Queued(q)' \/ exec'[q].pc # "none"
    <3>1. \A q \in Runs : up = "serving" /\ channel[q].open /\ ~channel[q].cancelRequested
             => Queued(q) \/ exec[q].pc # "none"
      BY <1>1 DEF WorkerInv
    <3>2. QED
      BY <2>3, <2>4, <3>1
  <2>6. QED
    BY <1>1, <1>2, <2>1, <2>2, <2>5 DEF WorkerInv
<1>9. CancelsInv' /\ AttachesInv' /\ CloserInv'
  <2>1. cancels' = cancels /\ attaches' = attaches /\ closer' = closer
    BY DEF requests
  <2>2. \A c \in Cancellers : cancels[c].pc \in {"persisting", "publishing"} => cancels[c].run # r
    BY <1>1 DEF CancelsInv, CancelInv
  <2>3. CancelsInv'
    BY <1>1, <1>2, <1>4, <2>1, <2>2 DEF CancelsInv, CancelInv, Final, SameRun
  <2>4. AttachesInv'
    BY <1>1, <1>4, <2>1 DEF AttachesInv, AttachInv, Final
  <2>5. CloserInv'
    <3>1. \A q \in Runs : channel[q].open => channel'[q].open
      BY DEF SameRun
    <3>2. closer.visited \subseteq Runs /\ worker' = worker
      BY <1>1 DEF TypeInv, Closer
    <3>3. QED
      BY <1>1, <1>4, <2>1, <3>1, <3>2 DEF CloserInv, Final
  <2>6. QED
    BY <2>3, <2>4, <2>5
<1>10. QuietInv'
  <2> SUFFICES ASSUME budget'.db = DbFaults
               PROVE  QuietInv'
    BY DEF QuietInv
  <2>1. budget.db = DbFaults
    BY <1>1 DEF TypeInv
  <2>2. QuietInv!2
    BY <1>1, <2>1 DEF QuietInv
  <2>3. \A q \in Runs : QuietRun(q)'
    BY <2>2, SameRunKeeps
  <2>4. cancels' = cancels /\ attaches' = attaches /\ closer' = closer
    BY DEF requests
  <2>5. \A q \in Runs : Queued(q)' = Queued(q) /\ Cancelling(q)' = Cancelling(q)
    BY <2>4 DEF Queued, Cancelling
  <2>6. \A q \in Runs : durable'[q] = "in_progress" => durable[q] = "in_progress"
    <3>1. durable[r] # "absent"
      BY <1>1, <1>2 DEF RunInv
    <3>2. durable[r] = "in_progress" \/ Over(r)
      BY <1>1, <3>1 DEF TypeInv, Statuses, Over
    <3>3. QED
      BY <3>2 DEF SameRun, Over, TerminalStatus
  <2>7. \A q \in Runs : channel'[q].cancelRequested = channel[q].cancelRequested
    BY DEF SameRun
  <2>8. \A q \in Runs : channel'[q].cancelRequested /\ durable'[q] = "in_progress"
           => Cancelling(q)'
    BY <2>2, <2>5, <2>6, <2>7
  <2>9. \A q \in Runs : Accounted(q)'
    <3>1. ASSUME NEW q \in Runs, q # r PROVE Accounted(q)'
      BY <2>2, <2>5, <3>1 DEF Accounted, SameRun
    <3>2. ASSUME durable'[r] = "in_progress", exec'[r].pc \notin Suspended, up' # "interrupting"
          PROVE  Cancelling(r)'
      <4>1. exec'[r].pc \in {"finished", "cancelled"}
        BY <2>3, <3>2 DEF QuietRun, Finished
      <4>2. exec'[r].pc # "finished"
        BY <1>3, <3>2 DEF RunInv, ExecInv, Over, TerminalStatus
      <4>3. channel[r].cancelRequested \/ up = "closed"
        BY <1>1, <3>2, <4>1, <4>2 DEF WorkerInv
      <4>4. up # "closed"
        BY <1>1, <1>2 DEF WorkerInv
      <4>5. QED
        BY <2>7, <2>8, <3>2, <4>3, <4>4
    <3>3. Accounted(r)'
      BY <3>2 DEF Accounted
    <3>4. QED
      BY <3>1, <3>3
  <2>10. \A c \in Cancellers : CancelQuiet(c)'
    BY <1>1, <1>4, <2>2, <2>4 DEF CancelsInv, CancelInv, CancelQuiet, Final
  <2>11. \A a \in Attachers : AttachQuiet(a)'
    BY <1>1, <1>4, <2>2, <2>4 DEF AttachesInv, AttachInv, AttachQuiet, Final
  <2>12. CloserQuiet'
    BY <1>1, <1>4, <2>2, <2>4 DEF CloserInv, CloserQuiet, Final, TypeInv, Closer
  <2>13. QED
    BY <2>2, <2>3, <2>8, <2>9, <2>10, <2>11, <2>12 DEF QuietInv
<1>11. QED
  BY <1>3, <1>6, <1>7, <1>8, <1>9, <1>10 DEF ManagerInv, SafeInv

-----------------------------------------------------------------------------
\* The task of run r goes on at pc.
LEMMA GotoEffect ==
  ASSUME TypeInv, NEW r \in Runs, NEW pc \in ExecPcs, Goto(r, pc)
  PROVE  /\ exec' \in [Runs -> Exec]
         /\ \A q \in Runs \ {r} : exec'[q] = exec[q]
         /\ exec'[r].pc = pc /\ exec'[r].then = exec[r].then /\ exec'[r].event = exec[r].event
         /\ exec'[r].replay = exec[r].replay /\ exec'[r].cancelling = exec[r].cancelling
<1>1. exec \in [Runs -> Exec] /\ exec[r] \in Exec
  BY DEF TypeInv
<1> DEFINE x == [exec[r] EXCEPT !.pc = pc]
<1>2. exec' = [exec EXCEPT ![r] = x]
  BY <1>1 DEF Goto
<1>3. x \in Exec
  BY <1>1 DEF Exec
<1>4. /\ x.pc = pc /\ x.then = exec[r].then /\ x.event = exec[r].event
      /\ x.replay = exec[r].replay /\ x.cancelling = exec[r].cancelling
  BY <1>1 DEF Exec
<1> HIDE DEF x
<1>5. QED
  BY <1>1, <1>2, <1>3, <1>4

\* Without faults the events that were published stay right: the status of a run
\* that is over does not change any more.
LEMMA EventsStayRight ==
  ASSUME TypeInv, NEW r \in Runs, QuietRun(r), Over(r) => durable'[r] = durable[r]
  PROVE  /\ \A i \in 1..Len(local[r]) : local[r][i].end \in {"no", durable'[r]}
         /\ \A i \in 1..Len(primary[r]) : primary[r][i].end \in {"no", durable'[r]}
<1>1. local[r] \in Seq(Event) /\ primary[r] \in Seq(Event)
  BY DEF TypeInv
<1>2. ASSUME NEW e \in Event, e.end \in {"no", durable[r]}
      PROVE  e.end \in {"no", durable'[r]}
  BY <1>2 DEF Event, Over
<1>3. ASSUME NEW i \in 1..Len(local[r])
      PROVE  local[r][i].end \in {"no", durable'[r]}
  <2>1. local[r][i] \in Event /\ local[r][i].end \in {"no", durable[r]}
    BY <1>1 DEF QuietRun
  <2>2. QED
    BY <1>2, <2>1
<1>4. ASSUME NEW i \in 1..Len(primary[r])
      PROVE  primary[r][i].end \in {"no", durable'[r]}
  <2>1. primary[r][i] \in Event /\ primary[r][i].end \in {"no", durable[r]}
    BY <1>1 DEF QuietRun
  <2>2. QED
    BY <1>2, <2>1
<1>5. QED
  BY <1>3, <1>4

\* The task of run r hands the next event to the transport.
LEMMA EmitEffect ==
  ASSUME TypeInv, NEW r \in Runs, NEW end \in {"no"} \cup TerminalStatus,
         NEW then \in {"running", "errored", "finished"}, Emit(r, end, then)
  PROVE  /\ exec' \in [Runs -> Exec]
         /\ \A q \in Runs \ {r} : exec'[q] = exec[q]
         /\ exec'[r].pc = "publishing" /\ exec'[r].then = then
         /\ exec'[r].event = NextEvent(r, end)
         /\ exec'[r].replay = exec[r].replay /\ exec'[r].cancelling = exec[r].cancelling
<1>1. exec \in [Runs -> Exec] /\ exec[r] \in Exec
  BY DEF TypeInv
<1>2. NextEvent(r, end) \in Event
  BY RecordEffect DEF Emit
<1> DEFINE x == [exec[r] EXCEPT !.pc = "publishing", !.then = then, !.event = NextEvent(r, end)]
<1>3. exec' = [exec EXCEPT ![r] = x]
  BY <1>1 DEF Emit
<1>4. x \in Exec
  BY <1>1, <1>2 DEF Exec, ExecPcs, Suspended
<1>5. /\ x.pc = "publishing" /\ x.then = then /\ x.event = NextEvent(r, end)
      /\ x.replay = exec[r].replay /\ x.cancelling = exec[r].cancelling
  BY <1>1 DEF Exec
<1> HIDE DEF x
<1>6. QED
  BY <1>1, <1>3, <1>4, <1>5

\* A task that emits an event keeps the invariant if the event, and where the task
\* goes on, fit the status of the run.
LEMMA EmitStep ==
  ASSUME ManagerInv, NEW r \in Runs,
         exec[r].pc \in {"created", "running", "committing", "failing", "errored", "reporting"},
         NEW end \in {"no"} \cup TerminalStatus,
         NEW then \in {"running", "errored", "finished"}, Emit(r, end, then),
         then = "finished" <=> end # "no",
         then = "errored" => ~exec[r].replay,
         durable' \in [Runs -> Statuses],
         \A q \in Runs \ {r} : durable'[q] = durable[q],
         durable'[r] # "absent", Over(r) => durable'[r] = durable[r],
         end # "no" \/ then = "errored" => durable'[r] \in TerminalStatus,
         budget.db = DbFaults => /\ end \in {"no", durable'[r]}
                                 /\ then = "errored" => durable'[r] = "error"
                                 /\ then = "running" /\ ~exec[r].replay
                                       => durable'[r] = "in_progress",
         UNCHANGED <<primary, degraded, up, queue, worker, requests, closer, budget, agentRuns>>
  PROVE  ManagerInv'
<1>1. TypeInv /\ RunInv(r) /\ (budget.db = DbFaults => QuietRun(r))
  BY DEF ManagerInv, SafeInv, QuietInv
<1> DEFINE e == NextEvent(r, end)
<1>2. /\ channel' \in [Runs -> Channel]
      /\ \A q \in Runs \ {r} : channel'[q] = channel[q]
      /\ channel'[r].open = channel[r].open
      /\ channel'[r].cancelRequested = channel[r].cancelRequested
      /\ channel'[r].events = channel[r].events + 1
      /\ channel'[r].terminal <=> end # "no"
      /\ e \in Event /\ e.id = channel[r].events + 1 /\ e.end = end
  BY <1>1, RecordEffect DEF Emit
<1>3. /\ local' \in [Runs -> Seq(Event)]
      /\ \A q \in Runs \ {r} : local'[q] = local[q]
      /\ local'[r] = IF Ended(local[r]) THEN local[r] ELSE Append(local[r], e)
      /\ Ended(local'[r]) <=> Ended(local[r]) \/ end # "no"
  BY <1>1, <1>2, LocalEffect DEF Emit
<1>4. /\ exec' \in [Runs -> Exec]
      /\ \A q \in Runs \ {r} : exec'[q] = exec[q]
      /\ exec'[r].pc = "publishing" /\ exec'[r].then = then /\ exec'[r].event = e
      /\ exec'[r].replay = exec[r].replay /\ exec'[r].cancelling = exec[r].cancelling
  BY <1>1, EmitEffect
<1> HIDE DEF e
<1>5. /\ exec[r].pc # "none" /\ channel[r].open /\ ~channel[r].terminal
      /\ exec[r].pc \in Suspended
  BY <1>1 DEF RunInv, ExecInv, Going, Suspended
<1>6. TypeInv'
  BY <1>1, <1>2, <1>3, <1>4 DEF TypeInv, requests
<1>7. local[r] \in Seq(Event) /\ channel[r].events \in Nat
  BY <1>1 DEF TypeInv, Channel
<1>8. Over(r)' <=> durable'[r] \in TerminalStatus
  BY DEF Over
<1>9. ~exec[r].replay => agentRuns[r] = 1 /\ Numbered(r)'
  <2> SUFFICES ASSUME ~exec[r].replay PROVE agentRuns[r] = 1 /\ Numbered(r)'
    OBVIOUS
  <2>1. agentRuns[r] = 1 /\ Numbered(r)
    BY <1>1, <1>5 DEF RunInv, ExecInv
  <2>2. local'[r] = Append(local[r], e)
    BY <1>3, <1>5, <2>1 DEF Numbered
  <2>3. /\ Len(local'[r]) = Len(local[r]) + 1
        /\ \A i \in 1..Len(local[r]) : local'[r][i] = local[r][i]
        /\ local'[r][Len(local[r]) + 1] = e
    BY <1>2, <1>7, <2>2, AppendEvent
  <2>4. ASSUME NEW i \in 1..Len(local'[r])
        PROVE  local'[r][i].id = i
    <3>1. CASE i \in 1..Len(local[r])
      BY <2>1, <2>3, <3>1 DEF Numbered
    <3>2. CASE i = Len(local[r]) + 1
      BY <1>2, <2>1, <2>3, <3>2 DEF Numbered
    <3>3. QED
      BY <1>7, <2>3, <3>1, <3>2
  <2>5. Ended(local'[r]) => channel'[r].terminal
    BY <1>2, <1>3, <1>5, <2>1 DEF Numbered
  <2>6. QED
    BY <1>2, <2>1, <2>3, <2>4, <2>5 DEF Numbered
<1>10. ExecInv(r)'
  BY <1>1, <1>2, <1>3, <1>4, <1>5, <1>8, <1>9
     DEF RunInv, ExecInv, Going, Over, TerminalStatus
<1>11. RunInv(r)'
  BY <1>1, <1>2, <1>3, <1>5, <1>8, <1>10 DEF RunInv, Over
<1>12. budget'.db = DbFaults => QuietRun(r)'
  <2> SUFFICES ASSUME budget.db = DbFaults PROVE QuietRun(r)'
    OBVIOUS
  <2>1. QuietRun(r) /\ primary[r] \in Seq(Event)
    BY <1>1 DEF TypeInv
  <2>3. \A i \in 1..Len(local[r]) : local[r][i].end \in {"no", durable'[r]}
    BY <1>1, <2>1, EventsStayRight
  <2>4. \A i \in 1..Len(primary[r]) : primary[r][i].end \in {"no", durable'[r]}
    BY <1>1, <2>1, EventsStayRight
  <2>5. \A i \in 1..Len(local'[r]) : local'[r][i].end \in {"no", durable'[r]}
    <3>1. CASE local'[r] = local[r]
      BY <2>3, <3>1
    <3>2. CASE local'[r] = Append(local[r], e)
      <4>1. /\ Len(local'[r]) = Len(local[r]) + 1
            /\ \A i \in 1..Len(local[r]) : local'[r][i] = local[r][i]
            /\ local'[r][Len(local[r]) + 1] = e
        BY <1>2, <1>7, <3>2, AppendEvent
      <4>2. QED
        BY <1>2, <1>7, <2>3, <4>1
    <3>3. QED
      BY <1>3, <3>1, <3>2
  <2>6. QED
    BY <1>2, <1>4, <2>4, <2>5 DEF QuietRun
<1>13. \A q \in Runs \ {r} : SameRun(q)
  BY <1>2, <1>3, <1>4 DEF SameRun
<1>14. /\ exec'[r].pc \in Suspended \cup Finished /\ exec'[r].pc # "cancelled"
       /\ budget'.db <= budget.db
  BY <1>1, <1>4 DEF Suspended, TypeInv
<1>15. QED
  BY <1>2, <1>4, <1>5, <1>6, <1>11, <1>12, <1>13, <1>14, TaskFrame

\* A task that goes on without a word keeps the invariant.
LEMMA GotoStep ==
  ASSUME ManagerInv, NEW r \in Runs,
         exec[r].pc \in {"running", "committing", "failing", "reporting"}, ~exec[r].replay,
         NEW pc \in {"committing", "failing", "reporting", "raised"}, Goto(r, pc),
         durable' \in [Runs -> Statuses],
         \A q \in Runs \ {r} : durable'[q] = durable[q],
         durable'[r] # "absent", Over(r) => durable'[r] = durable[r],
         budget' \in [restarts : Nat, db : 0..DbFaults, redis : Nat], budget'.db <= budget.db,
         budget'.db = DbFaults =>
            budget.db = DbFaults /\ durable'[r] = "in_progress" /\ pc \in {"committing", "failing"},
         UNCHANGED <<stores, up, channel, queue, worker, requests, closer, agentRuns>>
  PROVE  ManagerInv'
<1>1. TypeInv /\ RunInv(r) /\ (budget.db = DbFaults => QuietRun(r))
  BY DEF ManagerInv, SafeInv, QuietInv
<1>2. /\ exec' \in [Runs -> Exec]
      /\ \A q \in Runs \ {r} : exec'[q] = exec[q]
      /\ exec'[r].pc = pc /\ exec'[r].then = exec[r].then /\ exec'[r].event = exec[r].event
      /\ exec'[r].replay = exec[r].replay /\ exec'[r].cancelling = exec[r].cancelling
  BY <1>1, GotoEffect DEF ExecPcs, Suspended, Finished
<1>3. /\ exec[r].pc # "none" /\ channel[r].open /\ ~channel[r].terminal
      /\ exec[r].pc \in Suspended
  BY <1>1 DEF RunInv, ExecInv, Going, Suspended
<1>4. TypeInv'
  BY <1>1, <1>2 DEF TypeInv, requests, stores
<1>5. ExecInv(r)'
  BY <1>1, <1>2, <1>3 DEF RunInv, ExecInv, Going, Numbered, stores
<1>6. RunInv(r)'
  BY <1>1, <1>2, <1>3, <1>5 DEF RunInv, Over, stores
<1>7. budget'.db = DbFaults => QuietRun(r)'
  BY <1>1, <1>2, EventsStayRight DEF QuietRun, stores
<1>8. \A q \in Runs \ {r} : SameRun(q)
  BY <1>2 DEF SameRun, stores
<1>9. exec'[r].pc \in Suspended \cup Finished /\ exec'[r].pc # "cancelled"
  BY <1>2 DEF Suspended, Finished
<1>10. QED
  BY <1>2, <1>3, <1>4, <1>6, <1>7, <1>8, <1>9, TaskFrame

\* What a call to the repository that raises costs.
LEMMA RaiseEffect ==
  ASSUME TypeInv, DbRaises
  PROVE  /\ budget' \in [restarts : Nat, db : 0..DbFaults, redis : Nat]
         /\ budget'.db < budget.db /\ budget'.db # DbFaults
<1>1. budget \in [restarts : Nat, db : 0..DbFaults, redis : Nat] /\ DbFaults \in Nat
  BY ManagerAssumption DEF TypeInv
<1>2. PICK n \in 0..DbFaults : n = budget.db - 1 /\ n < budget.db /\ n # DbFaults
  BY <1>1 DEF DbRaises
<1>3. budget' = [budget EXCEPT !.db = n]
  BY <1>2 DEF DbRaises
<1>4. QED
  BY <1>1, <1>2, <1>3

\* The status fail_run or complete_run leaves behind.
LEMMA LandedEffect ==
  ASSUME TypeInv, NEW r \in Runs
  PROVE  /\ Landed(r) \in [Runs -> Statuses]
         /\ \A q \in Runs \ {r} : Landed(r)[q] = durable[q]
         /\ durable[r] # "absent" => Landed(r)[r] \in TerminalStatus
         /\ Over(r) => Landed(r)[r] = durable[r]
         /\ exec[r].pc # "committing" /\ durable[r] = "in_progress" => Landed(r)[r] = "error"
  BY DEF TypeInv, Landed, Statuses, TerminalStatus, Over

\* A task publishing its next event keeps its channel's numbering.
LEMMA ExecEmitsStep ==
  ASSUME ManagerInv, NEW r \in Runs, ExecEmits(r)
  PROVE  ManagerInv'
<1>1. exec[r].pc \in {"created", "running"} /\ Emit(r, "no", "running")
  BY DEF ExecEmits
<1>2. TypeInv /\ RunInv(r) /\ (budget.db = DbFaults => QuietRun(r))
  BY DEF ManagerInv, SafeInv, QuietInv
<1>3. durable' = durable /\ durable' \in [Runs -> Statuses] /\ durable[r] # "absent"
  BY <1>1, <1>2 DEF ExecEmits, TypeInv, RunInv
<1>4. budget.db = DbFaults /\ ~exec[r].replay => durable[r] = "in_progress"
  BY <1>1, <1>2 DEF QuietRun
<1>5. QED
  BY <1>1, <1>3, <1>4, EmitStep DEF ExecEmits

\* A replayed run announces what its completed row says.
LEMMA ReplayEndsStep ==
  ASSUME ManagerInv, NEW r \in Runs, ReplayEnds(r)
  PROVE  ManagerInv'
<1>1. exec[r].pc = "running" /\ exec[r].replay /\ Emit(r, "completed", "finished")
  BY DEF ReplayEnds
<1>2. TypeInv /\ RunInv(r)
  BY DEF ManagerInv, SafeInv
<1>3. durable' = durable /\ durable' \in [Runs -> Statuses] /\ durable[r] = "completed"
  BY <1>1, <1>2 DEF ReplayEnds, TypeInv, RunInv, ExecInv
<1>4. QED
  BY <1>1, <1>3, EmitStep DEF ReplayEnds, TerminalStatus

\* An agent that ends leaves its run to be committed or failed.
LEMMA AgentEndsStep ==
  ASSUME ManagerInv, NEW r \in Runs, AgentEnds(r)
  PROVE  ManagerInv'
<1>1. /\ exec[r].pc = "running" /\ ~exec[r].replay
      /\ \E pc \in {"committing", "failing"} : Goto(r, pc)
  BY DEF AgentEnds
<1>2. TypeInv /\ RunInv(r) /\ (budget.db = DbFaults => QuietRun(r))
  BY DEF ManagerInv, SafeInv, QuietInv
<1>3. durable' = durable /\ durable' \in [Runs -> Statuses] /\ durable[r] # "absent"
  BY <1>1, <1>2 DEF AgentEnds, TypeInv, RunInv
<1>4. budget' = budget /\ budget \in [restarts : Nat, db : 0..DbFaults, redis : Nat]
  BY <1>2 DEF AgentEnds, TypeInv
<1>5. budget.db = DbFaults => durable[r] = "in_progress"
  BY <1>1, <1>2 DEF QuietRun
<1>6. budget'.db <= budget.db
  BY <1>4
<1>7. QED
  BY <1>1, <1>3, <1>4, <1>5, <1>6, GotoStep DEF AgentEnds

\* Committing or failing an active run; one that is no longer active is reported.
LEMMA ExecFinalizesStep ==
  ASSUME ManagerInv, NEW r \in Runs, ExecFinalizes(r)
  PROVE  ManagerInv'
<1>1. exec[r].pc \in {"committing", "failing"}
  BY DEF ExecFinalizes
<1>2. TypeInv /\ RunInv(r) /\ (budget.db = DbFaults => QuietRun(r))
  BY DEF ManagerInv, SafeInv, QuietInv
<1>3. durable \in [Runs -> Statuses] /\ durable[r] # "absent" /\ ~exec[r].replay
  BY <1>1, <1>2 DEF TypeInv, RunInv, ExecInv
<1>4. CASE durable[r] # "in_progress"
  <2>1. budget.db # DbFaults
    BY <1>1, <1>2, <1>3, <1>4 DEF QuietRun
  <2>2. /\ budget' = budget /\ budget \in [restarts : Nat, db : 0..DbFaults, redis : Nat]
        /\ durable' = durable /\ Goto(r, "reporting") /\ UNCHANGED <<channel, local>>
    BY <1>2, <1>4 DEF ExecFinalizes, TypeInv
  <2>3. budget'.db <= budget.db
    BY <2>2
  <2>4. QED
    BY <1>1, <1>3, <2>1, <2>2, <2>3, GotoStep DEF ExecFinalizes, stores
<1>5. CASE durable[r] = "in_progress" /\ exec[r].pc = "committing"
  <2>1. durable' = [durable EXCEPT ![r] = "completed"] /\ Emit(r, "completed", "finished")
    BY <1>5 DEF ExecFinalizes
  <2>2. /\ durable' \in [Runs -> Statuses] /\ durable'[r] = "completed"
        /\ \A q \in Runs \ {r} : durable'[q] = durable[q]
    BY <1>3, <2>1 DEF Statuses, TerminalStatus
  <2>3. ~Over(r)
    BY <1>5 DEF Over, TerminalStatus
  <2>4. QED
    BY <1>1, <2>1, <2>2, <2>3, EmitStep DEF ExecFinalizes, TerminalStatus
<1>6. CASE durable[r] = "in_progress" /\ exec[r].pc = "failing"
  <2>1. durable' = [durable EXCEPT ![r] = "error"] /\ Emit(r, "no", "errored")
    BY <1>6 DEF ExecFinalizes
  <2>2. /\ durable' \in [Runs -> Statuses] /\ durable'[r] = "error"
        /\ \A q \in Runs \ {r} : durable'[q] = durable[q]
    BY <1>3, <2>1 DEF Statuses, TerminalStatus
  <2>3. ~Over(r)
    BY <1>6 DEF Over, TerminalStatus
  <2>4. QED
    BY <1>1, <1>3, <2>1, <2>2, <2>3, EmitStep DEF ExecFinalizes, TerminalStatus
<1>7. QED
  BY <1>1, <1>4, <1>5, <1>6

\* The error event of a run whose row already says error.
LEMMA ExecErroredStep ==
  ASSUME ManagerInv, NEW r \in Runs, ExecErrored(r)
  PROVE  ManagerInv'
<1>1. exec[r].pc = "errored" /\ Emit(r, "error", "finished")
  BY DEF ExecErrored
<1>2. TypeInv /\ RunInv(r) /\ (budget.db = DbFaults => QuietRun(r))
  BY DEF ManagerInv, SafeInv, QuietInv
<1>3. durable' = durable /\ durable' \in [Runs -> Statuses] /\ durable[r] # "absent"
  BY <1>1, <1>2 DEF ExecErrored, TypeInv, RunInv
<1>4. budget.db = DbFaults => durable[r] = "error"
  BY <1>1, <1>2 DEF QuietRun
<1>5. Over(r)
  BY <1>1, <1>2 DEF RunInv, ExecInv
<1>6. QED
  BY <1>1, <1>3, <1>4, <1>5, EmitStep DEF ExecErrored, TerminalStatus, Over

\* A finalization that raises has spent a database fault; its write may have landed.
LEMMA FinalizationRaisesStep ==
  ASSUME ManagerInv, NEW r \in Runs, FinalizationRaises(r)
  PROVE  ManagerInv'
<1>1. /\ exec[r].pc \in {"committing", "failing"} /\ DbRaises /\ Goto(r, "reporting")
      /\ durable' \in {durable, Landed(r)}
  BY DEF FinalizationRaises
<1>2. TypeInv /\ RunInv(r)
  BY DEF ManagerInv, SafeInv
<1>3. durable \in [Runs -> Statuses] /\ durable[r] # "absent" /\ ~exec[r].replay
  BY <1>1, <1>2 DEF TypeInv, RunInv, ExecInv
<1>4. /\ durable' \in [Runs -> Statuses] /\ durable'[r] # "absent"
      /\ \A q \in Runs \ {r} : durable'[q] = durable[q]
      /\ Over(r) => durable'[r] = durable[r]
  BY <1>1, <1>2, <1>3, LandedEffect DEF TerminalStatus
<1>5. /\ budget' \in [restarts : Nat, db : 0..DbFaults, redis : Nat]
      /\ budget'.db <= budget.db /\ budget'.db # DbFaults
  BY <1>1, <1>2, RaiseEffect DEF TypeInv
<1>6. QED
  BY <1>1, <1>3, <1>4, <1>5, GotoStep DEF FinalizationRaises

\* A run comes to be reported only after a database fault.
LEMMA ExecReportsStep ==
  ASSUME ManagerInv, NEW r \in Runs, ExecReports(r)
  PROVE  ManagerInv'
<1>1. exec[r].pc = "reporting"
  BY DEF ExecReports
<1>2. TypeInv /\ RunInv(r) /\ (budget.db = DbFaults => QuietRun(r))
  BY DEF ManagerInv, SafeInv, QuietInv
<1>3. ~channel[r].terminal /\ durable[r] # "absent" /\ budget.db # DbFaults
  BY <1>1, <1>2 DEF RunInv, ExecInv, Going, QuietRun
<1>4. durable' = Landed(r) /\ Emit(r, "error", "finished")
  BY <1>3 DEF ExecReports
<1>5. /\ durable' \in [Runs -> Statuses] /\ durable'[r] \in TerminalStatus
      /\ \A q \in Runs \ {r} : durable'[q] = durable[q]
      /\ Over(r) => durable'[r] = durable[r]
  BY <1>2, <1>3, <1>4, LandedEffect
<1>6. QED
  BY <1>1, <1>3, <1>4, <1>5, EmitStep DEF ExecReports, TerminalStatus

\* A report that raises too ends the task without a terminal event.
LEMMA ReportRaisesStep ==
  ASSUME ManagerInv, NEW r \in Runs, ReportRaises(r)
  PROVE  ManagerInv'
<1>1. exec[r].pc = "reporting" /\ DbRaises /\ Goto(r, "raised") /\ durable' = durable
  BY DEF ReportRaises
<1>2. TypeInv /\ RunInv(r)
  BY DEF ManagerInv, SafeInv
<1>3. durable' \in [Runs -> Statuses] /\ durable[r] # "absent" /\ ~exec[r].replay
  BY <1>1, <1>2 DEF TypeInv, RunInv, ExecInv
<1>4. /\ budget' \in [restarts : Nat, db : 0..DbFaults, redis : Nat]
      /\ budget'.db <= budget.db /\ budget'.db # DbFaults
  BY <1>1, <1>2, RaiseEffect DEF TypeInv
<1>5. QED
  BY <1>1, <1>3, <1>4, GotoStep DEF ReportRaises

-----------------------------------------------------------------------------
\* A publication that announces the end of a run only when it is over does not
\* put anything in the stream that the run's status contradicts.
LEMMA PublishEffect ==
  ASSUME TypeInv, NEW r \in Runs, NEW e \in Event, PublishPrimary(r, e),
         Ended(primary[r]) \/ e.end # "no" => Over(r)
  PROVE  /\ Ended(primary'[r]) => Over(r)
         /\ e.end # "no" => /\ Ended(primary[r]) => Ended(primary'[r])
                            /\ r \in degraded' \/ Ended(primary'[r])
         /\ (\A i \in 1..Len(primary[r]) : primary[r][i].end \in {"no", durable[r]})
            /\ e.end \in {"no", durable[r]}
               => \A i \in 1..Len(primary'[r]) : primary'[r][i].end \in {"no", durable[r]}
<1>1. /\ primary'[r] \in {primary[r], Append(primary[r], e)}
      /\ primary'[r] = Append(primary[r], e) \/ r \in degraded'
  BY PrimaryEffect
<1>2. primary[r] \in Seq(Event)
  BY DEF TypeInv
<1> DEFINE longer == Append(primary[r], e)
<1>3. /\ longer \in Seq(Event) /\ Len(longer) = Len(primary[r]) + 1
      /\ \A i \in 1..Len(primary[r]) : longer[i] = primary[r][i]
      /\ longer[Len(primary[r]) + 1] = e
      /\ Ended(longer) <=> e.end # "no"
  BY <1>2, AppendEvent
<1> HIDE DEF longer
<1>4. /\ Ended(primary'[r]) => Over(r)
      /\ e.end # "no" => /\ Ended(primary[r]) => Ended(primary'[r])
                         /\ r \in degraded' \/ Ended(primary'[r])
  <2>1. CASE primary'[r] = primary[r]
    BY <1>1, <1>3, <2>1 DEF longer
  <2>2. CASE primary'[r] = longer
    BY <1>3, <2>2
  <2>3. QED
    BY <1>1, <2>1, <2>2 DEF longer
<1>5. ASSUME \A i \in 1..Len(primary[r]) : primary[r][i].end \in {"no", durable[r]},
             e.end \in {"no", durable[r]}
      PROVE  \A i \in 1..Len(primary'[r]) : primary'[r][i].end \in {"no", durable[r]}
  <2>1. CASE primary'[r] = primary[r]
    BY <1>5, <2>1
  <2>2. CASE primary'[r] = longer
    BY <1>2, <1>3, <1>5, <2>2
  <2>3. QED
    BY <1>1, <2>1, <2>2 DEF longer
<1>6. QED
  BY <1>4, <1>5

\* The primary publication of the task's event returned.
LEMMA ExecPublishedStep ==
  ASSUME ManagerInv, NEW r \in Runs, ExecPublished(r)
  PROVE  ManagerInv'
<1>1. TypeInv /\ RunInv(r) /\ ExecInv(r) /\ (budget.db = DbFaults => QuietRun(r))
  BY DEF ManagerInv, SafeInv, QuietInv, RunInv
<1>2. /\ exec[r].pc = "publishing" /\ exec[r].event \in Event /\ exec[r] \in Exec
      /\ exec[r].then \in {"running", "errored", "finished"}
      /\ exec[r].then = "finished" <=> exec[r].event.end # "no"
      /\ exec[r].then = "errored" => ~exec[r].replay /\ Over(r)
      /\ exec[r].then = "finished" => Ended(local[r])
      /\ exec \in [Runs -> Exec]
  BY <1>1 DEF ExecPublished, ExecInv, TypeInv
<1> DEFINE x == [exec[r] EXCEPT !.pc = exec[r].then, !.then = "none", !.event = None]
<1>3. exec' = [exec EXCEPT ![r] = x]
  BY <1>2 DEF ExecPublished
<1>4. x \in Exec
  BY <1>2 DEF Exec, ExecPcs, Suspended, Finished
<1>5. /\ x.pc = exec[r].then /\ x.replay = exec[r].replay
      /\ x.cancelling = exec[r].cancelling
  BY <1>2 DEF Exec
<1> HIDE DEF x
<1>6. /\ exec' \in [Runs -> Exec] /\ exec'[r].pc = exec[r].then
      /\ exec'[r].replay = exec[r].replay /\ exec'[r].cancelling = exec[r].cancelling
      /\ \A q \in Runs \ {r} : exec'[q] = exec[q]
  BY <1>2, <1>3, <1>4, <1>5
<1>7. /\ primary' \in [Runs -> Seq(Event)] /\ degraded' \in SUBSET Runs
      /\ budget' \in [restarts : Nat, db : 0..DbFaults, redis : Nat] /\ budget'.db = budget.db
      /\ \A q \in Runs \ {r} : primary'[q] = primary[q] /\ (q \in degraded' <=> q \in degraded)
  BY <1>1, <1>2, PrimaryEffect DEF ExecPublished
<1>8. Ended(primary[r]) \/ exec[r].event.end # "no" => Over(r)
  BY <1>1, <1>2 DEF RunInv
<1>9. /\ Ended(primary'[r]) => Over(r)
      /\ exec[r].event.end # "no" => r \in degraded' \/ Ended(primary'[r])
      /\ (\A i \in 1..Len(primary[r]) : primary[r][i].end \in {"no", durable[r]})
         /\ exec[r].event.end \in {"no", durable[r]}
            => \A i \in 1..Len(primary'[r]) : primary'[r][i].end \in {"no", durable[r]}
  BY <1>1, <1>2, <1>8, PublishEffect DEF ExecPublished
<1>10. TypeInv'
  BY <1>1, <1>6, <1>7 DEF ExecPublished, TypeInv, requests
<1>11. ExecInv(r)'
  BY <1>1, <1>2, <1>6, <1>9 DEF ExecPublished, ExecInv, Going, Numbered, Over
<1>12. channel[r].open /\ durable[r] # "absent"
  BY <1>1, <1>2 DEF RunInv
<1>13. RunInv(r)'
  BY <1>1, <1>9, <1>11, <1>12 DEF ExecPublished, RunInv, Over
<1>14. budget'.db = DbFaults => QuietRun(r)'
  BY <1>1, <1>2, <1>6, <1>7, <1>9 DEF ExecPublished, QuietRun
<1>15. \A q \in Runs \ {r} : SameRun(q)
  BY <1>6, <1>7 DEF ExecPublished, SameRun
<1>16. /\ exec'[r].pc \in Suspended \cup Finished /\ exec'[r].pc # "cancelled"
       /\ exec[r].pc \in Suspended /\ budget'.db <= budget.db
  BY <1>1, <1>2, <1>6, <1>7 DEF Suspended, Finished, TypeInv
<1>17. QED
  BY <1>6, <1>10, <1>12, <1>13, <1>14, <1>15, <1>16, TaskFrame DEF ExecPublished

\* CancelledError reaches the task; the call it was awaiting may have taken effect.
LEMMA ExecCancelledStep ==
  ASSUME ManagerInv, NEW r \in Runs, ExecCancelled(r)
  PROVE  ManagerInv'
<1>1. TypeInv /\ RunInv(r) /\ ExecInv(r) /\ (budget.db = DbFaults => QuietRun(r))
  BY DEF ManagerInv, SafeInv, QuietInv, RunInv
<1>2. /\ exec[r].cancelling /\ exec[r].pc \in Suspended /\ exec[r] \in Exec
      /\ exec \in [Runs -> Exec]
      /\ channel[r].open /\ durable[r] # "absent"
  BY <1>1 DEF ExecCancelled, TypeInv, RunInv, Suspended
<1> DEFINE x == [NoExec EXCEPT !.pc = "cancelled", !.replay = exec[r].replay]
<1>3. exec' = [exec EXCEPT ![r] = x]
  BY DEF ExecCancelled
<1>4. /\ x \in Exec
      /\ x.pc = "cancelled" /\ x.replay = exec[r].replay /\ x.cancelling = FALSE
  BY <1>2 DEF Exec, NoExec, ExecPcs, Suspended, Finished
<1> HIDE DEF x
<1>5. /\ exec' \in [Runs -> Exec] /\ exec'[r].pc = "cancelled"
      /\ exec'[r].replay = exec[r].replay /\ ~exec'[r].cancelling
      /\ \A q \in Runs \ {r} : exec'[q] = exec[q]
  BY <1>2, <1>3, <1>4
<1>6. /\ primary' \in [Runs -> Seq(Event)] /\ degraded' \in SUBSET Runs
      /\ durable' \in [Runs -> Statuses]
      /\ budget' \in [restarts : Nat, db : 0..DbFaults, redis : Nat] /\ budget'.db = budget.db
      /\ \A q \in Runs \ {r} : /\ primary'[q] = primary[q] /\ durable'[q] = durable[q]
                               /\ q \in degraded' <=> q \in degraded
      /\ durable'[r] # "absent" /\ (Over(r) => durable'[r] = durable[r])
      /\ Ended(primary'[r]) => Over(r)
      /\ QuietRun(r) => \A i \in 1..Len(primary'[r]) : primary'[r][i].end \in {"no", durable'[r]}
  <2>1. CASE UNCHANGED <<durable, primary, degraded, budget>>
    BY <1>1, <1>2, <2>1 DEF TypeInv, RunInv, QuietRun
  <2>2. CASE durable' = Landed(r) /\ UNCHANGED <<primary, degraded, budget>>
    <3>1. /\ durable' \in [Runs -> Statuses] /\ durable'[r] \in TerminalStatus
          /\ \A q \in Runs \ {r} : durable'[q] = durable[q]
          /\ Over(r) => durable'[r] = durable[r]
      BY <1>1, <1>2, <2>2, LandedEffect
    <3>2. QuietRun(r) => \A i \in 1..Len(primary[r]) : primary[r][i].end \in {"no", durable'[r]}
      BY <1>1, <3>1, EventsStayRight
    <3>3. QED
      BY <1>1, <2>2, <3>1, <3>2 DEF TypeInv, RunInv, TerminalStatus
  <2>3. CASE exec[r].pc = "publishing" /\ PublishPrimary(r, exec[r].event) /\ UNCHANGED durable
    <3>1. exec[r].event \in Event /\ (exec[r].event.end # "no" => Over(r))
      BY <1>1, <2>3 DEF ExecInv, RunInv
    <3>2. Ended(primary[r]) => Over(r)
      BY <1>1 DEF RunInv
    <3>3. /\ Ended(primary'[r]) => Over(r)
          /\ QuietRun(r) =>
               \A i \in 1..Len(primary'[r]) : primary'[r][i].end \in {"no", durable[r]}
      BY <1>1, <2>3, <3>1, <3>2, PublishEffect DEF QuietRun
    <3>4. /\ primary' \in [Runs -> Seq(Event)] /\ degraded' \in SUBSET Runs
          /\ budget' \in [restarts : Nat, db : 0..DbFaults, redis : Nat]
          /\ budget'.db = budget.db
          /\ \A q \in Runs \ {r} : primary'[q] = primary[q] /\ (q \in degraded' <=> q \in degraded)
      BY <1>1, <2>3, <3>1, PrimaryEffect
    <3>5. durable' = durable /\ durable \in [Runs -> Statuses]
      BY <1>1, <2>3 DEF TypeInv
    <3>6. QED
      BY <1>2, <3>3, <3>4, <3>5
  <2>4. QED
    BY <2>1, <2>2, <2>3 DEF ExecCancelled
<1>7. TypeInv'
  BY <1>1, <1>5, <1>6 DEF ExecCancelled, TypeInv, requests
<1>8. Over(r) => Over(r)'
  BY <1>6 DEF Over
<1>9. ExecInv(r)'
  BY <1>1, <1>2, <1>5, <1>6 DEF ExecCancelled, ExecInv, Going, Numbered, Over, Suspended,
                                TerminalStatus
<1>10. RunInv(r)'
  BY <1>1, <1>2, <1>6, <1>8, <1>9 DEF ExecCancelled, RunInv
<1>11. budget'.db = DbFaults => QuietRun(r)'
  BY <1>1, <1>5, <1>6, EventsStayRight DEF ExecCancelled, QuietRun
<1>12. \A q \in Runs \ {r} : SameRun(q)
  BY <1>5, <1>6 DEF ExecCancelled, SameRun
<1>13. exec'[r].pc \in Suspended \cup Finished /\ budget'.db <= budget.db
  BY <1>1, <1>5, <1>6 DEF Finished, TypeInv
<1>14. QED
  BY <1>2, <1>5, <1>6, <1>7, <1>10, <1>11, <1>12, <1>13, TaskFrame DEF ExecCancelled

-----------------------------------------------------------------------------
\* A step of a request, or of the loop of close(), that concerns run r: what other
\* requests hold still fits, because a run that is over stays as it ended.
LEMMA RequestFrame ==
  ASSUME ManagerInv, NEW r \in Runs,
         UNCHANGED <<exec, queue, worker, submits, agentRuns>>,
         \/ up' = up
         \/ /\ up = "interrupting" /\ up' = "closed" /\ worker.pc = "returned"
            /\ budget'.db # DbFaults,
         \A q \in Runs \ {r} : SameRun(q),
         durable[r] # "absent", durable'[r] # "absent", Over(r) => durable'[r] = durable[r],
         channel'[r].open = channel[r].open,
         channel'[r].cancelRequested = channel[r].cancelRequested,
         \/ UNCHANGED <<durable, channel, local>>
         \/ channel[r].open /\ (channel[r].cancelRequested \/ worker.pc = "returned")
         \/ ~channel[r].open /\ Over(r),
         budget'.db <= budget.db,
         TypeInv', RunInv(r)', budget'.db = DbFaults => QuietRun(r)',
         \A c \in Cancellers :
            \/ cancels'[c] = cancels[c]
            \/ /\ CancelInv(c)'
               /\ budget'.db = DbFaults =>
                     /\ CancelQuiet(c)'
                     /\ \/ cancels'[c].run = cancels[c].run
                        \/ cancels[c].run = r /\ durable'[r] # "in_progress",
         \A a \in Attachers :
            \/ attaches'[a] = attaches[a]
            \/ AttachInv(a)' /\ (budget'.db = DbFaults => AttachQuiet(a)'),
         \/ closer' = closer
         \/ /\ up = "interrupting"
            /\ CloserInv' /\ (budget'.db = DbFaults => CloserQuiet')
  PROVE  ManagerInv'
<1>1. /\ \A q \in Runs : RunInv(q)
      /\ SubmitsInv /\ QueueInv /\ WorkerInv /\ CancelsInv /\ AttachesInv /\ CloserInv
      /\ QuietInv /\ TypeInv
  BY DEF ManagerInv, SafeInv
<1>2. \A q \in Runs : RunInv(q)'
  BY <1>1, SameRunKeeps
<1>3. \A q \in Runs : Over(q) => Over(q)' /\ durable'[q] = durable[q]
  BY DEF SameRun, Over
<1>4. \A q \in Runs : durable[q] = "completed" => durable'[q] = "completed"
  BY <1>3 DEF Over, TerminalStatus
<1>5. \A q \in Runs : /\ channel'[q].open = channel[q].open
                      /\ channel'[q].cancelRequested = channel[q].cancelRequested
  BY DEF SameRun
<1>6. SubmitsInv'
  <2>1. \A s \in Submitters : Fresh(s) => submits[s].run \in Runs /\ Untouched(submits[s].run)
                                          /\ ~channel[submits[s].run].open
    BY <1>1 DEF SubmitsInv, Fresh
  <2>2. \A s \in Submitters : Fresh(s)' <=> Fresh(s)
    BY DEF Fresh
  <2>3. \A s \in Submitters : Fresh(s) => Untouched(submits[s].run)'
    <3> SUFFICES ASSUME NEW s \in Submitters, Fresh(s)
                 PROVE  Untouched(submits[s].run)'
      OBVIOUS
    <3>1. CASE submits[s].run # r
      BY <2>1, <3>1 DEF SameRun, Untouched
    <3>2. CASE submits[s].run = r
      <4>1. UNCHANGED <<durable, channel, local>>
        BY <2>1, <3>2 DEF Untouched, Over, TerminalStatus
      <4>2. QED
        BY <2>1, <3>2, <4>1 DEF Untouched
    <3>3. QED
      BY <3>1, <3>2
  <2>4. QED
    BY <1>1, <1>4, <1>5, <2>1, <2>2, <2>3 DEF SubmitsInv
<1>7. QueueInv'
  <2>1. ASSUME NEW x \in Item, ItemInv(x)
        PROVE  ItemInv(x)'
    <3>1. CASE x.run # r
      BY <2>1, <3>1 DEF Item, ItemInv, SameRun, Untouched
    <3>2. CASE x.run = r
      BY <1>4, <2>1, <3>2 DEF Item, ItemInv, Untouched
    <3>3. QED
      BY <3>1, <3>2
  <2>2. \A i \in 1..Len(queue) : queue[i] # Stop => queue[i] \in Item
    BY <1>1 DEF TypeInv
  <2>3. QED
    BY <1>1, <2>1, <2>2 DEF QueueInv
<1>8. WorkerInv'
  <2>1. \A q \in Runs : Queued(q)' <=> Queued(q)
    BY DEF Queued
  <2>2. \A q \in Runs : up' = "serving" /\ channel'[q].open /\ ~channel'[q].cancelRequested
           => Queued(q)' \/ exec'[q].pc # "none"
    BY <1>1, <1>5, <2>1 DEF WorkerInv
  <2>3. QED
    BY <1>1, <1>5, <2>2 DEF WorkerInv
<1>9. CancelsInv'
  <2>1. ASSUME NEW c \in Cancellers, cancels'[c] = cancels[c]
        PROVE  CancelInv(c)'
    BY <1>1, <1>3, <1>5, <2>1 DEF CancelsInv, CancelInv, Final
  <2>2. QED
    BY <2>1 DEF CancelsInv
<1>10. AttachesInv'
  <2>1. ASSUME NEW a \in Attachers, attaches'[a] = attaches[a]
        PROVE  AttachInv(a)'
    BY <1>1, <1>3, <2>1 DEF AttachesInv, AttachInv, Final
  <2>2. QED
    BY <2>1 DEF AttachesInv
<1>11. CloserInv'
  BY <1>1, <1>3, <1>5 DEF CloserInv, Final, TypeInv, Closer
<1>12. QuietInv'
  <2> SUFFICES ASSUME budget'.db = DbFaults
               PROVE  QuietInv'
    BY DEF QuietInv
  <2>1. budget.db = DbFaults
    BY <1>1 DEF TypeInv
  <2>2. QuietInv!2
    BY <1>1, <2>1 DEF QuietInv
  <2>3. \A q \in Runs : QuietRun(q)'
    BY <2>2, SameRunKeeps
  <2>4. \A q \in Runs : durable'[q] = "in_progress" => durable[q] = "in_progress"
    <3>1. durable[r] = "in_progress" \/ Over(r)
      BY <1>1 DEF TypeInv, Statuses, Over
    <3>2. QED
      BY <3>1 DEF SameRun, Over, TerminalStatus
  <2>5. \A q \in Runs : durable'[q] = "in_progress" /\ Cancelling(q) => Cancelling(q)'
    BY DEF Cancelling
  <2>6. \A q \in Runs : channel'[q].cancelRequested /\ durable'[q] = "in_progress"
           => Cancelling(q)'
    BY <1>5, <2>2, <2>4, <2>5
  <2>7. \A q \in Runs : Accounted(q)'
    <3>1. \A q \in Runs : Queued(q)' <=> Queued(q)
      BY DEF Queued
    <3>2. QED
      BY <1>5, <2>2, <2>4, <2>5, <3>1 DEF Accounted
  <2>8. \A c \in Cancellers : CancelQuiet(c)'
    BY <1>1, <1>3, <2>1, <2>2 DEF CancelsInv, CancelInv, CancelQuiet, Final
  <2>9. \A a \in Attachers : AttachQuiet(a)'
    BY <1>1, <1>3, <2>1, <2>2 DEF AttachesInv, AttachInv, AttachQuiet, Final
  <2>10. CloserQuiet'
    BY <1>1, <1>3, <2>1, <2>2 DEF CloserInv, CloserQuiet, Final, TypeInv, Closer
  <2>11. QED
    BY <2>2, <2>3, <2>6, <2>7, <2>8, <2>9, <2>10 DEF QuietInv
<1>13. QED
  BY <1>2, <1>6, <1>7, <1>8, <1>9, <1>10, <1>11, <1>12 DEF ManagerInv, SafeInv

\* A request, or close(), ends run r in the database and tells its channel.
LEMMA TerminalEffect ==
  ASSUME ManagerInv, NEW r \in Runs, NEW status \in {"cancelled", "error"},
         durable[r] = "in_progress", exec[r].pc \notin Suspended, channel[r].open,
         durable' = [durable EXCEPT ![r] = status],
         channel' = Recorded(r, status), PublishLocal(r, NextEvent(r, status)),
         UNCHANGED <<primary, degraded, exec, agentRuns>>
  PROVE  /\ durable' \in [Runs -> Statuses] /\ durable'[r] = status
         /\ channel' \in [Runs -> Channel] /\ local' \in [Runs -> Seq(Event)]
         /\ channel'[r].open /\ channel'[r].cancelRequested = channel[r].cancelRequested
         /\ \A q \in Runs \ {r} : SameRun(q)
         /\ NextEvent(r, status) \in Event /\ NextEvent(r, status).end = status
         /\ Over(r)' /\ ~Over(r) /\ RunInv(r)'
         /\ QuietRun(r) => QuietRun(r)'
<1>1. TypeInv /\ RunInv(r) /\ ExecInv(r)
  BY DEF ManagerInv, SafeInv, RunInv
<1> DEFINE e == NextEvent(r, status)
<1>2. /\ channel' \in [Runs -> Channel]
      /\ \A q \in Runs \ {r} : channel'[q] = channel[q]
      /\ channel'[r].open = channel[r].open
      /\ channel'[r].cancelRequested = channel[r].cancelRequested
      /\ channel'[r].events = channel[r].events + 1
      /\ channel'[r].terminal
      /\ e \in Event /\ e.id = channel[r].events + 1 /\ e.end = status
  BY <1>1, RecordEffect DEF TerminalStatus
<1>3. /\ local' \in [Runs -> Seq(Event)]
      /\ \A q \in Runs \ {r} : local'[q] = local[q]
      /\ local'[r] = IF Ended(local[r]) THEN local[r] ELSE Append(local[r], e)
      /\ Ended(local'[r]) <=> Ended(local[r]) \/ status # "no"
  BY <1>1, <1>2, LocalEffect
<1> HIDE DEF e
<1>4. /\ durable' \in [Runs -> Statuses] /\ durable'[r] = status
      /\ \A q \in Runs \ {r} : durable'[q] = durable[q]
  BY <1>1 DEF TypeInv, Statuses, TerminalStatus
<1>5. Over(r)' /\ ~Over(r)
  BY <1>4 DEF Over, TerminalStatus
<1>6. local'[r] = Append(local[r], e) /\ Ended(local'[r])
  BY <1>1, <1>3, <1>5 DEF RunInv
<1>7. /\ local[r] \in Seq(Event) /\ channel[r].events \in Nat
      /\ Len(local'[r]) = Len(local[r]) + 1
      /\ \A i \in 1..Len(local[r]) : local'[r][i] = local[r][i]
      /\ local'[r][Len(local[r]) + 1] = e
  BY <1>1, <1>2, <1>6, AppendEvent DEF TypeInv, Channel
<1>8. Numbered(r) => Numbered(r)'
  <2> SUFFICES ASSUME Numbered(r) PROVE Numbered(r)'
    OBVIOUS
  <2>1. ASSUME NEW i \in 1..Len(local'[r])
        PROVE  local'[r][i].id = i
    <3>1. CASE i \in 1..Len(local[r])
      BY <1>7, <3>1 DEF Numbered
    <3>2. CASE i = Len(local[r]) + 1
      BY <1>2, <1>7, <3>2 DEF Numbered
    <3>3. QED
      BY <1>7, <3>1, <3>2
  <2>2. QED
    BY <1>2, <1>7, <2>1 DEF Numbered
<1>9. ExecInv(r)'
  <2>1. ~exec[r].replay /\ exec[r].pc # "finished"
    BY <1>1, <1>5 DEF ExecInv, RunInv
  <2>2. ~Going(r)' /\ exec[r].pc # "publishing" /\ exec[r].pc # "errored"
    BY DEF Going, Suspended
  <2>3. exec[r].pc # "none" => agentRuns[r] = 1 /\ Numbered(r)'
    BY <1>1, <1>8, <2>1 DEF ExecInv
  <2>4. QED
    BY <2>1, <2>2, <2>3 DEF ExecInv
<1>10. RunInv(r)'
  BY <1>1, <1>2, <1>4, <1>5, <1>9 DEF RunInv, TerminalStatus
<1>11. QuietRun(r) => QuietRun(r)'
  <2> SUFFICES ASSUME QuietRun(r) PROVE QuietRun(r)'
    OBVIOUS
  <2>1. /\ \A i \in 1..Len(local[r]) : local[r][i].end \in {"no", durable'[r]}
        /\ \A i \in 1..Len(primary[r]) : primary[r][i].end \in {"no", durable'[r]}
    BY <1>1, <1>5, EventsStayRight
  <2>2. \A i \in 1..Len(local'[r]) : local'[r][i].end \in {"no", durable'[r]}
    BY <1>2, <1>4, <1>7, <2>1
  <2>3. exec[r].pc \notin {"created", "running", "committing", "failing", "publishing", "errored"}
    BY DEF Suspended
  <2>4. QED
    BY <2>1, <2>2, <2>3 DEF QuietRun
<1>12. \A q \in Runs \ {r} : SameRun(q)
  BY <1>2, <1>3, <1>4 DEF SameRun
<1>13. QED
  BY <1>2, <1>3, <1>4, <1>5, <1>10, <1>11, <1>12 DEF e

\* The end of run r is published by a request or by close().
LEMMA AnnounceEffect ==
  ASSUME ManagerInv, NEW r \in Runs, NEW e, Final(e, r), PublishPrimary(r, e),
         UNCHANGED <<durable, local, channel, exec, agentRuns>>
  PROVE  /\ primary' \in [Runs -> Seq(Event)] /\ degraded' \in SUBSET Runs
         /\ budget' \in [restarts : Nat, db : 0..DbFaults, redis : Nat]
         /\ budget'.db = budget.db
         /\ \A q \in Runs \ {r} : SameRun(q)
         /\ RunInv(r)'
         /\ QuietRun(r) /\ e.end = durable[r] => QuietRun(r)'
<1>1. TypeInv /\ RunInv(r) /\ ExecInv(r) /\ e \in Event /\ e.end # "no" /\ Over(r)
  BY DEF ManagerInv, SafeInv, RunInv, Final
<1>2. /\ primary' \in [Runs -> Seq(Event)] /\ degraded' \in SUBSET Runs
      /\ budget' \in [restarts : Nat, db : 0..DbFaults, redis : Nat]
      /\ budget'.db = budget.db
      /\ \A q \in Runs \ {r} : primary'[q] = primary[q] /\ (q \in degraded' <=> q \in degraded)
      /\ r \in degraded => r \in degraded'
  BY <1>1, PrimaryEffect
<1>3. /\ Ended(primary[r]) => Ended(primary'[r])
      /\ (\A i \in 1..Len(primary[r]) : primary[r][i].end \in {"no", durable[r]})
         /\ e.end \in {"no", durable[r]}
            => \A i \in 1..Len(primary'[r]) : primary'[r][i].end \in {"no", durable[r]}
  BY <1>1, PublishEffect
<1>4. durable[r] # "absent"
  BY <1>1 DEF Over, TerminalStatus
<1>5. ExecInv(r)'
  BY <1>1, <1>2, <1>3 DEF ExecInv, Going, Numbered, Over
<1>6. RunInv(r)'
  BY <1>1, <1>4, <1>5 DEF RunInv, Over
<1>7. QuietRun(r) /\ e.end = durable[r] => QuietRun(r)'
  BY <1>3 DEF QuietRun
<1>8. \A q \in Runs \ {r} : SameRun(q)
  BY <1>2 DEF SameRun
<1>9. QED
  BY <1>2, <1>6, <1>7, <1>8

\* A call that ends run r raised: nothing happened, or the run is over and nobody is
\* told.
LEMMA LandEffect ==
  ASSUME ManagerInv, NEW r \in Runs, NEW status \in {"cancelled", "error"},
         \/ UNCHANGED durable
         \/ durable[r] = "in_progress" /\ durable' = [durable EXCEPT ![r] = status],
         durable[r] # "absent", exec[r].pc \notin Suspended,
         UNCHANGED <<stores, channel, exec, agentRuns>>
  PROVE  /\ durable' \in [Runs -> Statuses] /\ durable'[r] # "absent"
         /\ Over(r) => durable'[r] = durable[r]
         /\ \A q \in Runs \ {r} : SameRun(q)
         /\ RunInv(r)'
<1>1. TypeInv /\ RunInv(r) /\ ExecInv(r)
  BY DEF ManagerInv, SafeInv, RunInv
<1>2. /\ durable' \in [Runs -> Statuses] /\ durable'[r] # "absent"
      /\ Over(r) => durable'[r] = durable[r] /\ Over(r)'
      /\ \A q \in Runs \ {r} : durable'[q] = durable[q]
      /\ durable[r] = "completed" => durable'[r] = "completed"
  BY <1>1 DEF TypeInv, Statuses, TerminalStatus, Over
<1>3. /\ local' = local /\ primary' = primary /\ degraded' = degraded
      /\ channel' = channel /\ exec' = exec /\ agentRuns' = agentRuns
  BY DEF stores
<1>4. \A q \in Runs \ {r} : SameRun(q)
  BY <1>2, <1>3 DEF SameRun
<1>5. ExecInv(r)'
  BY <1>1, <1>2, <1>3 DEF ExecInv, Going, Numbered, Suspended
<1>6. RunInv(r)'
  BY <1>1, <1>2, <1>3, <1>5 DEF RunInv
<1>7. QED
  BY <1>2, <1>4, <1>6

-----------------------------------------------------------------------------
\* A request that is not suspended.
LEMMA NoRequestInRequest == NoRequest \in Request
  BY DEF NoRequest, Request

\* The task a cancellation waited for ended.
LEMMA CancelJoinsStep ==
  ASSUME ManagerInv, NEW c \in Cancellers, CancelJoins(c)
  PROVE  ManagerInv'
<1>1. TypeInv /\ CancelInv(c) /\ (budget.db = DbFaults => \A q \in Runs : QuietRun(q))
  BY DEF ManagerInv, SafeInv, CancelsInv, QuietInv
<1>2. /\ cancels[c].pc = "awaiting" /\ cancels[c].run \in Runs
      /\ channel[cancels[c].run].open /\ channel[cancels[c].run].cancelRequested
      /\ cancels \in [Cancellers -> Request] /\ cancels[c] \in Request
      /\ exec[cancels[c].run].pc \in Finished
  BY <1>1 DEF CancelJoins, CancelInv, TypeInv
<1>3. PICK r \in Runs : r = cancels[c].run
  BY <1>2
<1>4. RunInv(r) /\ (budget.db = DbFaults => QuietRun(r)) /\ durable[r] # "absent"
  BY <1>1, <1>2, <1>3 DEF ManagerInv, SafeInv, RunInv
<1> DEFINE x == IF exec[r].pc = "raised" THEN NoRequest
                ELSE [cancels[c] EXCEPT !.pc = "persisting"]
<1>5. cancels' = [cancels EXCEPT ![c] = x]
  BY <1>2, <1>3 DEF CancelJoins
<1>6. /\ x \in Request
      /\ \/ x.pc = "idle" /\ x.run = None /\ exec[r].pc = "raised"
         \/ x.pc = "persisting" /\ x.run = r
  <2>1. CASE exec[r].pc = "raised"
    BY <2>1, NoRequestInRequest DEF NoRequest
  <2>2. CASE exec[r].pc # "raised"
    <3>1. x = [cancels[c] EXCEPT !.pc = "persisting"]
      BY <2>2
    <3>2. QED
      BY <1>2, <1>3, <3>1 DEF Request
  <2>3. QED
    BY <2>1, <2>2
<1> HIDE DEF x
<1>7. /\ cancels' \in [Cancellers -> Request] /\ cancels'[c] = x
      /\ \A d \in Cancellers \ {c} : cancels'[d] = cancels[d]
  BY <1>2, <1>5, <1>6
<1>8. TypeInv'
  BY <1>1, <1>7 DEF CancelJoins, TypeInv, stores
<1>9. \A q \in Runs : SameRun(q)
  BY DEF CancelJoins, SameRun, stores
<1>10. CancelInv(c)'
  BY <1>2, <1>3, <1>6, <1>7 DEF CancelJoins, CancelInv, Suspended, Finished
<1>11. budget'.db = DbFaults => CancelQuiet(c)' /\ cancels'[c].run = r
  BY <1>4, <1>6, <1>7 DEF CancelJoins, CancelQuiet, QuietRun
<1>12. budget'.db <= budget.db
  BY <1>1 DEF CancelJoins, TypeInv
<1>13. RunInv(r)' /\ (budget'.db = DbFaults => QuietRun(r)')
  BY <1>4, <1>9, SameRunKeeps DEF CancelJoins
<1>14. QED
  BY <1>3, <1>4, <1>7, <1>8, <1>9, <1>10, <1>11, <1>12, <1>13, RequestFrame
     DEF CancelJoins, stores

\* cancel_run raised: nothing is announced, and the request is over.
LEMMA CancelRaisesStep ==
  ASSUME ManagerInv, NEW c \in Cancellers, CancelRaises(c)
  PROVE  ManagerInv'
<1>1. TypeInv /\ CancelInv(c)
  BY DEF ManagerInv, SafeInv, CancelsInv
<1>2. /\ cancels[c].pc = "persisting" /\ cancels[c].run \in Runs
      /\ channel[cancels[c].run].open /\ channel[cancels[c].run].cancelRequested
      /\ exec[cancels[c].run].pc \notin Suspended
      /\ cancels \in [Cancellers -> Request]
  BY <1>1 DEF CancelRaises, CancelInv, TypeInv
<1>3. PICK r \in Runs : r = cancels[c].run
  BY <1>2
<1>4. durable[r] # "absent"
  BY <1>2, <1>3 DEF ManagerInv, SafeInv, RunInv
<1>5. /\ cancels' \in [Cancellers -> Request] /\ cancels'[c] = NoRequest
      /\ \A d \in Cancellers \ {c} : cancels'[d] = cancels[d]
  BY <1>2, NoRequestInRequest DEF CancelRaises
<1>6. /\ budget' \in [restarts : Nat, db : 0..DbFaults, redis : Nat]
      /\ budget'.db <= budget.db /\ budget'.db # DbFaults
  BY <1>1, RaiseEffect DEF CancelRaises, TypeInv
<1>7. /\ durable' \in [Runs -> Statuses] /\ durable'[r] # "absent"
      /\ Over(r) => durable'[r] = durable[r]
      /\ \A q \in Runs \ {r} : SameRun(q)
      /\ RunInv(r)'
  <2>1. \/ UNCHANGED durable
        \/ durable[r] = "in_progress" /\ durable' = [durable EXCEPT ![r] = "cancelled"]
    BY <1>3 DEF CancelRaises
  <2>2. UNCHANGED <<stores, channel, exec, agentRuns>>
    BY DEF CancelRaises
  <2>3. QED
    BY <1>2, <1>3, <1>4, <2>1, <2>2, LandEffect
<1>8. TypeInv'
  BY <1>1, <1>5, <1>6, <1>7 DEF CancelRaises, TypeInv, stores
<1>9. CancelInv(c)'
  BY <1>5 DEF CancelInv, NoRequest
<1>10. QED
  BY <1>2, <1>3, <1>4, <1>5, <1>6, <1>7, <1>8, <1>9, RequestFrame
     DEF CancelRaises, stores

\* The run_end(cancelled) of a cancellation was handed to Redis.
LEMMA CancelPublishedStep ==
  ASSUME ManagerInv, NEW c \in Cancellers, CancelPublished(c)
  PROVE  ManagerInv'
<1>1. TypeInv /\ CancelInv(c)
  BY DEF ManagerInv, SafeInv, CancelsInv
<1>2. /\ cancels[c].pc = "publishing" /\ cancels[c].run \in Runs
      /\ Final(cancels[c].event, cancels[c].run)
      /\ cancels \in [Cancellers -> Request]
  BY <1>1 DEF CancelPublished, CancelInv, TypeInv
<1>3. PICK r \in Runs : r = cancels[c].run
  BY <1>2
<1>4. /\ RunInv(r) /\ durable[r] \in TerminalStatus
      /\ budget.db = DbFaults => QuietRun(r) /\ cancels[c].event.end = durable[r]
  BY <1>2, <1>3 DEF ManagerInv, SafeInv, QuietInv, CancelQuiet, Final, Over
<1>5. /\ cancels' \in [Cancellers -> Request] /\ cancels'[c] = NoRequest
      /\ \A d \in Cancellers \ {c} : cancels'[d] = cancels[d]
  BY <1>2, NoRequestInRequest DEF CancelPublished
<1>6. /\ primary' \in [Runs -> Seq(Event)] /\ degraded' \in SUBSET Runs
      /\ budget' \in [restarts : Nat, db : 0..DbFaults, redis : Nat]
      /\ budget'.db = budget.db
      /\ \A q \in Runs \ {r} : SameRun(q)
      /\ RunInv(r)'
      /\ QuietRun(r) /\ cancels[c].event.end = durable[r] => QuietRun(r)'
  BY <1>2, <1>3, AnnounceEffect DEF CancelPublished
<1>7. TypeInv'
  BY <1>1, <1>5, <1>6 DEF CancelPublished, TypeInv
<1>8. CancelInv(c)' /\ CancelQuiet(c)'
  BY <1>5 DEF CancelInv, CancelQuiet, NoRequest
<1>9. budget'.db <= budget.db
  BY <1>1, <1>6 DEF TypeInv
<1>10. durable[r] # "absent" /\ durable[r] # "in_progress" /\ durable' = durable
  BY <1>4 DEF CancelPublished, TerminalStatus
<1>11. QED
  BY <1>3, <1>4, <1>5, <1>6, <1>7, <1>8, <1>9, <1>10, RequestFrame
     DEF CancelPublished

\* cancel_run: the run ends and run_end(cancelled) is on its way, or the run was
\* over already.
LEMMA CancelPersistsStep ==
  ASSUME ManagerInv, NEW c \in Cancellers, CancelPersists(c)
  PROVE  ManagerInv'
<1>1. TypeInv /\ CancelInv(c)
  BY DEF ManagerInv, SafeInv, CancelsInv
<1>2. /\ cancels[c].pc = "persisting" /\ cancels[c].run \in Runs
      /\ channel[cancels[c].run].open /\ channel[cancels[c].run].cancelRequested
      /\ exec[cancels[c].run].pc \notin Suspended
      /\ cancels \in [Cancellers -> Request] /\ cancels[c] \in Request
  BY <1>1 DEF CancelPersists, CancelInv, TypeInv
<1>3. PICK r \in Runs : r = cancels[c].run
  BY <1>2
<1>4. /\ RunInv(r) /\ durable[r] # "absent"
      /\ budget.db = DbFaults => QuietRun(r)
  BY <1>2, <1>3 DEF ManagerInv, SafeInv, RunInv, QuietInv
<1>5. budget'.db <= budget.db /\ budget' = budget
  BY <1>1 DEF CancelPersists, TypeInv
<1>6. CASE durable[r] # "in_progress"
  <2>1. cancels' = [cancels EXCEPT ![c] = NoRequest] /\ UNCHANGED <<durable, channel, local>>
    BY <1>3, <1>6 DEF CancelPersists
  <2>2. /\ cancels' \in [Cancellers -> Request] /\ cancels'[c] = NoRequest
        /\ \A d \in Cancellers \ {c} : cancels'[d] = cancels[d]
    BY <1>2, <2>1, NoRequestInRequest
  <2>3. TypeInv'
    BY <1>1, <2>1, <2>2 DEF CancelPersists, TypeInv
  <2>4. \A q \in Runs : SameRun(q)
    BY <2>1 DEF CancelPersists, SameRun
  <2>5. CancelInv(c)' /\ CancelQuiet(c)'
    BY <2>2 DEF CancelInv, CancelQuiet, NoRequest
  <2>6. RunInv(r)' /\ (budget'.db = DbFaults => QuietRun(r)')
    BY <1>4, <1>5, <2>4, SameRunKeeps
  <2>7. QED
    BY <1>3, <1>4, <1>5, <1>6, <2>1, <2>2, <2>3, <2>4, <2>5, <2>6, RequestFrame
       DEF CancelPersists
<1>7. CASE durable[r] = "in_progress"
  <2>1. ~channel[r].terminal
    BY <1>4, <1>7 DEF RunInv, Over, TerminalStatus
  <2> DEFINE e == NextEvent(r, "cancelled")
             x == [cancels[c] EXCEPT !.pc = "publishing", !.event = e]
  <2>2. /\ durable' = [durable EXCEPT ![r] = "cancelled"]
        /\ channel' = Recorded(r, "cancelled") /\ PublishLocal(r, e)
        /\ cancels' = [cancels EXCEPT ![c] = x]
        /\ UNCHANGED <<primary, degraded, exec, agentRuns>>
    BY <1>2, <1>3, <1>7, <2>1 DEF CancelPersists
  <2>3. /\ durable' \in [Runs -> Statuses] /\ durable'[r] = "cancelled"
        /\ channel' \in [Runs -> Channel] /\ local' \in [Runs -> Seq(Event)]
        /\ channel'[r].open /\ channel'[r].cancelRequested = channel[r].cancelRequested
        /\ \A q \in Runs \ {r} : SameRun(q)
        /\ e \in Event /\ e.end = "cancelled"
        /\ Over(r)' /\ ~Over(r) /\ RunInv(r)'
        /\ QuietRun(r) => QuietRun(r)'
    BY <1>2, <1>3, <1>7, <2>2, TerminalEffect
  <2> HIDE DEF e
  <2>4. x \in Request /\ x.pc = "publishing" /\ x.run = r /\ x.event = e
    BY <1>2, <1>3, <2>3 DEF Request
  <2> HIDE DEF x
  <2>5. /\ cancels' \in [Cancellers -> Request] /\ cancels'[c] = x
        /\ \A d \in Cancellers \ {c} : cancels'[d] = cancels[d]
    BY <1>2, <2>2, <2>4
  <2>6. TypeInv'
    BY <1>1, <2>3, <2>5 DEF CancelPersists, TypeInv
  <2>7. CancelInv(c)'
    BY <1>2, <1>3, <2>2, <2>3, <2>4, <2>5 DEF CancelInv, Final
  <2>8. CancelQuiet(c)' /\ cancels'[c].run = cancels[c].run
    BY <1>3, <2>3, <2>4, <2>5 DEF CancelQuiet
  <2>9. durable'[r] # "absent"
    BY <2>3
  <2>10. QED
    BY <1>2, <1>3, <1>4, <1>5, <2>3, <2>5, <2>6, <2>7, <2>8, <2>9, RequestFrame
       DEF CancelPersists
<1>8. QED
  BY <1>6, <1>7

-----------------------------------------------------------------------------
\* A number read off a stream.
LEMMA LastIdIsNat ==
  ASSUME NEW events \in Seq(Event)
  PROVE  LastId(events) \in Nat
<1>1. CASE events = <<>>
  BY <1>1 DEF LastId
<1>2. CASE events # <<>>
  <2>1. Len(events) \in 1..Len(events) /\ Last(events) \in Event
    BY <1>2 DEF Last
  <2>2. QED
    BY <1>2, <2>1 DEF LastId, Event
<1>3. QED
  BY <1>1, <1>2

\* An attachment puts the end of a run that is over into the local buffer.
LEMMA AttachCheckStep ==
  ASSUME ManagerInv, NEW a \in Attachers, NEW r \in Runs, AttachCheck(a, r)
  PROVE  ManagerInv'
<1> DEFINE e == [id |-> LastId(Latest(r)) + 1, end |-> durable[r]]
           x == [NoRequest EXCEPT !.pc = "publishing", !.run = r, !.event = e]
<1>1. TypeInv /\ RunInv(r) /\ ExecInv(r) /\ (budget.db = DbFaults => QuietRun(r))
  BY DEF ManagerInv, SafeInv, QuietInv, RunInv
<1>2. /\ durable[r] \in TerminalStatus /\ ~channel[r].open /\ PublishLocal(r, e)
      /\ attaches' = [attaches EXCEPT ![a] = x]
      /\ attaches \in [Attachers -> Request]
      /\ UNCHANGED <<durable, primary, degraded, up, channel, exec, queue, worker, submits,
                     cancels, closer, budget, agentRuns>>
  BY <1>1 DEF AttachCheck, TypeInv
<1>3. e \in Event /\ e.end = durable[r] /\ e.end # "no"
  <2>1. Latest(r) \in Seq(Event)
    BY <1>1 DEF Latest, TypeInv
  <2>2. LastId(Latest(r)) \in Nat
    BY <2>1, LastIdIsNat
  <2>3. QED
    BY <1>2, <2>2 DEF Event, TerminalStatus
<1> HIDE DEF e
<1>4. x \in Request /\ x.pc = "publishing" /\ x.run = r /\ x.event = e
  BY <1>3 DEF NoRequest, Request
<1> HIDE DEF x
<1>5. /\ attaches' \in [Attachers -> Request] /\ attaches'[a] = x
      /\ \A b \in Attachers \ {a} : attaches'[b] = attaches[b]
  BY <1>2, <1>4
<1>6. /\ local' \in [Runs -> Seq(Event)]
      /\ \A q \in Runs \ {r} : local'[q] = local[q]
      /\ local'[r] = IF Ended(local[r]) THEN local[r] ELSE Append(local[r], e)
  BY <1>1, <1>2, <1>3, LocalEffect
<1>7. TypeInv'
  BY <1>1, <1>2, <1>5, <1>6 DEF TypeInv
<1>8. \A q \in Runs \ {r} : SameRun(q)
  BY <1>2, <1>6 DEF SameRun
<1>9. exec[r].pc = "none" /\ channel[r] = NoChannel /\ durable[r] # "absent"
  BY <1>1, <1>2 DEF RunInv, TerminalStatus
<1>10. ExecInv(r)'
  BY <1>1, <1>2, <1>9 DEF ExecInv, Going
<1>11. RunInv(r)'
  BY <1>1, <1>2, <1>9, <1>10 DEF RunInv, Over
<1>12. budget'.db = DbFaults => QuietRun(r)'
  <2> SUFFICES ASSUME budget.db = DbFaults PROVE QuietRun(r)'
    BY <1>2
  <2>1. QuietRun(r) /\ local[r] \in Seq(Event)
    BY <1>1 DEF TypeInv
  <2>2. \A i \in 1..Len(local'[r]) : local'[r][i].end \in {"no", durable'[r]}
    <3>1. CASE local'[r] = local[r]
      BY <1>2, <2>1, <3>1 DEF QuietRun
    <3>2. CASE local'[r] = Append(local[r], e)
      <4>1. /\ Len(local'[r]) = Len(local[r]) + 1
            /\ \A i \in 1..Len(local[r]) : local'[r][i] = local[r][i]
            /\ local'[r][Len(local[r]) + 1] = e
        BY <1>3, <2>1, <3>2, AppendEvent
      <4>2. QED
        BY <1>2, <1>3, <2>1, <4>1 DEF QuietRun
    <3>3. QED
      BY <1>6, <3>1, <3>2
  <2>3. QED
    BY <1>2, <2>1, <2>2 DEF QuietRun
<1>13. AttachInv(a)' /\ AttachQuiet(a)'
  BY <1>2, <1>3, <1>4, <1>5 DEF AttachInv, AttachQuiet, Final, Over
<1>14. budget'.db <= budget.db /\ Over(r)
  BY <1>1, <1>2 DEF TypeInv, Over
<1>15. QED
  BY <1>2, <1>5, <1>7, <1>8, <1>9, <1>11, <1>12, <1>13, <1>14, RequestFrame

\* The run_end of an attachment was handed to Redis.
LEMMA AttachPublishedStep ==
  ASSUME ManagerInv, NEW a \in Attachers, AttachPublished(a)
  PROVE  ManagerInv'
<1>1. TypeInv /\ AttachInv(a)
  BY DEF ManagerInv, SafeInv, AttachesInv
<1>2. /\ attaches[a].pc = "publishing" /\ attaches[a].run \in Runs
      /\ Final(attaches[a].event, attaches[a].run)
      /\ attaches \in [Attachers -> Request]
  BY <1>1 DEF AttachPublished, AttachInv, TypeInv
<1>3. PICK r \in Runs : r = attaches[a].run
  BY <1>2
<1>4. /\ RunInv(r) /\ durable[r] \in TerminalStatus
      /\ budget.db = DbFaults => QuietRun(r) /\ attaches[a].event.end = durable[r]
  BY <1>2, <1>3 DEF ManagerInv, SafeInv, QuietInv, AttachQuiet, Final, Over
<1>5. /\ attaches' \in [Attachers -> Request] /\ attaches'[a] = NoRequest
      /\ \A b \in Attachers \ {a} : attaches'[b] = attaches[b]
  BY <1>2, NoRequestInRequest DEF AttachPublished
<1>6. /\ primary' \in [Runs -> Seq(Event)] /\ degraded' \in SUBSET Runs
      /\ budget' \in [restarts : Nat, db : 0..DbFaults, redis : Nat]
      /\ budget'.db = budget.db
      /\ \A q \in Runs \ {r} : SameRun(q)
      /\ RunInv(r)'
      /\ QuietRun(r) /\ attaches[a].event.end = durable[r] => QuietRun(r)'
  BY <1>2, <1>3, AnnounceEffect DEF AttachPublished
<1>7. TypeInv'
  BY <1>1, <1>5, <1>6 DEF AttachPublished, TypeInv
<1>8. AttachInv(a)' /\ AttachQuiet(a)'
  BY <1>5 DEF AttachInv, AttachQuiet, NoRequest
<1>9. budget'.db <= budget.db
  BY <1>1, <1>6 DEF TypeInv
<1>10. durable[r] # "absent" /\ durable' = durable
  BY <1>4 DEF AttachPublished, TerminalStatus
<1>11. QED
  BY <1>3, <1>4, <1>5, <1>6, <1>7, <1>8, <1>9, <1>10, RequestFrame
     DEF AttachPublished

-----------------------------------------------------------------------------
\* close() turns to the next channel that is not terminal.
LEMMA InterruptTakesStep ==
  ASSUME ManagerInv, NEW r \in Runs, InterruptTakes(r)
  PROVE  ManagerInv'
<1>1. TypeInv /\ RunInv(r) /\ WorkerInv /\ CloserInv /\ (budget.db = DbFaults => QuietRun(r))
  BY DEF ManagerInv, SafeInv, QuietInv
<1>2. /\ up = "interrupting" /\ worker.pc = "returned" /\ closer.pc \in {"none", "next"}
      /\ channel[r].open /\ closer \in Closer /\ Owned \in SUBSET Runs
      /\ UNCHANGED <<durable, stores, up, channel, exec, queue, worker, requests, budget, agentRuns>>
  BY <1>1 DEF InterruptTakes, Resumes, Owned, TypeInv
<1> DEFINE x == [closer EXCEPT !.pc = "failing", !.run = r, !.owned = Owned,
                               !.visited = @ \cup {r}]
<1>3. closer' = x
  BY DEF InterruptTakes
<1>4. x \in Closer /\ x.pc = "failing" /\ x.run = r /\ x.visited = closer.visited \cup {r}
  BY <1>2 DEF Closer
<1> HIDE DEF x
<1>5. TypeInv'
  BY <1>1, <1>2, <1>3, <1>4 DEF TypeInv, stores, requests
<1>6. \A q \in Runs : SameRun(q)
  BY <1>2 DEF SameRun, stores
<1>7. CloserInv' /\ CloserQuiet'
  <2>1. closer.visited \subseteq Runs
    BY <1>2 DEF Closer
  <2>2. \A q \in Runs : Over(q)' <=> Over(q)
    BY <1>2 DEF Over
  <2>3. QED
    BY <1>1, <1>2, <1>3, <1>4, <2>1, <2>2 DEF CloserInv, CloserQuiet
<1>8. RunInv(r)' /\ (budget'.db = DbFaults => QuietRun(r)')
  BY <1>1, <1>2, <1>6, SameRunKeeps
<1>9. durable[r] # "absent" /\ budget'.db <= budget.db
  BY <1>1, <1>2 DEF RunInv, TypeInv
<1>10. QED
  BY <1>2, <1>5, <1>6, <1>7, <1>8, <1>9, RequestFrame DEF requests, stores

\* close() fails the run it turned to, or passes it over because it ended by itself.
LEMMA InterruptFailsStep ==
  ASSUME ManagerInv, InterruptFails
  PROVE  ManagerInv'
<1>1. /\ TypeInv /\ WorkerInv /\ CloserInv /\ \A q \in Runs : RunInv(q)
      /\ budget.db = DbFaults => \A q \in Runs : QuietRun(q)
  BY DEF ManagerInv, SafeInv, QuietInv
<1>2. /\ up = "interrupting" /\ closer.pc = "failing" /\ closer \in Closer
      /\ closer.run \in Runs /\ channel[closer.run].open /\ worker.pc = "returned"
      /\ UNCHANGED <<primary, degraded, up, exec, queue, worker, requests, budget, agentRuns>>
  BY <1>1 DEF InterruptFails, CloserInv, TypeInv
<1>3. PICK r \in Runs : r = closer.run
  BY <1>2
<1>4. exec[r].pc \notin Suspended /\ durable[r] # "absent" /\ budget'.db <= budget.db
  BY <1>1, <1>2, <1>3 DEF WorkerInv, RunInv, TypeInv
<1>5. \A q \in closer.visited : q \in Runs /\ (Over(q) \/ q = r)
  BY <1>1, <1>2, <1>3 DEF CloserInv, Closer
<1>6. CASE durable[r] # "in_progress"
  <2> DEFINE x == [closer EXCEPT !.pc = "next"]
  <2>1. closer' = x /\ UNCHANGED <<durable, channel, local>>
    BY <1>3, <1>6 DEF InterruptFails
  <2>2. Over(r)
    BY <1>1, <1>4, <1>6 DEF TypeInv, Statuses, Over
  <2>3. x \in Closer /\ x.pc = "next" /\ x.visited = closer.visited
    BY <1>2 DEF Closer
  <2> HIDE DEF x
  <2>4. TypeInv'
    BY <1>1, <1>2, <2>1, <2>3 DEF TypeInv, requests
  <2>5. \A q \in Runs : SameRun(q)
    BY <1>2, <2>1 DEF SameRun
  <2>6. CloserInv' /\ CloserQuiet'
    BY <1>2, <1>5, <2>1, <2>2, <2>3 DEF CloserInv, CloserQuiet, Over
  <2>7. RunInv(r)' /\ (budget'.db = DbFaults => QuietRun(r)')
    BY <1>1, <1>2, <2>5, SameRunKeeps
  <2>8. QED
    BY <1>2, <1>4, <2>1, <2>4, <2>5, <2>6, <2>7, RequestFrame DEF requests
<1>7. CASE durable[r] = "in_progress"
  <2> DEFINE e == NextEvent(r, "error")
             x == [closer EXCEPT !.pc = "publishing", !.event = e]
  <2>1. /\ ~channel[r].terminal
        /\ durable' = [durable EXCEPT ![r] = "error"]
        /\ channel' = Recorded(r, "error") /\ PublishLocal(r, e) /\ closer' = x
    <3>1. ~channel[r].terminal
      BY <1>1, <1>7 DEF RunInv, Over, TerminalStatus
    <3>2. QED
      BY <1>3, <1>7, <3>1 DEF InterruptFails
  <2>2. /\ durable' \in [Runs -> Statuses] /\ durable'[r] = "error"
        /\ channel' \in [Runs -> Channel] /\ local' \in [Runs -> Seq(Event)]
        /\ channel'[r].open /\ channel'[r].cancelRequested = channel[r].cancelRequested
        /\ \A q \in Runs \ {r} : SameRun(q)
        /\ e \in Event /\ e.end = "error"
        /\ Over(r)' /\ ~Over(r) /\ RunInv(r)'
        /\ QuietRun(r) => QuietRun(r)'
    BY <1>2, <1>3, <1>4, <1>7, <2>1, TerminalEffect
  <2> HIDE DEF e
  <2>3. /\ x \in Closer /\ x.pc = "publishing"
        /\ x.run = r /\ x.event = e /\ x.visited = closer.visited
    BY <1>2, <1>3, <2>2 DEF Closer
  <2> HIDE DEF x
  <2>4. TypeInv'
    BY <1>1, <1>2, <2>1, <2>2, <2>3 DEF TypeInv, requests
  <2>5. CloserInv'
    <3>1. \A q \in closer.visited : Over(q)'
      BY <1>5, <2>2 DEF SameRun, Over
    <3>2. QED
      BY <1>2, <2>1, <2>2, <2>3, <3>1 DEF CloserInv, Final
  <2>6. CloserQuiet'
    BY <2>1, <2>2, <2>3 DEF CloserQuiet
  <2>7. budget'.db = DbFaults => QuietRun(r)'
    BY <1>1, <1>2, <2>2
  <2>8. durable'[r] # "absent" /\ channel[r].open
    BY <1>2, <1>3, <2>2
  <2>9. QED
    BY <1>2, <1>4, <2>2, <2>4, <2>5, <2>6, <2>7, <2>8, RequestFrame DEF requests
<1>8. QED
  BY <1>6, <1>7

\* The run_end(error) of an interrupted run was handed to Redis.
LEMMA InterruptPublishedStep ==
  ASSUME ManagerInv, InterruptPublished
  PROVE  ManagerInv'
<1>1. TypeInv /\ CloserInv
  BY DEF ManagerInv, SafeInv
<1>2. /\ closer.pc = "publishing" /\ closer.run \in Runs /\ Final(closer.event, closer.run)
      /\ closer \in Closer /\ up = "interrupting" /\ worker.pc = "returned"
  BY <1>1 DEF InterruptPublished, CloserInv, TypeInv
<1>3. PICK r \in Runs : r = closer.run
  BY <1>2
<1>4. /\ RunInv(r) /\ durable[r] \in TerminalStatus
      /\ budget.db = DbFaults => QuietRun(r) /\ closer.event.end = durable[r]
  BY <1>2, <1>3 DEF ManagerInv, SafeInv, QuietInv, CloserQuiet, Final, Over
<1>5. closer' \in Closer /\ closer'.pc = "next" /\ closer'.visited = closer.visited
  BY <1>2 DEF InterruptPublished, Closer
<1>6. /\ primary' \in [Runs -> Seq(Event)] /\ degraded' \in SUBSET Runs
      /\ budget' \in [restarts : Nat, db : 0..DbFaults, redis : Nat]
      /\ budget'.db = budget.db
      /\ \A q \in Runs \ {r} : SameRun(q)
      /\ RunInv(r)'
      /\ QuietRun(r) /\ closer.event.end = durable[r] => QuietRun(r)'
  BY <1>2, <1>3, AnnounceEffect DEF InterruptPublished
<1>7. TypeInv'
  BY <1>1, <1>5, <1>6 DEF InterruptPublished, TypeInv, requests
<1>8. CloserInv' /\ CloserQuiet'
  BY <1>1, <1>2, <1>5 DEF CloserInv, CloserQuiet, Over, InterruptPublished
<1>9. budget'.db <= budget.db
  BY <1>1, <1>6 DEF TypeInv
<1>10. durable[r] # "absent" /\ durable' = durable
  BY <1>4 DEF InterruptPublished, TerminalStatus
<1>11. QED
  BY <1>2, <1>3, <1>4, <1>6, <1>7, <1>8, <1>9, <1>10, RequestFrame
     DEF InterruptPublished, requests

\* fail_run raises out of close().
LEMMA InterruptRaisesStep ==
  ASSUME ManagerInv, InterruptRaises
  PROVE  ManagerInv'
<1>1. TypeInv /\ WorkerInv /\ CloserInv /\ \A q \in Runs : RunInv(q)
  BY DEF ManagerInv, SafeInv
<1>2. /\ up = "interrupting" /\ up' = "closed" /\ closer.pc = "failing"
      /\ closer.run \in Runs /\ channel[closer.run].open /\ worker.pc = "returned"
      /\ UNCHANGED <<stores, channel, exec, queue, worker, requests, closer, agentRuns>>
  BY <1>1 DEF InterruptRaises, CloserInv
<1>3. PICK r \in Runs : r = closer.run
  BY <1>2
<1>4. exec[r].pc \notin Suspended /\ durable[r] # "absent"
  BY <1>1, <1>2, <1>3 DEF WorkerInv, RunInv
<1>5. /\ budget' \in [restarts : Nat, db : 0..DbFaults, redis : Nat]
      /\ budget'.db <= budget.db /\ budget'.db # DbFaults
  BY <1>1, RaiseEffect DEF InterruptRaises, TypeInv
<1>6. /\ durable' \in [Runs -> Statuses] /\ durable'[r] # "absent"
      /\ Over(r) => durable'[r] = durable[r]
      /\ \A q \in Runs \ {r} : SameRun(q)
      /\ RunInv(r)'
  <2>1. \/ UNCHANGED durable
        \/ durable[r] = "in_progress" /\ durable' = [durable EXCEPT ![r] = "error"]
    BY <1>3 DEF InterruptRaises
  <2>2. QED
    BY <1>2, <1>4, <2>1, LandEffect
<1>7. TypeInv'
  BY <1>1, <1>2, <1>5, <1>6 DEF TypeInv, stores, requests
<1>8. QED
  BY <1>2, <1>3, <1>4, <1>5, <1>6, <1>7, RequestFrame DEF requests, stores

-----------------------------------------------------------------------------
\* What requests and close() hold stays right as long as no run that is over
\* changes, no channel closes and no cancelled task resumes.
LEMMA HeldKeeps ==
  ASSUME SafeInv,
         \A q \in Runs : Over(q) => durable'[q] = durable[q],
         \A q \in Runs : channel[q].open => channel'[q].open,
         \A q \in Runs : channel[q].cancelRequested => channel'[q].cancelRequested,
         \A q \in Runs : channel[q].cancelRequested /\ exec'[q].pc \in Suspended
                            => exec[q].pc \in Suspended,
         worker.pc = "returned" => worker'.pc = "returned"
  PROVE  /\ \A c \in Cancellers : cancels'[c] = cancels[c] =>
               /\ CancelInv(c)'
               /\ CancelQuiet(c) => CancelQuiet(c)'
         /\ UNCHANGED attaches =>
               /\ AttachesInv'
               /\ (\A a \in Attachers : AttachQuiet(a)) => \A a \in Attachers : AttachQuiet(a)'
         /\ UNCHANGED closer => CloserInv' /\ (CloserQuiet => CloserQuiet')
<1>1. TypeInv /\ CancelsInv /\ AttachesInv /\ CloserInv
  BY DEF SafeInv
<1>2. \A q \in Runs : Over(q) => Over(q)'
  BY DEF Over
<1>3. ASSUME NEW c \in Cancellers, cancels'[c] = cancels[c]
      PROVE  CancelInv(c)' /\ (CancelQuiet(c) => CancelQuiet(c)')
  <2>1. CancelInv(c)
    BY <1>1 DEF CancelsInv
  <2>2. CancelInv(c)'
    BY <1>2, <1>3, <2>1 DEF CancelInv, Final
  <2>3. CancelQuiet(c) => CancelQuiet(c)'
    BY <1>3, <2>1 DEF CancelInv, CancelQuiet, Final
  <2>4. QED
    BY <2>2, <2>3
<1>4. ASSUME UNCHANGED attaches, NEW a \in Attachers
      PROVE  AttachInv(a)' /\ (AttachQuiet(a) => AttachQuiet(a)')
  <2>1. AttachInv(a)
    BY <1>1 DEF AttachesInv
  <2>2. QED
    BY <1>2, <1>4, <2>1 DEF AttachInv, AttachQuiet, Final
<1>5. ASSUME UNCHANGED closer
      PROVE  CloserInv' /\ (CloserQuiet => CloserQuiet')
  BY <1>1, <1>2, <1>5 DEF CloserInv, CloserQuiet, Final, TypeInv, Closer
<1>6. QED
  BY <1>3, <1>4, <1>5 DEF AttachesInv

\* An empty process: no channel, no task, no request.
LEMMA EmptyRequests ==
  /\ \A S : [s \in S |-> NoRequest] \in [S -> Request]
  /\ [r \in Runs |-> NoChannel] \in [Runs -> Channel]
  /\ [r \in Runs |-> NoExec] \in [Runs -> Exec]
  /\ NoCloser \in Closer
  /\ [r \in Runs |-> <<>>] \in [Runs -> Seq(Event)]
  /\ <<>> \in Seq(Item \cup {Stop})
<1>1. NoExec \in Exec
  BY DEF NoExec, Exec, ExecPcs
<1>2. NoChannel \in Channel
  BY DEF NoChannel, Channel
<1>3. NoCloser \in Closer
  BY DEF NoCloser, Closer
<1>4. QED
  BY <1>1, <1>2, <1>3, NoRequestInRequest

\* A process that starts, exits or dies: what is left is in PostgreSQL and Redis.
LEMMA VolatileStep ==
  ASSUME ManagerInv, NEW pc \in {"none", "idle"}, Volatile(pc), up' \in {"serving", "down"},
         UNCHANGED <<primary, agentRuns>>, durable' \in [Runs -> Statuses],
         \A r \in Runs : \/ durable'[r] = durable[r]
                         \/ durable[r] = "in_progress" /\ durable'[r] = "error",
         budget' \in [restarts : Nat, db : 0..DbFaults, redis : Nat], budget'.db = budget.db
  PROVE  ManagerInv'
<1>1. TypeInv /\ (\A r \in Runs : RunInv(r)) /\ (budget.db = DbFaults => \A r \in Runs : QuietRun(r))
  BY DEF ManagerInv, SafeInv, QuietInv
<1>2. /\ local' = [r \in Runs |-> <<>>] /\ degraded' = {}
      /\ channel' = [r \in Runs |-> NoChannel] /\ exec' = [r \in Runs |-> NoExec]
      /\ queue' = <<>> /\ worker' = [NoWorker EXCEPT !.pc = pc]
      /\ submits' = [s \in Submitters |-> NoRequest]
      /\ cancels' = [c \in Cancellers |-> NoRequest]
      /\ attaches' = [a \in Attachers |-> NoRequest] /\ closer' = NoCloser
  BY DEF Volatile
<1>3. /\ worker' \in [pc : {"none", "idle", "busy", "returned", "dead"},
                      run : Runs \cup {None}, cancelling : BOOLEAN]
      /\ worker'.pc = pc
  BY <1>2 DEF NoWorker
<1>4. TypeInv'
  BY <1>1, <1>2, <1>3, EmptyRequests DEF TypeInv
<1>5. \A r \in Runs : Over(r) => durable'[r] = durable[r] /\ Over(r)'
  BY DEF Over, TerminalStatus
<1>6. ASSUME NEW r \in Runs
      PROVE  /\ channel'[r] = NoChannel /\ exec'[r] = NoExec /\ local'[r] = <<>>
             /\ primary'[r] = primary[r] /\ agentRuns'[r] = agentRuns[r]
             /\ ~channel'[r].open /\ ~channel'[r].terminal /\ ~channel'[r].cancelRequested
             /\ exec'[r].pc = "none" /\ ~exec'[r].replay /\ ~exec'[r].cancelling
             /\ ~Ended(local'[r]) /\ Len(local'[r]) = 0
  BY <1>2 DEF NoChannel, NoExec, Ended
<1>7. ASSUME NEW r \in Runs PROVE RunInv(r)'
  <2>1. RunInv(r)
    BY <1>1
  <2>2. ExecInv(r)'
    BY <1>6 DEF ExecInv, Going
  <2>3. durable'[r] = "absent" => durable[r] = "absent"
    OBVIOUS
  <2>4. QED
    BY <1>5, <1>6, <2>1, <2>2, <2>3 DEF RunInv
<1>8. SubmitsInv'
  BY <1>2 DEF SubmitsInv, Fresh, NoRequest
<1>9. QueueInv'
  BY <1>2 DEF QueueInv
<1>10. WorkerInv'
  BY <1>3, <1>6 DEF WorkerInv, Suspended
<1>11. CancelsInv' /\ AttachesInv' /\ CloserInv'
  BY <1>2 DEF CancelsInv, CancelInv, AttachesInv, AttachInv, CloserInv, NoRequest, NoCloser
<1>12. QuietInv'
  <2> SUFFICES ASSUME budget'.db = DbFaults PROVE QuietInv'
    BY DEF QuietInv
  <2>1. ASSUME NEW r \in Runs PROVE QuietRun(r)'
    <3>1. QuietRun(r)
      BY <1>1
    <3>2. \A i \in 1..Len(primary[r]) : primary[r][i].end \in {"no", durable'[r]}
      BY <1>1, <1>5, <3>1, EventsStayRight
    <3>3. QED
      BY <1>6, <3>2 DEF QuietRun
  <2>2. \A r \in Runs : Accounted(r)'
    BY <1>6 DEF Accounted
  <2>3. (\A c \in Cancellers : CancelQuiet(c)') /\ (\A a \in Attachers : AttachQuiet(a)')
    BY <1>2 DEF CancelQuiet, AttachQuiet, NoRequest
  <2>4. CloserQuiet'
    BY <1>2 DEF CloserQuiet, NoCloser
  <2>5. QED
    BY <1>3, <1>6, <2>1, <2>2, <2>3, <2>4 DEF QuietInv
<1>13. QED
  BY <1>4, <1>7, <1>8, <1>9, <1>10, <1>11, <1>12 DEF ManagerInv, SafeInv

\* start() recovers what is in progress and begins to serve.
LEMMA StartStep ==
  ASSUME ManagerInv, Start
  PROVE  ManagerInv'
<1>1. TypeInv
  BY DEF ManagerInv, SafeInv
<1>2. durable' = [r \in Runs |-> IF durable[r] = "in_progress" THEN "error" ELSE durable[r]]
  BY DEF Start
<1>3. durable' \in [Runs -> Statuses]
  BY <1>1, <1>2 DEF TypeInv, Statuses, TerminalStatus
<1>4. \A r \in Runs : \/ durable'[r] = durable[r]
                      \/ durable[r] = "in_progress" /\ durable'[r] = "error"
  BY <1>2
<1>5. budget' \in [restarts : Nat, db : 0..DbFaults, redis : Nat] /\ budget'.db = budget.db
  BY <1>1 DEF Start, TypeInv
<1>6. QED
  BY <1>3, <1>4, <1>5, VolatileStep DEF Start

\* The process exits after close(), or dies.
LEMMA LeaveStep ==
  ASSUME ManagerInv, Exit \/ Crash
  PROVE  ManagerInv'
<1>1. TypeInv
  BY DEF ManagerInv, SafeInv
<1>2. durable' \in [Runs -> Statuses] /\ durable' = durable
  BY <1>1 DEF Exit, Crash, Leave, TypeInv
<1>3. budget' \in [restarts : Nat, db : 0..DbFaults, redis : Nat] /\ budget'.db = budget.db
  <2>1. CASE Exit
    BY <1>1, <2>1 DEF Exit, TypeInv
  <2>2. CASE Crash
    <3>1. budget \in [restarts : Nat, db : 0..DbFaults, redis : Nat]
      BY <1>1 DEF TypeInv
    <3>2. PICK n \in Nat : n = budget.restarts - 1
      BY <2>2, <3>1 DEF Crash
    <3>3. budget' = [budget EXCEPT !.restarts = n]
      BY <2>2, <3>2 DEF Crash
    <3>4. QED
      BY <3>1, <3>3
  <2>3. QED
    BY <2>1, <2>2
<1>4. QED
  BY <1>2, <1>3, VolatileStep DEF Exit, Crash, Leave

-----------------------------------------------------------------------------
\* A step of submission s: apart from admitting or enqueueing its run, nothing moves.
LEMMA SubmitCheckStep ==
  ASSUME ManagerInv, NEW s \in Submitters, NEW r \in Runs, SubmitCheck(s, r)
  PROVE  ManagerInv'
<1>1. /\ TypeInv /\ (\A q \in Runs : RunInv(q)) /\ SubmitsInv /\ QueueInv /\ WorkerInv
      /\ CancelsInv /\ AttachesInv /\ CloserInv /\ QuietInv
  BY DEF ManagerInv, SafeInv
<1> DEFINE x == [NoRequest EXCEPT !.pc = "admitting", !.run = r]
<1>2. /\ submits \in [Submitters -> Request] /\ submits' = [submits EXCEPT ![s] = x]
      /\ UNCHANGED <<durable, stores, up, channel, exec, queue, worker, cancels, attaches,
                     closer, budget, agentRuns>>
  BY <1>1 DEF SubmitCheck, TypeInv
<1>3. x \in Request /\ x.pc = "admitting" /\ x.run = r
  BY DEF NoRequest, Request
<1> HIDE DEF x
<1>4. /\ submits' \in [Submitters -> Request] /\ submits'[s] = x
      /\ \A u \in Submitters \ {s} : submits'[u] = submits[u]
  BY <1>2, <1>3
<1>5. TypeInv'
  BY <1>1, <1>2, <1>4 DEF TypeInv, stores
<1>6. \A q \in Runs : SameRun(q)
  BY <1>2 DEF SameRun, stores
<1>7. \A q \in Runs : RunInv(q)'
  BY <1>1, <1>6, SameRunKeeps
<1>8. SubmitsInv'
  <2>1. ~Fresh(s)' /\ \A u \in Submitters \ {s} : Fresh(u)' <=> Fresh(u)
    BY <1>3, <1>4 DEF Fresh
  <2>2. \A u \in Submitters \ {s} : Fresh(u) => Untouched(submits[u].run)'
    BY <1>1, <1>2 DEF SubmitsInv, Untouched, stores
  <2>3. QED
    BY <1>1, <1>2, <1>3, <1>4, <2>1, <2>2 DEF SubmitsInv
<1>9. QueueInv' /\ WorkerInv'
  BY <1>1, <1>2 DEF QueueInv, ItemInv, Untouched, WorkerInv, Queued, stores
<1>10. CancelsInv' /\ AttachesInv' /\ CloserInv'
  BY <1>1, <1>2 DEF CancelsInv, CancelInv, AttachesInv, AttachInv, CloserInv, Final, Over
<1>11. QuietInv'
  <2>1. \A q \in Runs : QuietRun(q) => QuietRun(q)'
    BY <1>6, SameRunKeeps
  <2>2. QED
    BY <1>1, <1>2, <2>1 DEF QuietInv, Accounted, Queued, Cancelling, CancelQuiet, AttachQuiet,
                            CloserQuiet
<1>12. QED
  BY <1>5, <1>7, <1>8, <1>9, <1>10, <1>11 DEF ManagerInv, SafeInv

\* What prepare_stream may do to the run of submission s, and what s is told.
LEMMA AdmitStep ==
  ASSUME ManagerInv, NEW s \in Submitters, NEW r \in Runs, NEW x \in Request,
         submits[s].pc = "admitting", submits[s].run = r, submits' = [submits EXCEPT ![s] = x],
         \/ durable' = durable
         \/ durable[r] = "absent" /\ durable' = [durable EXCEPT ![r] = "in_progress"],
         x.pc = "idle" \/ /\ x.pc = "admitted" /\ x.run = r
                          /\ IF x.replay THEN durable'[r] = "completed"
                             ELSE durable[r] = "absent" /\ durable'[r] = "in_progress",
         budget' \in [restarts : Nat, db : 0..DbFaults, redis : Nat], budget'.db <= budget.db,
         UNCHANGED <<stores, up, channel, exec, queue, worker, cancels, attaches, closer, agentRuns>>
  PROVE  ManagerInv'
<1>1. /\ TypeInv /\ (\A q \in Runs : RunInv(q)) /\ SubmitsInv /\ QueueInv /\ WorkerInv
      /\ CancelsInv /\ QuietInv /\ SafeInv
  BY DEF ManagerInv, SafeInv
<1>2. /\ submits' \in [Submitters -> Request] /\ submits'[s] = x
      /\ \A u \in Submitters \ {s} : submits'[u] = submits[u]
  BY <1>1 DEF TypeInv
<1>3. /\ durable' \in [Runs -> Statuses]
      /\ \A q \in Runs \ {r} : durable'[q] = durable[q]
      /\ \A q \in Runs : durable[q] # "absent" => durable'[q] = durable[q] /\ durable'[q] # "absent"
      /\ durable'[r] = durable[r] \/ (durable[r] = "absent" /\ durable'[r] = "in_progress")
  BY <1>1 DEF TypeInv, Statuses
<1>4. TypeInv'
  BY <1>1, <1>2, <1>3 DEF TypeInv, stores
<1>5. \A q \in Runs : SameRun(q) \/ (q = r /\ durable[r] = "absent" /\ durable'[r] = "in_progress")
  BY <1>3 DEF SameRun, stores
<1>6. ASSUME durable[r] = "absent", durable'[r] = "in_progress"
      PROVE  /\ RunInv(r)' /\ (QuietRun(r) => QuietRun(r)') /\ Untouched(r)'
             /\ channel[r] = NoChannel /\ ~channel[r].open /\ exec[r].pc = "none"
  <2>1. /\ local[r] = <<>> /\ primary[r] = <<>> /\ agentRuns[r] = 0 /\ ~channel[r].open
        /\ channel[r] = NoChannel /\ exec[r].pc = "none" /\ RunInv(r)
    BY <1>1, <1>6 DEF RunInv
  <2>2. /\ ~channel[r].terminal /\ channel[r].events = 0
        /\ ~exec[r].replay /\ ~Ended(local[r]) /\ ~Ended(primary[r])
    BY <1>6, <2>1 DEF NoChannel, RunInv, ExecInv, Ended
  <2>3. ExecInv(r)'
    BY <2>1, <2>2 DEF ExecInv, Going, stores
  <2>4. RunInv(r)'
    BY <1>6, <2>1, <2>2, <2>3 DEF RunInv, stores
  <2>5. QuietRun(r)'
    BY <1>6, <2>1 DEF QuietRun, stores
  <2>6. QED
    BY <1>6, <2>1, <2>2, <2>4, <2>5 DEF Untouched, stores
<1>7. \A q \in Runs : RunInv(q)'
  BY <1>1, <1>5, <1>6, SameRunKeeps
<1>8. \A q \in Runs : /\ Over(q) => durable'[q] = durable[q]
                      /\ Untouched(q) => Untouched(q)'
                      /\ durable[q] = "completed" => durable'[q] = "completed"
  BY <1>3 DEF Over, TerminalStatus, Untouched, stores
<1>9. SubmitsInv'
  <2>1. \A u \in Submitters \ {s} : Fresh(u)' <=> Fresh(u)
    BY <1>2 DEF Fresh
  <2>2. \A u \in Submitters : Fresh(u) => /\ submits[u].run \in Runs
                                          /\ Untouched(submits[u].run)
                                          /\ durable[submits[u].run] = "in_progress"
                                          /\ ~channel[submits[u].run].open
    BY <1>1 DEF SubmitsInv, Fresh, Untouched
  <2>3. Fresh(s)' => x.run = r /\ durable[r] = "absent" /\ durable'[r] = "in_progress"
    BY <1>2 DEF Fresh
  <2>4. ASSUME NEW u \in Submitters, Fresh(u)'
        PROVE  (Untouched(submits[u].run) /\ ~channel[submits[u].run].open)'
    <3>1. CASE u = s
      BY <1>2, <1>6, <2>3, <2>4, <3>1
    <3>2. CASE u # s
      BY <1>2, <1>8, <2>1, <2>2, <2>4, <3>2
    <3>3. QED
      BY <3>1, <3>2
  <2>5. \A u, v \in Submitters : Fresh(u)' /\ Fresh(v)' /\ submits'[u].run = submits'[v].run => u = v
    <3> SUFFICES ASSUME NEW u \in Submitters, NEW v \in Submitters,
                        Fresh(u)', Fresh(v)', submits'[u].run = submits'[v].run
                 PROVE  u = v
      OBVIOUS
    <3>1. CASE u # s /\ v # s
      BY <1>1, <1>2, <2>1, <3>1 DEF SubmitsInv
    <3>2. CASE u = s \/ v = s
      BY <1>2, <2>1, <2>2, <2>3, <3>2
    <3>3. QED
      BY <3>1, <3>2
  <2>6. \A u \in Submitters : /\ submits'[u].pc \in {"idle", "admitting", "admitted"}
                              /\ submits'[u].pc # "idle" => submits'[u].run \in Runs
                              /\ submits'[u].pc = "admitted" /\ submits'[u].replay
                                    => durable'[submits'[u].run] = "completed"
    BY <1>1, <1>2, <1>8 DEF SubmitsInv
  <2>7. QED
    BY <2>4, <2>5, <2>6 DEF SubmitsInv
<1>10. QueueInv'
  <2>1. ASSUME NEW y \in Item, ItemInv(y)
        PROVE  ItemInv(y)'
    BY <1>3, <1>8, <2>1 DEF Item, ItemInv
  <2>2. \A i \in 1..Len(queue) : queue[i] # Stop => queue[i] \in Item
    BY <1>1 DEF TypeInv
  <2>3. QED
    BY <1>1, <2>1, <2>2 DEF QueueInv
<1>11. WorkerInv'
  BY <1>1 DEF WorkerInv, Queued
<1>12. CancelsInv' /\ AttachesInv' /\ CloserInv'
  BY <1>1, <1>8, HeldKeeps DEF CancelsInv
<1>13. QuietInv'
  <2> SUFFICES ASSUME budget'.db = DbFaults PROVE QuietInv'
    BY DEF QuietInv
  <2>1. budget.db = DbFaults
    BY <1>1 DEF TypeInv
  <2>2. QuietInv!2
    BY <1>1, <2>1 DEF QuietInv
  <2>3. \A q \in Runs : QuietRun(q)'
    BY <1>5, <1>6, <2>2, SameRunKeeps
  <2>4. \A q \in Runs : (Queued(q)' <=> Queued(q)) /\ (Cancelling(q)' <=> Cancelling(q))
    BY DEF Queued, Cancelling
  <2>5. \A q \in Runs : Accounted(q)'
    BY <1>3, <1>6, <2>2, <2>4 DEF Accounted
  <2>6. \A q \in Runs : channel'[q].cancelRequested /\ durable'[q] = "in_progress" => Cancelling(q)'
    BY <1>3, <1>6, <2>2, <2>4 DEF NoChannel
  <2>7. (\A c \in Cancellers : CancelQuiet(c)') /\ (\A a \in Attachers : AttachQuiet(a)')
        /\ CloserQuiet'
    BY <1>1, <1>8, <2>2, HeldKeeps
  <2>8. QED
    BY <2>2, <2>3, <2>5, <2>6, <2>7 DEF QuietInv
<1>14. QED
  BY <1>4, <1>7, <1>9, <1>10, <1>11, <1>12, <1>13 DEF ManagerInv, SafeInv

\* prepare_stream admits a new run, finds a completed one to replay, or refuses.
LEMMA SubmitAdmitStep ==
  ASSUME ManagerInv, NEW s \in Submitters, SubmitAdmit(s)
  PROVE  ManagerInv'
<1>1. TypeInv /\ SubmitsInv
  BY DEF ManagerInv, SafeInv
<1>2. /\ submits[s].pc = "admitting" /\ submits[s].run \in Runs
      /\ submits \in [Submitters -> Request] /\ submits[s] \in Request
      /\ durable \in [Runs -> Statuses]
      /\ UNCHANGED <<stores, up, channel, exec, queue, worker, cancels, attaches,
                     closer, budget, agentRuns>>
  BY <1>1 DEF SubmitAdmit, SubmitsInv, TypeInv
<1>3. PICK r \in Runs : r = submits[s].run
  BY <1>2
<1>4. PICK b \in BOOLEAN : b = (durable[r] = "completed")
  OBVIOUS
<1> DEFINE told == [submits[s] EXCEPT !.pc = "admitted", !.replay = b]
<1>5. told \in Request /\ told.pc = "admitted" /\ told.run = r /\ told.replay = b
  BY <1>2, <1>3 DEF Request
<1> HIDE DEF told
<1>6. budget' \in [restarts : Nat, db : 0..DbFaults, redis : Nat] /\ budget'.db <= budget.db
  BY <1>1, <1>2 DEF TypeInv
<1>7. CASE durable[r] = "absent"
  <2>1. durable' = [durable EXCEPT ![r] = "in_progress"] /\ ~b
    BY <1>3, <1>4, <1>7 DEF SubmitAdmit
  <2>2. submits' = [submits EXCEPT ![s] = told]
    <3>1. submits' = [submits EXCEPT ![s] =
                        [submits[s] EXCEPT !.pc = "admitted", !.replay = (durable[r] = "completed")]]
      BY <1>2, <1>3, <1>7 DEF SubmitAdmit
    <3>2. QED
      BY <1>4, <3>1 DEF told
  <2>3. durable'[r] = "in_progress" /\ ~told.replay
    BY <1>2, <1>5, <2>1
  <2>4. QED
    BY <1>2, <1>3, <1>5, <1>6, <1>7, <2>1, <2>2, <2>3, AdmitStep
<1>8. CASE durable[r] = "completed"
  <2>1. durable' = durable
    BY <1>3, <1>8 DEF SubmitAdmit
  <2>2. submits' = [submits EXCEPT ![s] = told]
    <3>1. submits' = [submits EXCEPT ![s] =
                        [submits[s] EXCEPT !.pc = "admitted", !.replay = (durable[r] = "completed")]]
      BY <1>2, <1>3, <1>8 DEF SubmitAdmit
    <3>2. QED
      BY <1>4, <3>1 DEF told
  <2>3. QED
    BY <1>2, <1>3, <1>4, <1>5, <1>6, <1>8, <2>1, <2>2, AdmitStep
<1>9. CASE durable[r] \notin {"absent", "completed"}
  <2>1. durable' = durable /\ submits' = [submits EXCEPT ![s] = NoRequest]
    BY <1>2, <1>3, <1>9 DEF SubmitAdmit
  <2>2. NoRequest.pc = "idle"
    BY DEF NoRequest
  <2>3. QED
    BY <1>2, <1>3, <1>6, <2>1, <2>2, NoRequestInRequest, AdmitStep DEF SubmitAdmit
<1>10. QED
  BY <1>7, <1>8, <1>9

\* admit_run raised; nobody is told of the run it may have admitted.
LEMMA SubmitRaisesStep ==
  ASSUME ManagerInv, NEW s \in Submitters, SubmitRaises(s)
  PROVE  ManagerInv'
<1>1. TypeInv /\ SubmitsInv
  BY DEF ManagerInv, SafeInv
<1>2. submits[s].pc = "admitting" /\ submits[s].run \in Runs
  BY <1>1 DEF SubmitRaises, SubmitsInv
<1>3. PICK r \in Runs : r = submits[s].run
  BY <1>2
<1>4. /\ budget' \in [restarts : Nat, db : 0..DbFaults, redis : Nat]
      /\ budget'.db <= budget.db
  BY <1>1, RaiseEffect DEF SubmitRaises, TypeInv
<1>5. NoRequest.pc = "idle" /\ NoRequest \in Request
  BY NoRequestInRequest DEF NoRequest
<1>6. QED
  BY <1>2, <1>3, <1>4, <1>5, AdmitStep DEF SubmitRaises

\* Back in submit(): the run gets a channel and a place in the queue, unless an
\* earlier request of the same run gave it both.
LEMMA SubmitEnqueueStep ==
  ASSUME ManagerInv, NEW s \in Submitters, SubmitEnqueue(s)
  PROVE  ManagerInv'
<1>1. /\ TypeInv /\ (\A q \in Runs : RunInv(q)) /\ SubmitsInv /\ QueueInv /\ WorkerInv
      /\ CancelsInv /\ QuietInv /\ SafeInv
  BY DEF ManagerInv, SafeInv
<1>2. /\ submits[s].pc = "admitted" /\ submits[s].run \in Runs
      /\ submits \in [Submitters -> Request] /\ submits[s] \in Request
      /\ channel \in [Runs -> Channel] /\ queue \in Seq(Item \cup {Stop})
      /\ submits' = [submits EXCEPT ![s] = NoRequest]
      /\ UNCHANGED <<durable, stores, up, exec, worker, cancels, attaches,
                     closer, budget, agentRuns>>
  BY <1>1 DEF SubmitEnqueue, SubmitsInv, TypeInv
<1>3. PICK r \in Runs : r = submits[s].run
  BY <1>2
<1>4. /\ submits' \in [Submitters -> Request] /\ submits'[s].pc = "idle"
      /\ \A u \in Submitters \ {s} : submits'[u] = submits[u]
  BY <1>2, NoRequestInRequest DEF NoRequest
<1>5. ~Fresh(s)' /\ \A u \in Submitters \ {s} : Fresh(u)' <=> Fresh(u)
  BY <1>4 DEF Fresh
<1>6. \A u \in Submitters : Fresh(u) => /\ submits[u].run \in Runs
                                        /\ Untouched(submits[u].run)
                                        /\ ~channel[submits[u].run].open
  BY <1>1 DEF SubmitsInv, Fresh
<1>7. \A q \in Runs : Untouched(q) <=> Untouched(q) /\ durable[q] = "in_progress"
  BY DEF Untouched
<1>8. CASE channel[r].open
  <2>1. UNCHANGED <<channel, queue>>
    BY <1>3, <1>8 DEF SubmitEnqueue
  <2>2. TypeInv'
    BY <1>1, <1>2, <1>4, <2>1 DEF TypeInv, stores
  <2>3. \A q \in Runs : SameRun(q)
    BY <1>2, <2>1 DEF SameRun, stores
  <2>4. \A q \in Runs : RunInv(q)'
    BY <1>1, <2>3, SameRunKeeps
  <2>5. SubmitsInv'
    <3>1. \A u \in Submitters \ {s} : Fresh(u) => Untouched(submits[u].run)'
      BY <1>2, <1>6, <2>1 DEF Untouched, stores
    <3>2. QED
      BY <1>1, <1>2, <1>4, <1>5, <1>6, <2>1, <3>1 DEF SubmitsInv
  <2>6. QueueInv' /\ WorkerInv'
    BY <1>1, <1>2, <2>1 DEF QueueInv, ItemInv, Untouched, WorkerInv, Queued, stores
  <2>7. CancelsInv' /\ AttachesInv' /\ CloserInv'
    BY <1>1, <1>2, <2>1, HeldKeeps DEF CancelsInv
  <2>8. QuietInv'
    <3>1. \A q \in Runs : QuietRun(q) => QuietRun(q)'
      BY <2>3, SameRunKeeps
    <3>2. QED
      BY <1>1, <1>2, <2>1, <3>1 DEF QuietInv, Accounted, Queued, Cancelling, CancelQuiet,
                                    AttachQuiet, CloserQuiet
  <2>9. QED
    BY <2>2, <2>4, <2>5, <2>6, <2>7, <2>8 DEF ManagerInv, SafeInv
<1>9. CASE ~channel[r].open
  <2>1. PICK item \in Item : item = [run |-> r, replay |-> submits[s].replay]
    BY <1>2 DEF Item, Request
  <2>2. /\ item.run = r /\ item.replay = submits[s].replay /\ item # Stop
        /\ channel' = [channel EXCEPT ![r].open = TRUE] /\ queue' = Append(queue, item)
    BY <1>3, <1>9, <2>1, ManagerAssumption DEF SubmitEnqueue, Item
  <2>3. /\ channel' \in [Runs -> Channel] /\ channel'[r].open
        /\ \A q \in Runs : /\ channel'[q].terminal = channel[q].terminal
                           /\ channel'[q].cancelRequested = channel[q].cancelRequested
                           /\ channel'[q].events = channel[q].events
                           /\ q # r => channel'[q] = channel[q]
    BY <1>2, <2>2 DEF Channel
  <2>4. /\ queue' \in Seq(Item \cup {Stop}) /\ Len(queue') = Len(queue) + 1
        /\ \A i \in 1..Len(queue) : queue'[i] = queue[i]
        /\ queue'[Len(queue) + 1] = item /\ Len(queue) \in Nat
    BY <1>2, <2>1, <2>2
  <2>5. /\ ~channel[r].terminal /\ ~channel[r].cancelRequested /\ channel[r].events = 0
        /\ exec[r].pc = "none" /\ RunInv(r)
    BY <1>1, <1>9 DEF RunInv, NoChannel
  <2>6. IF item.replay THEN durable[r] = "completed" ELSE Fresh(s) /\ Untouched(r)
    BY <1>1, <1>2, <1>3, <2>2 DEF SubmitsInv, Fresh
  <2>7. durable[r] # "absent"
    BY <2>6 DEF Untouched
  <2>8. TypeInv'
    BY <1>1, <1>2, <1>4, <2>3, <2>4 DEF TypeInv, stores
  <2>9. \A q \in Runs \ {r} : SameRun(q)
    BY <1>2, <2>3 DEF SameRun, stores
  <2>10. RunInv(r)' /\ (QuietRun(r) => QuietRun(r)')
    <3>1. ExecInv(r)'
      BY <1>2, <2>3, <2>5 DEF RunInv, ExecInv, Going, Over, stores
    <3>2. QED
      BY <1>2, <2>3, <2>5, <2>7, <3>1 DEF RunInv, Over, QuietRun, stores
  <2>11. \A q \in Runs : RunInv(q)'
    BY <1>1, <2>9, <2>10, SameRunKeeps
  <2>12. \A q \in Runs : Untouched(q) => Untouched(q)'
    BY <1>2, <2>3 DEF Untouched, stores
  <2>13. \A u \in Submitters \ {s} : Fresh(u) => submits[u].run # r
    BY <1>1, <1>3, <1>6, <2>6 DEF SubmitsInv, Untouched
  <2>14. SubmitsInv'
    <3>1. \A u \in Submitters \ {s} : Fresh(u) => /\ Untouched(submits[u].run)'
                                                  /\ ~channel'[submits[u].run].open
      BY <1>2, <1>6, <2>3, <2>12, <2>13 DEF Fresh
    <3>2. QED
      BY <1>1, <1>2, <1>4, <1>5, <3>1 DEF SubmitsInv
  <2>15. \A i \in 1..Len(queue) : queue[i] # Stop => /\ queue[i] \in Item
                                                    /\ ItemInv(queue[i])
                                                    /\ queue[i].run \in Runs
                                                    /\ queue[i].run # r
    BY <1>1, <1>2, <1>9 DEF QueueInv, ItemInv, Item
  <2>16. QueueInv'
    <3>1. ASSUME NEW y \in Item, ItemInv(y), y.run # r
          PROVE  ItemInv(y)'
      BY <1>2, <2>3, <2>12, <3>1 DEF Item, ItemInv, stores
    <3>2. ItemInv(item)'
      BY <1>2, <2>2, <2>3, <2>5, <2>6, <2>7, <2>12 DEF ItemInv, Untouched
    <3>3. ASSUME NEW i \in 1..Len(queue'), queue'[i] # Stop
          PROVE  ItemInv(queue[i])'
      <4>1. CASE i \in 1..Len(queue)
        BY <2>4, <2>15, <3>1, <3>3, <4>1
      <4>2. CASE i = Len(queue) + 1
        BY <2>4, <3>2, <4>2
      <4>3. QED
        BY <2>4, <4>1, <4>2
    <3>4. ASSUME NEW i \in 1..Len(queue'), NEW j \in 1..Len(queue'),
                 queue'[i] # Stop, queue'[j] # Stop, queue'[i].run = queue'[j].run
          PROVE  i = j
      <4>1. CASE i \in 1..Len(queue) /\ j \in 1..Len(queue)
        BY <1>1, <2>4, <3>4, <4>1 DEF QueueInv
      <4>2. CASE i = Len(queue) + 1 \/ j = Len(queue) + 1
        BY <2>2, <2>4, <2>15, <3>4, <4>2
      <4>3. QED
        BY <2>4, <4>1, <4>2
    <3>5. QED
      BY <3>3, <3>4 DEF QueueInv
  <2>17. Queued(r)' /\ \A q \in Runs : Queued(q) => Queued(q)'
    <3>1. Queued(r)'
      BY <2>2, <2>4 DEF Queued
    <3>2. ASSUME NEW q \in Runs, Queued(q) PROVE Queued(q)'
      <4>1. PICK i \in 1..Len(queue) : queue[i] # Stop /\ queue[i].run = q
        BY <1>2, <3>2 DEF Queued
      <4>2. i \in DOMAIN queue' /\ queue'[i] = queue[i]
        BY <2>4, <4>1
      <4>3. QED
        BY <4>1, <4>2 DEF Queued
    <3>3. QED
      BY <3>1, <3>2
  <2>18. WorkerInv'
    BY <1>1, <1>2, <2>3, <2>9, <2>17 DEF WorkerInv, SameRun
  <2>19. CancelsInv' /\ AttachesInv' /\ CloserInv'
    BY <1>1, <1>2, <2>3, HeldKeeps DEF CancelsInv
  <2>20. QuietInv'
    <3> SUFFICES ASSUME budget'.db = DbFaults PROVE QuietInv'
      BY DEF QuietInv
    <3>1. QuietInv!2
      BY <1>1, <1>2 DEF QuietInv
    <3>2. \A q \in Runs : QuietRun(q)'
      BY <2>9, <2>10, <3>1, SameRunKeeps
    <3>3. \A q \in Runs : Cancelling(q)' <=> Cancelling(q)
      BY <1>2 DEF Cancelling
    <3>4. \A q \in Runs : Accounted(q)'
      BY <1>2, <2>3, <2>17, <3>1, <3>3 DEF Accounted
    <3>5. (\A c \in Cancellers : CancelQuiet(c)') /\ (\A a \in Attachers : AttachQuiet(a)')
          /\ CloserQuiet'
      BY <1>1, <1>2, <2>3, <3>1, HeldKeeps
    <3>6. QED
      BY <1>2, <2>3, <3>1, <3>2, <3>3, <3>4, <3>5 DEF QuietInv
  <2>21. QED
    BY <2>8, <2>11, <2>14, <2>16, <2>18, <2>19, <2>20 DEF ManagerInv, SafeInv
<1>10. QED
  BY <1>8, <1>9

-----------------------------------------------------------------------------
\* The queue without its first item, whose run occurs nowhere else in it.
LEMMA TakeEffect ==
  ASSUME SafeInv, queue # <<>>, queue' = Tail(queue)
  PROVE  /\ queue' \in Seq(Item \cup {Stop}) /\ Head(queue) \in Item \cup {Stop}
         /\ Head(queue) # Stop => Head(queue) \in Item /\ ItemInv(Head(queue))
         /\ \A q : Queued(q) => Queued(q)' \/ (Head(queue) # Stop /\ Head(queue).run = q)
         /\ (\A x \in Item : ItemInv(x) /\ (Head(queue) = Stop \/ x.run # Head(queue).run)
                                => ItemInv(x)')
               => QueueInv'
<1>1. queue \in Seq(Item \cup {Stop}) /\ QueueInv
  BY DEF SafeInv, TypeInv
<1>2. /\ Len(queue) \in Nat /\ Len(queue) # 0 /\ Head(queue) = queue[1] /\ 1 \in 1..Len(queue)
      /\ queue' \in Seq(Item \cup {Stop}) /\ Len(queue') = Len(queue) - 1
      /\ \A i \in 1..Len(queue') : i + 1 \in 1..Len(queue) /\ queue'[i] = queue[i + 1]
  BY <1>1
<1>3. \A i \in 1..Len(queue) : queue[i] \in Item \cup {Stop}
  BY <1>1
<1>4. Head(queue) # Stop => Head(queue) \in Item /\ ItemInv(Head(queue))
  BY <1>1, <1>2, <1>3 DEF QueueInv
<1>5. ASSUME NEW q, Queued(q), Head(queue) = Stop \/ Head(queue).run # q
      PROVE  Queued(q)'
  <2>1. PICK i \in 1..Len(queue) : queue[i] # Stop /\ queue[i].run = q
    BY <1>1, <1>5 DEF Queued
  <2>2. PICK j \in 1..Len(queue') : i = j + 1
    <3>1. i # 1
      BY <1>2, <1>5, <2>1
    <3>2. i - 1 \in 1..Len(queue') /\ i = (i - 1) + 1
      BY <1>2, <3>1
    <3>3. QED
      BY <3>2
  <2>3. j \in DOMAIN queue' /\ queue'[j] = queue[i]
    BY <1>2, <2>2
  <2>4. QED
    BY <2>1, <2>3 DEF Queued
<1>6. ASSUME \A x \in Item : ItemInv(x) /\ (Head(queue) = Stop \/ x.run # Head(queue).run)
                                => ItemInv(x)'
      PROVE  QueueInv'
  <2>1. ASSUME NEW i \in 1..Len(queue'), queue'[i] # Stop
        PROVE  ItemInv(queue[i])'
    <3>1. PICK x \in Item : x = queue'[i]
      BY <1>2, <2>1
    <3>2. ItemInv(x) /\ x = queue[i + 1] /\ x # Stop
      BY <1>1, <1>2, <2>1, <3>1 DEF QueueInv
    <3>3. Head(queue) = Stop \/ x.run # Head(queue).run
      BY <1>1, <1>2, <3>2 DEF QueueInv
    <3>4. ItemInv(x)'
      BY <1>6, <3>2, <3>3
    <3>5. QED
      BY <3>1, <3>4
  <2>2. ASSUME NEW i \in 1..Len(queue'), NEW j \in 1..Len(queue'),
               queue'[i] # Stop, queue'[j] # Stop, queue'[i].run = queue'[j].run
        PROVE  i = j
    <3>1. i + 1 = j + 1
      BY <1>1, <1>2, <2>2 DEF QueueInv
    <3>2. QED
      BY <3>1
  <2>3. QED
    BY <2>1, <2>2 DEF QueueInv
<1>7. QED
  BY <1>2, <1>3, <1>4, <1>5, <1>6

\* The worker gives the first run of the queue its task.
LEMMA WorkerStartsStep ==
  ASSUME ManagerInv, worker.pc = "idle", queue # <<>>, queue' = Tail(queue),
         NEW item \in Item, item = Head(queue), item # Stop, ~channel[item.run].cancelRequested,
         worker' = [worker EXCEPT !.pc = "busy", !.run = item.run],
         exec' = [exec EXCEPT ![item.run] =
                    [NoExec EXCEPT !.pc = "created", !.replay = item.replay]],
         agentRuns' = [agentRuns EXCEPT ![item.run] = @ + (IF item.replay THEN 0 ELSE 1)],
         UNCHANGED <<durable, stores, up, channel, requests, closer, budget>>
  PROVE  ManagerInv'
<1>1. /\ TypeInv /\ (\A q \in Runs : RunInv(q)) /\ SubmitsInv /\ WorkerInv
      /\ CancelsInv /\ QuietInv /\ SafeInv
  BY DEF ManagerInv, SafeInv
<1>2. PICK r \in Runs : r = item.run
  BY DEF Item
<1>3. /\ queue' \in Seq(Item \cup {Stop}) /\ ItemInv(item)
      /\ \A q : Queued(q) => Queued(q)' \/ q = r
      /\ (\A x \in Item : ItemInv(x) /\ x.run # r => ItemInv(x)') => QueueInv'
  BY <1>1, <1>2, TakeEffect
<1>4. /\ channel[r].open /\ exec[r].pc = "none" /\ RunInv(r)
      /\ ~channel[r].cancelRequested /\ ~channel[r].terminal
      /\ IF item.replay THEN durable[r] = "completed"
         ELSE durable[r] = "in_progress" /\ agentRuns[r] = 0 /\ local[r] = <<>>
              /\ channel[r].events = 0
  BY <1>1, <1>2, <1>3 DEF ItemInv, Untouched
<1> DEFINE x == [NoExec EXCEPT !.pc = "created", !.replay = item.replay]
<1>5. /\ x \in Exec /\ x.pc = "created" /\ x.replay = item.replay /\ x.cancelling = FALSE
      /\ item.replay \in BOOLEAN
  BY DEF Exec, NoExec, ExecPcs, Suspended, Item
<1>6. exec' = [exec EXCEPT ![r] = x] /\ exec \in [Runs -> Exec]
  BY <1>1, <1>2 DEF TypeInv
<1> HIDE DEF x
<1>7. exec' \in [Runs -> Exec] /\ exec'[r] = x /\ \A q \in Runs \ {r} : exec'[q] = exec[q]
  BY <1>5, <1>6
<1>8. /\ agentRuns' \in [Runs -> Nat]
      /\ \A q \in Runs \ {r} : agentRuns'[q] = agentRuns[q]
      /\ agentRuns'[r] = agentRuns[r] + (IF item.replay THEN 0 ELSE 1)
  BY <1>1, <1>2, <1>5 DEF TypeInv
<1>9. /\ worker' \in [pc : {"none", "idle", "busy", "returned", "dead"},
                      run : Runs \cup {None}, cancelling : BOOLEAN]
      /\ worker'.pc = "busy" /\ worker'.run = r
  BY <1>1, <1>2 DEF TypeInv
<1>10. TypeInv'
  BY <1>1, <1>3, <1>7, <1>8, <1>9 DEF TypeInv, stores, requests
<1>11. \A q \in Runs \ {r} : SameRun(q)
  BY <1>7, <1>8 DEF SameRun, stores
<1>12. agentRuns[r] <= 1 /\ agentRuns[r] \in Nat /\ (~item.replay => agentRuns'[r] = 1)
       /\ (item.replay => agentRuns'[r] = agentRuns[r])
  BY <1>1, <1>4, <1>8 DEF TypeInv, RunInv
<1>13. ~item.replay => Numbered(r)'
  BY <1>4 DEF Numbered, Ended, stores
<1>14. ExecInv(r)'
  BY <1>4, <1>5, <1>7, <1>12, <1>13 DEF ExecInv, Going
<1>15. durable[r] # "absent"
  BY <1>4
<1>16. RunInv(r)'
  BY <1>4, <1>12, <1>14, <1>15 DEF RunInv, Over, stores
<1>17. QuietRun(r) => QuietRun(r)'
  BY <1>4, <1>5, <1>7 DEF QuietRun, stores
<1>18. \A q \in Runs : RunInv(q)'
  BY <1>1, <1>11, <1>16, SameRunKeeps
<1>19. SubmitsInv'
  <2>1. \A s \in Submitters : Fresh(s) => submits[s].run \in Runs \ {r}
    BY <1>1, <1>4 DEF SubmitsInv, Fresh
  <2>2. \A s \in Submitters : (Fresh(s)' <=> Fresh(s)) /\ submits'[s] = submits[s]
    BY DEF Fresh, requests
  <2>3. \A s \in Submitters : Fresh(s) => Untouched(submits[s].run)'
    <3> SUFFICES ASSUME NEW s \in Submitters, Fresh(s) PROVE Untouched(submits[s].run)'
      OBVIOUS
    <3>1. SameRun(submits[s].run) /\ Untouched(submits[s].run)
      BY <1>1, <1>11, <2>1 DEF SubmitsInv
    <3>2. submits'[s] = submits[s]
      BY <2>2
    <3>3. QED
      BY <3>1, <3>2 DEF SameRun, Untouched
  <2>4. QED
    BY <1>1, <2>1, <2>2, <2>3 DEF SubmitsInv
<1>20. QueueInv'
  <2>1. ASSUME NEW y \in Item, ItemInv(y), y.run # r
        PROVE  ItemInv(y)'
    <3>1. SameRun(y.run)
      BY <1>11, <2>1 DEF Item
    <3>2. QED
      BY <2>1, <3>1, <1>9 DEF ItemInv, SameRun, Untouched
  <2>2. QED
    BY <1>3, <2>1
<1>21. WorkerInv'
  <2>1. \A q \in Runs \ {r} : exec'[q] = exec[q] /\ exec[q].pc \notin Suspended
    BY <1>1, <1>7 DEF WorkerInv
  <2>2. up # "closed" /\ exec'[r].pc = "created" /\ ~exec'[r].cancelling
    BY <1>1, <1>5, <1>7 DEF WorkerInv
  <2>3. \A q \in Runs : up' = "serving" /\ channel'[q].open /\ ~channel'[q].cancelRequested
           => Queued(q)' \/ exec'[q].pc # "none"
    BY <1>1, <1>3, <2>1, <2>2 DEF WorkerInv
  <2>4. QED
    BY <1>1, <1>9, <2>1, <2>2, <2>3 DEF WorkerInv, Suspended
<1>22. CancelsInv' /\ AttachesInv' /\ CloserInv'
  BY <1>1, <1>4, <1>7, HeldKeeps DEF CancelsInv, requests
<1>23. QuietInv'
  <2> SUFFICES ASSUME budget'.db = DbFaults PROVE QuietInv'
    BY DEF QuietInv
  <2>1. QuietInv!2
    BY <1>1 DEF QuietInv
  <2>2. \A q \in Runs : QuietRun(q)'
    BY <1>11, <1>17, <2>1, SameRunKeeps
  <2>3. \A q \in Runs : Cancelling(q)' <=> Cancelling(q)
    BY DEF Cancelling, requests
  <2>4. \A q \in Runs : Accounted(q)'
    <3>1. exec'[r].pc \in Suspended
      BY <1>5, <1>7 DEF Suspended
    <3>2. QED
      BY <1>3, <1>7, <2>1, <2>3, <3>1 DEF Accounted
  <2>5. (\A c \in Cancellers : CancelQuiet(c)') /\ (\A a \in Attachers : AttachQuiet(a)')
        /\ CloserQuiet'
    BY <1>1, <1>4, <1>7, <2>1, HeldKeeps DEF requests
  <2>6. QED
    BY <1>9, <2>1, <2>2, <2>3, <2>4, <2>5 DEF QuietInv
<1>24. QED
  BY <1>10, <1>18, <1>19, <1>20, <1>21, <1>22, <1>23 DEF ManagerInv, SafeInv

\* The worker takes an item it does not run: the sentinel, or a run that was
\* cancelled while it was queued.
LEMMA WorkerSkipsStep ==
  ASSUME ManagerInv, worker.pc = "idle", queue # <<>>, queue' = Tail(queue),
         \/ Head(queue) = Stop /\ worker' = [worker EXCEPT !.pc = "returned"]
         \/ /\ Head(queue) # Stop /\ channel[Head(queue).run].cancelRequested
            /\ worker' = worker,
         UNCHANGED <<durable, stores, up, channel, exec, requests, closer, budget, agentRuns>>
  PROVE  ManagerInv'
<1>1. /\ TypeInv /\ (\A q \in Runs : RunInv(q)) /\ SubmitsInv /\ WorkerInv
      /\ CancelsInv /\ QuietInv /\ SafeInv
  BY DEF ManagerInv, SafeInv
<1>2. /\ queue' \in Seq(Item \cup {Stop})
      /\ \A q : Queued(q) => Queued(q)' \/ channel[q].cancelRequested
      /\ (\A x \in Item : ItemInv(x) => ItemInv(x)') => QueueInv'
  BY <1>1, TakeEffect
<1>3. /\ worker' \in [pc : {"none", "idle", "busy", "returned", "dead"},
                      run : Runs \cup {None}, cancelling : BOOLEAN]
      /\ worker'.pc \in {"idle", "returned"}
  BY <1>1 DEF TypeInv
<1>4. TypeInv'
  BY <1>1, <1>2, <1>3 DEF TypeInv, stores, requests
<1>5. \A q \in Runs : SameRun(q)
  BY DEF SameRun, stores
<1>6. \A q \in Runs : RunInv(q)'
  BY <1>1, <1>5, SameRunKeeps
<1>7. SubmitsInv'
  BY <1>1 DEF SubmitsInv, Fresh, Untouched, stores, requests
<1>8. QueueInv'
  BY <1>2, <1>3 DEF ItemInv, Untouched, stores
<1>9. WorkerInv'
  <2>1. \A q \in Runs : exec[q].pc \notin Suspended
    BY <1>1 DEF WorkerInv
  <2>2. up # "closed"
    BY <1>1 DEF WorkerInv
  <2>3. \A q \in Runs : up' = "serving" /\ channel'[q].open /\ ~channel'[q].cancelRequested
           => Queued(q)' \/ exec'[q].pc # "none"
    BY <1>1, <1>2 DEF WorkerInv
  <2>4. QED
    BY <1>1, <1>3, <2>1, <2>2, <2>3 DEF WorkerInv
<1>10. CancelsInv' /\ AttachesInv' /\ CloserInv'
  BY <1>1, HeldKeeps DEF CancelsInv, requests
<1>11. QuietInv'
  <2> SUFFICES ASSUME budget'.db = DbFaults PROVE QuietInv'
    BY DEF QuietInv
  <2>1. QuietInv!2
    BY <1>1 DEF QuietInv
  <2>2. \A q \in Runs : QuietRun(q)'
    BY <1>5, <2>1, SameRunKeeps
  <2>3. \A q \in Runs : Cancelling(q)' <=> Cancelling(q)
    BY DEF Cancelling, requests
  <2>4. \A q \in Runs : Accounted(q)'
    BY <1>2, <2>1, <2>3 DEF Accounted
  <2>5. (\A c \in Cancellers : CancelQuiet(c)') /\ (\A a \in Attachers : AttachQuiet(a)')
        /\ CloserQuiet'
    BY <1>1, <2>1, HeldKeeps DEF requests
  <2>6. QED
    BY <1>3, <2>1, <2>2, <2>3, <2>4, <2>5 DEF QuietInv
<1>12. QED
  BY <1>4, <1>6, <1>7, <1>8, <1>9, <1>10, <1>11 DEF ManagerInv, SafeInv

\* _work takes the next item.
LEMMA WorkerTakesStep ==
  ASSUME ManagerInv, WorkerTakes
  PROVE  ManagerInv'
<1>1. worker.pc = "idle" /\ queue # <<>> /\ queue' = Tail(queue) /\ SafeInv
  BY DEF WorkerTakes, ManagerInv
<1>2. CASE Head(queue) = Stop
  BY <1>1, <1>2, WorkerSkipsStep DEF WorkerTakes
<1>3. CASE Head(queue) # Stop /\ channel[Head(queue).run].cancelRequested
  BY <1>1, <1>3, WorkerSkipsStep DEF WorkerTakes
<1>4. CASE Head(queue) # Stop /\ ~channel[Head(queue).run].cancelRequested
  <2>1. PICK item \in Item : item = Head(queue)
    BY <1>1, <1>4, TakeEffect
  <2>2. QED
    BY <1>1, <1>4, <2>1, WorkerStartsStep DEF WorkerTakes
<1>5. QED
  BY <1>2, <1>3, <1>4

-----------------------------------------------------------------------------
\* A step that leaves every run, every request and the queue's runs as they are, and
\* moves the worker or close() along.
LEMMA ProcessFrame ==
  ASSUME ManagerInv, \A q \in Runs : SameRun(q), UNCHANGED <<requests, closer>>,
         TypeInv', QueueInv', WorkerInv', \A q \in Runs : Queued(q) => Queued(q)',
         worker.pc = "returned" => worker'.pc = "returned", budget'.db <= budget.db,
         budget'.db = DbFaults =>
            /\ worker'.pc # "dead"
            /\ up = "closed" => up' = "closed"
            /\ up = "interrupting" =>
                 \/ up' = "interrupting"
                 \/ up' = "closed" /\ closer.pc # "none"
                 \/ \A q \in Runs : channel[q].open => durable[q] # "in_progress"
  PROVE  ManagerInv'
<1>1. /\ TypeInv /\ (\A q \in Runs : RunInv(q)) /\ SubmitsInv /\ CancelsInv /\ QuietInv /\ SafeInv
  BY DEF ManagerInv, SafeInv
<1>2. \A q \in Runs : RunInv(q)'
  BY <1>1, SameRunKeeps
<1>3. SubmitsInv'
  <2>1. \A s \in Submitters : (Fresh(s)' <=> Fresh(s)) /\ submits'[s] = submits[s]
    BY DEF Fresh, requests
  <2>2. \A q \in Runs : Untouched(q) => Untouched(q)'
    BY DEF Untouched, SameRun
  <2>3. \A s \in Submitters : Fresh(s) => submits[s].run \in Runs
    BY <1>1 DEF SubmitsInv, Fresh
  <2>4. \A s \in Submitters : Fresh(s) => Untouched(submits[s].run)'
    BY <1>1, <2>1, <2>2, <2>3 DEF SubmitsInv
  <2>5. QED
    BY <1>1, <2>1, <2>3, <2>4 DEF SubmitsInv, SameRun
<1>4. /\ \A q \in Runs : /\ Over(q) => durable'[q] = durable[q]
                         /\ channel'[q] = channel[q] /\ exec'[q] = exec[q]
  BY DEF SameRun
<1>5. CancelsInv' /\ AttachesInv' /\ CloserInv'
  BY <1>1, <1>4, HeldKeeps DEF CancelsInv, requests
<1>6. QuietInv'
  <2> SUFFICES ASSUME budget'.db = DbFaults PROVE QuietInv'
    BY DEF QuietInv
  <2>1. budget.db = DbFaults
    BY <1>1 DEF TypeInv
  <2>2. QuietInv!2
    BY <1>1, <2>1 DEF QuietInv
  <2>3. \A q \in Runs : QuietRun(q)'
    BY <2>2, SameRunKeeps
  <2>4. \A q \in Runs : (Cancelling(q)' <=> Cancelling(q)) /\ durable'[q] = durable[q]
    BY DEF Cancelling, requests, SameRun
  <2>5. \A q \in Runs : Accounted(q)'
    BY <1>4, <2>2, <2>4 DEF Accounted
  <2>6. (\A c \in Cancellers : CancelQuiet(c)') /\ (\A a \in Attachers : AttachQuiet(a)')
        /\ CloserQuiet'
    BY <1>1, <1>4, <2>2, HeldKeeps DEF requests
  <2>7. QED
    BY <1>4, <2>2, <2>3, <2>4, <2>5, <2>6 DEF QuietInv
<1>7. QED
  BY <1>2, <1>3, <1>5, <1>6 DEF ManagerInv, SafeInv

\* The worker's task ended.
LEMMA WorkerJoinsStep ==
  ASSUME ManagerInv, WorkerJoins
  PROVE  ManagerInv'
<1>1. /\ TypeInv /\ WorkerInv /\ QueueInv
      /\ budget.db = DbFaults => \A q \in Runs : QuietRun(q)
  BY DEF ManagerInv, SafeInv, QuietInv
<1>2. /\ worker.pc = "busy" /\ worker.run \in Runs /\ exec[worker.run].pc \in Finished
      /\ UNCHANGED <<durable, stores, up, channel, exec, queue, requests,
                     closer, budget, agentRuns>>
  BY <1>1 DEF WorkerJoins, WorkerInv
<1>3. PICK pc \in {"returned", "dead", "idle"} :
         /\ worker' = [NoWorker EXCEPT !.pc = pc]
         /\ pc = "dead" => exec[worker.run].pc = "raised"
  BY DEF WorkerJoins
<1>4. /\ worker' \in [pc : {"none", "idle", "busy", "returned", "dead"},
                      run : Runs \cup {None}, cancelling : BOOLEAN]
      /\ worker'.pc = pc
  BY <1>3 DEF NoWorker
<1>5. TypeInv'
  BY <1>1, <1>2, <1>4 DEF TypeInv, stores, requests
<1>6. \A q \in Runs : SameRun(q)
  BY <1>2 DEF SameRun, stores
<1>7. QueueInv'
  BY <1>1, <1>2 DEF QueueInv, ItemInv, Untouched, stores
<1>8. WorkerInv'
  <2>1. \A q \in Runs : exec[q].pc \notin Suspended
    BY <1>1, <1>2 DEF WorkerInv, Suspended, Finished
  <2>2. up # "closed"
    BY <1>1, <1>2 DEF WorkerInv
  <2>3. QED
    BY <1>1, <1>2, <1>4, <2>1, <2>2 DEF WorkerInv, Queued
<1>9. budget'.db <= budget.db /\ \A q \in Runs : Queued(q) => Queued(q)'
  BY <1>1, <1>2 DEF TypeInv, Queued
<1>10. budget'.db = DbFaults => worker'.pc # "dead"
  BY <1>1, <1>2, <1>3, <1>4 DEF QuietRun
<1>11. up' = up
  BY <1>2
<1>12. QED
  BY <1>2, <1>5, <1>6, <1>7, <1>8, <1>9, <1>10, <1>11, ProcessFrame

\* close() puts the sentinel behind the accepted runs.
LEMMA CloseBeginsStep ==
  ASSUME ManagerInv, CloseBegins
  PROVE  ManagerInv'
<1>1. /\ TypeInv /\ WorkerInv /\ QueueInv
      /\ budget.db = DbFaults => worker.pc # "dead"
  BY DEF ManagerInv, SafeInv, QuietInv
<1>2. /\ up = "serving" /\ up' = "closing" /\ queue' = Append(queue, Stop)
      /\ budget.restarts > 0 /\ budget' = [budget EXCEPT !.restarts = @ - 1]
      /\ queue \in Seq(Item \cup {Stop})
      /\ budget \in [restarts : Nat, db : 0..DbFaults, redis : Nat]
      /\ UNCHANGED <<durable, stores, channel, exec, worker, requests, closer, agentRuns>>
  BY <1>1 DEF CloseBegins, TypeInv
<1>3. PICK n \in Nat : n = budget.restarts - 1
  BY <1>2
<1>4. /\ budget' \in [restarts : Nat, db : 0..DbFaults, redis : Nat]
      /\ budget'.db = budget.db /\ budget'.db <= budget.db
  <2>1. budget' = [budget EXCEPT !.restarts = n]
    BY <1>2, <1>3
  <2>2. budget.db <= budget.db
    BY <1>2
  <2>3. QED
    BY <1>2, <1>3, <2>1, <2>2
<1>5. /\ queue' \in Seq(Item \cup {Stop}) /\ Len(queue') = Len(queue) + 1
      /\ \A i \in 1..Len(queue) : queue'[i] = queue[i]
      /\ queue'[Len(queue) + 1] = Stop /\ Len(queue) \in Nat
  BY <1>2
<1>6. TypeInv'
  BY <1>1, <1>2, <1>4, <1>5 DEF TypeInv, stores, requests
<1>7. \A q \in Runs : SameRun(q)
  BY <1>2 DEF SameRun, stores
<1>8. QueueInv'
  <2>1. \A i \in 1..Len(queue') : queue'[i] # Stop => i \in 1..Len(queue)
    BY <1>5
  <2>2. \A i \in 1..Len(queue) : queue[i] # Stop => ItemInv(queue[i])
    BY <1>1 DEF QueueInv
  <2>3. \A x : ItemInv(x) => ItemInv(x)'
    BY <1>2 DEF ItemInv, Untouched, stores
  <2>4. ASSUME NEW i \in 1..Len(queue'), queue'[i] # Stop
        PROVE  ItemInv(queue[i])'
    <3>1. PICK x : x = queue[i] /\ x = queue'[i]
      BY <1>5, <2>1, <2>4
    <3>2. ItemInv(x)'
      BY <2>1, <2>2, <2>3, <2>4, <3>1
    <3>3. QED
      BY <3>1, <3>2
  <2>5. ASSUME NEW i \in 1..Len(queue'), NEW j \in 1..Len(queue'),
               queue'[i] # Stop, queue'[j] # Stop, queue'[i].run = queue'[j].run
        PROVE  i = j
    BY <1>1, <1>5, <2>1, <2>5 DEF QueueInv
  <2>6. QED
    BY <2>4, <2>5 DEF QueueInv
<1>9. \A q \in Runs : Queued(q) => Queued(q)'
  <2> SUFFICES ASSUME NEW q \in Runs, Queued(q) PROVE Queued(q)'
    OBVIOUS
  <2>1. DOMAIN queue = 1..Len(queue) /\ DOMAIN queue' = 1..Len(queue')
    BY <1>2, <1>5
  <2>2. PICK i \in 1..Len(queue) : queue[i] # Stop /\ queue[i].run = q
    BY <2>1 DEF Queued
  <2>3. i \in DOMAIN queue' /\ queue'[i] = queue[i]
    BY <1>5, <2>1
  <2>4. QED
    BY <2>2, <2>3 DEF Queued
<1>10. WorkerInv'
  BY <1>1, <1>2 DEF WorkerInv
<1>11. QED
  BY <1>1, <1>2, <1>4, <1>6, <1>7, <1>8, <1>9, <1>10, ProcessFrame

\* close() goes on when the worker has returned or died.
LEMMA CloseJoinsStep ==
  ASSUME ManagerInv, CloseJoins
  PROVE  ManagerInv'
<1>1. /\ TypeInv /\ WorkerInv /\ QueueInv
      /\ budget.db = DbFaults => worker.pc # "dead"
  BY DEF ManagerInv, SafeInv, QuietInv
<1>2. /\ up = "closing" /\ worker.pc \in {"returned", "dead"} /\ up' = "closed"
      /\ UNCHANGED <<durable, stores, channel, exec, queue, worker, requests,
                     closer, budget, agentRuns>>
  BY DEF CloseJoins
<1>3. TypeInv'
  BY <1>1, <1>2 DEF TypeInv, stores, requests
<1>4. \A q \in Runs : SameRun(q)
  BY <1>2 DEF SameRun, stores
<1>5. QueueInv' /\ WorkerInv'
  BY <1>1, <1>2 DEF QueueInv, ItemInv, Untouched, WorkerInv, stores
<1>6. budget'.db <= budget.db /\ \A q \in Runs : Queued(q) => Queued(q)'
  BY <1>1, <1>2 DEF TypeInv, Queued
<1>7. QED
  BY <1>1, <1>2, <1>3, <1>4, <1>5, <1>6, ProcessFrame

\* _interrupt_open_channels is through with the channels, or the dict has grown.
LEMMA InterruptEndsStep ==
  ASSUME ManagerInv, InterruptEnds \/ InterruptBreaks
  PROVE  ManagerInv'
<1>1. /\ TypeInv /\ WorkerInv /\ QueueInv /\ CloserInv /\ \A q \in Runs : RunInv(q)
      /\ budget.db = DbFaults => worker.pc # "dead"
  BY DEF ManagerInv, SafeInv, QuietInv
<1>2. /\ up = "interrupting" /\ worker.pc = "returned" /\ up' = "closed"
      /\ UNCHANGED <<durable, stores, channel, exec, queue, worker, requests, closer,
                     budget, agentRuns>>
  BY DEF InterruptEnds, InterruptBreaks, Resumes
<1>3. \/ closer.pc # "none"
      \/ \A q \in Runs : channel[q].open => durable[q] # "in_progress"
  <2>1. CASE InterruptBreaks
    BY <2>1 DEF InterruptBreaks, Grown
  <2>2. CASE InterruptEnds /\ closer.pc = "none"
    <3>1. \A q \in Runs : channel[q].open => q \in closer.visited \/ channel[q].terminal
      BY <2>2 DEF InterruptEnds, Owned
    <3>2. \A q \in closer.visited : Over(q)
      BY <1>1, <2>2 DEF CloserInv
    <3>3. QED
      BY <1>1, <3>1, <3>2 DEF RunInv, Over, TerminalStatus
  <2>3. QED
    BY <2>1, <2>2
<1>4. TypeInv'
  BY <1>1, <1>2 DEF TypeInv, stores, requests
<1>5. \A q \in Runs : SameRun(q)
  BY <1>2 DEF SameRun, stores
<1>6. QueueInv' /\ WorkerInv'
  BY <1>1, <1>2 DEF QueueInv, ItemInv, Untouched, WorkerInv, stores
<1>7. budget'.db <= budget.db /\ \A q \in Runs : Queued(q) => Queued(q)'
  BY <1>1, <1>2 DEF TypeInv, Queued
<1>8. QED
  BY <1>1, <1>2, <1>3, <1>4, <1>5, <1>6, <1>7, ProcessFrame

-----------------------------------------------------------------------------
\* A step that asks tasks to stop, and changes nothing about their runs.
LEMMA FlagFrame ==
  ASSUME ManagerInv, UNCHANGED <<durable, stores, queue, submits, attaches, closer, budget, agentRuns>>,
         \A q \in Runs : /\ exec'[q].pc = exec[q].pc /\ exec'[q].replay = exec[q].replay
                         /\ exec'[q].then = exec[q].then /\ exec'[q].event = exec[q].event
                         /\ channel'[q].open = channel[q].open
                         /\ channel'[q].terminal = channel[q].terminal
                         /\ channel'[q].events = channel[q].events
                         /\ channel'[q] = channel[q] \/ channel[q].open
                         /\ channel[q].cancelRequested => channel'[q].cancelRequested,
         worker'.pc = worker.pc, TypeInv', WorkerInv',
         \A c \in Cancellers : \/ cancels'[c] = cancels[c]
                               \/ cancels[c].pc = "idle" /\ CancelInv(c)' /\ CancelQuiet(c)',
         \A q \in Runs : channel'[q].cancelRequested => channel[q].cancelRequested \/ Cancelling(q)',
         up' \in {up, "interrupting"}
  PROVE  ManagerInv'
<1>1. /\ TypeInv /\ (\A q \in Runs : RunInv(q)) /\ SubmitsInv /\ QueueInv
      /\ CancelsInv /\ QuietInv /\ SafeInv
  BY DEF ManagerInv, SafeInv
<1>2. ASSUME NEW q \in Runs PROVE RunInv(q)' /\ (QuietRun(q) => QuietRun(q)')
  <2>1. RunInv(q) /\ ExecInv(q)
    BY <1>1 DEF RunInv
  <2>2. Going(q)' <=> Going(q)
    BY DEF Going
  <2>3. ExecInv(q)'
    BY <2>1, <2>2 DEF ExecInv, Over, Numbered, stores
  <2>4. RunInv(q)'
    BY <2>1, <2>3 DEF RunInv, Over, stores
  <2>5. QuietRun(q) => QuietRun(q)'
    BY DEF QuietRun, stores
  <2>6. QED
    BY <2>4, <2>5
<1>3. \A q \in Runs : Untouched(q) => Untouched(q)'
  BY DEF Untouched, stores
<1>4. SubmitsInv'
  <2>1. \A s \in Submitters : Fresh(s)' <=> Fresh(s)
    BY DEF Fresh
  <2>2. \A s \in Submitters : Fresh(s) => submits[s].run \in Runs
    BY <1>1 DEF SubmitsInv, Fresh
  <2>3. \A s \in Submitters : Fresh(s) => Untouched(submits[s].run)'
    BY <1>1, <1>3, <2>2 DEF SubmitsInv
  <2>4. QED
    BY <1>1, <2>1, <2>2, <2>3 DEF SubmitsInv
<1>5. QueueInv'
  <2>1. ASSUME NEW x \in Item, ItemInv(x) PROVE ItemInv(x)'
    <3>1. x.run \in Runs
      BY DEF Item
    <3>2. QED
      BY <1>3, <2>1, <3>1 DEF ItemInv
  <2>2. \A i \in 1..Len(queue) : queue[i] # Stop => queue[i] \in Item
    BY <1>1 DEF TypeInv
  <2>3. QED
    BY <1>1, <2>1, <2>2 DEF QueueInv
<1>6. /\ \A c \in Cancellers : /\ CancelInv(c)'
                               /\ CancelQuiet(c) => CancelQuiet(c)'
      /\ AttachesInv' /\ CloserInv'
      /\ (\A a \in Attachers : AttachQuiet(a)) => \A a \in Attachers : AttachQuiet(a)'
      /\ CloserQuiet => CloserQuiet'
  BY <1>1, HeldKeeps
<1>7. QuietInv'
  <2> SUFFICES ASSUME budget'.db = DbFaults PROVE QuietInv'
    BY DEF QuietInv
  <2>1. QuietInv!2
    BY <1>1 DEF QuietInv
  <2>2. \A q \in Runs : Cancelling(q) => Cancelling(q)'
    <3> SUFFICES ASSUME NEW q \in Runs, Cancelling(q) PROVE Cancelling(q)'
      OBVIOUS
    <3>1. PICK c \in Cancellers : cancels[c].run = q
      BY DEF Cancelling
    <3>2. cancels[c].pc # "idle"
      BY <1>1, <3>1, ManagerAssumption DEF CancelsInv, CancelInv
    <3>3. cancels'[c].run = q
      BY <3>1, <3>2
    <3>4. QED
      BY <3>3 DEF Cancelling
  <2>3. \A q \in Runs : Queued(q)' <=> Queued(q)
    BY DEF Queued
  <2>4. \A q \in Runs : Accounted(q)'
    BY <2>1, <2>2, <2>3 DEF Accounted
  <2>5. QED
    BY <1>2, <1>6, <2>1, <2>2, <2>4 DEF QuietInv
<1>8. QED
  BY <1>2, <1>4, <1>5, <1>6, <1>7 DEF ManagerInv, SafeInv, CancelsInv

\* cancel() flags the run and interrupts its task.
LEMMA CancelRequestStep ==
  ASSUME ManagerInv, NEW c \in Cancellers, NEW r \in Runs, CancelRequest(c, r)
  PROVE  ManagerInv'
<1>1. TypeInv /\ WorkerInv /\ CancelsInv
  BY DEF ManagerInv, SafeInv
<1>2. PICK active \in BOOLEAN : active = (exec[r].pc \notin {"none"} \cup Finished)
  OBVIOUS
<1>3. /\ up # "down" /\ cancels[c].pc = "idle" /\ channel[r].open
      /\ channel \in [Runs -> Channel] /\ exec \in [Runs -> Exec]
      /\ cancels \in [Cancellers -> Request]
      /\ UNCHANGED <<durable, stores, up, queue, worker, submits, attaches,
                     closer, budget, agentRuns>>
  BY <1>1 DEF CancelRequest, TypeInv
<1>4. /\ channel' \in [Runs -> Channel] /\ channel'[r].cancelRequested
      /\ channel'[r].open /\ channel'[r].terminal = channel[r].terminal
      /\ channel'[r].events = channel[r].events
      /\ \A q \in Runs \ {r} : channel'[q] = channel[q]
  <2>1. channel' = [channel EXCEPT ![r] = [channel[r] EXCEPT !.cancelRequested = TRUE]]
    BY <1>3 DEF CancelRequest
  <2>2. QED
    BY <1>3, <2>1 DEF Channel
<1>5. PICK b \in BOOLEAN : b = (exec[r].cancelling \/ active)
  OBVIOUS
<1> DEFINE x == [exec[r] EXCEPT !.cancelling = b]
<1>6. exec' = [exec EXCEPT ![r] = x]
  BY <1>2, <1>3, <1>5 DEF CancelRequest
<1>7. /\ x \in Exec /\ x.pc = exec[r].pc /\ x.replay = exec[r].replay
      /\ x.then = exec[r].then /\ x.event = exec[r].event
  BY <1>3 DEF Exec
<1> HIDE DEF x
<1>8. exec' \in [Runs -> Exec] /\ exec'[r] = x /\ \A q \in Runs \ {r} : exec'[q] = exec[q]
  BY <1>3, <1>6, <1>7
<1> DEFINE y == [NoRequest EXCEPT !.run = r, !.pc = IF active THEN "awaiting" ELSE "persisting"]
<1>9. cancels' = [cancels EXCEPT ![c] = y]
  BY <1>2 DEF CancelRequest
<1>10. /\ y \in Request /\ y.run = r
       /\ y.pc = IF active THEN "awaiting" ELSE "persisting"
  BY DEF NoRequest, Request
<1> HIDE DEF y
<1>11. /\ cancels' \in [Cancellers -> Request] /\ cancels'[c] = y
       /\ \A d \in Cancellers \ {c} : cancels'[d] = cancels[d]
  BY <1>3, <1>9, <1>10
<1>12. TypeInv'
  BY <1>1, <1>3, <1>4, <1>8, <1>11 DEF TypeInv, stores
<1>13. ASSUME NEW q \in Runs
       PROVE  /\ exec'[q].pc = exec[q].pc /\ exec'[q].replay = exec[q].replay
              /\ exec'[q].then = exec[q].then /\ exec'[q].event = exec[q].event
              /\ channel'[q].open = channel[q].open
              /\ channel'[q].terminal = channel[q].terminal
              /\ channel'[q].events = channel[q].events
              /\ channel'[q] = channel[q] \/ channel[q].open
              /\ channel[q].cancelRequested => channel'[q].cancelRequested
  <2>1. CASE q = r
    <3>1. channel[r].open \in BOOLEAN /\ channel'[r].open \in BOOLEAN
      BY <1>3, <1>4 DEF Channel
    <3>2. channel'[r].open = channel[r].open
      BY <1>3, <1>4, <3>1
    <3>3. QED
      BY <1>3, <1>4, <1>7, <1>8, <2>1, <3>2
  <2>2. CASE q # r
    BY <1>4, <1>8, <2>2
  <2>3. QED
    BY <2>1, <2>2
<1>14. WorkerInv'
  <2>1. \A q \in Runs : Queued(q)' <=> Queued(q)
    BY <1>3 DEF Queued
  <2>2. \A q \in Runs : exec'[q].pc = "cancelled" \/ exec'[q].cancelling =>
           channel'[q].cancelRequested \/ up' \in {"interrupting", "closed"}
    BY <1>1, <1>3, <1>4, <1>8 DEF WorkerInv
  <2>3. \A q \in Runs : up' = "serving" /\ channel'[q].open /\ ~channel'[q].cancelRequested
           => Queued(q)' \/ exec'[q].pc # "none"
    BY <1>1, <1>3, <1>13, <2>1 DEF WorkerInv
  <2>4. QED
    BY <1>1, <1>3, <1>13, <2>2, <2>3 DEF WorkerInv
<1>15. CancelInv(c)' /\ CancelQuiet(c)'
  <2>1. exec'[r].pc \in Suspended => active
    BY <1>2, <1>13 DEF Suspended, Finished
  <2>2. QED
    BY <1>4, <1>10, <1>11, <2>1 DEF CancelInv, CancelQuiet
<1>16. Cancelling(r)'
  BY <1>10, <1>11 DEF Cancelling
<1>17. \A q \in Runs : channel'[q].cancelRequested => channel[q].cancelRequested \/ Cancelling(q)'
  BY <1>4, <1>16
<1>18. \A d \in Cancellers : \/ cancels'[d] = cancels[d]
                             \/ cancels[d].pc = "idle" /\ CancelInv(d)' /\ CancelQuiet(d)'
  BY <1>3, <1>11, <1>15
<1>19. up' = up /\ worker'.pc = worker.pc
  BY <1>3
<1>20. QED
  BY <1>3, <1>12, <1>13, <1>14, <1>17, <1>18, <1>19, FlagFrame

\* The grace period of close() is over: the worker and its task are cancelled.
LEMMA CloseTimesOutStep ==
  ASSUME ManagerInv, CloseTimesOut
  PROVE  ManagerInv'
<1>1. TypeInv /\ WorkerInv
  BY DEF ManagerInv, SafeInv
<1>2. PICK r \in Runs : r = worker.run
  BY <1>1 DEF CloseTimesOut, WorkerInv
<1>3. /\ up = "closing" /\ worker.pc = "busy" /\ up' = "interrupting"
      /\ worker' = [worker EXCEPT !.cancelling = TRUE]
      /\ exec \in [Runs -> Exec]
      /\ worker \in [pc : {"none", "idle", "busy", "returned", "dead"},
                     run : Runs \cup {None}, cancelling : BOOLEAN]
      /\ UNCHANGED <<durable, stores, channel, queue, requests, closer, budget, agentRuns>>
  BY <1>1 DEF CloseTimesOut, TypeInv
<1>4. PICK b \in BOOLEAN : b = (exec[r].cancelling \/ exec[r].pc \notin Finished)
  OBVIOUS
<1> DEFINE x == [exec[r] EXCEPT !.cancelling = b]
<1>5. exec' = [exec EXCEPT ![r] = x]
  BY <1>2, <1>3, <1>4 DEF CloseTimesOut
<1>6. /\ x \in Exec /\ x.pc = exec[r].pc /\ x.replay = exec[r].replay
      /\ x.then = exec[r].then /\ x.event = exec[r].event
  BY <1>3 DEF Exec
<1> HIDE DEF x
<1>7. exec' \in [Runs -> Exec] /\ exec'[r] = x /\ \A q \in Runs \ {r} : exec'[q] = exec[q]
  BY <1>3, <1>5, <1>6
<1>8. /\ worker' \in [pc : {"none", "idle", "busy", "returned", "dead"},
                      run : Runs \cup {None}, cancelling : BOOLEAN]
      /\ worker'.pc = worker.pc /\ worker'.run = worker.run
  BY <1>3
<1>9. TypeInv'
  BY <1>1, <1>3, <1>7, <1>8 DEF TypeInv, stores, requests
<1>10. \A q \in Runs : /\ exec'[q].pc = exec[q].pc /\ exec'[q].replay = exec[q].replay
                       /\ exec'[q].then = exec[q].then /\ exec'[q].event = exec[q].event
                       /\ channel'[q] = channel[q]
  BY <1>3, <1>6, <1>7
<1>11. WorkerInv'
  BY <1>1, <1>3, <1>8, <1>10 DEF WorkerInv
<1>12. UNCHANGED <<submits, cancels, attaches>>
  BY <1>3 DEF requests
<1>13. QED
  BY <1>3, <1>8, <1>9, <1>10, <1>11, <1>12, FlagFrame

-----------------------------------------------------------------------------
\* No run has been submitted and no process is up.
LEMMA InitEstablishes == Init => ManagerInv
<1> SUFFICES ASSUME Init PROVE ManagerInv
  OBVIOUS
<1>1. /\ durable = [r \in Runs |-> "absent"] /\ primary = [r \in Runs |-> <<>>]
      /\ local = [r \in Runs |-> <<>>] /\ degraded = {} /\ up = "down"
      /\ channel = [r \in Runs |-> NoChannel] /\ exec = [r \in Runs |-> NoExec]
      /\ queue = <<>> /\ worker = NoWorker
      /\ submits = [s \in Submitters |-> NoRequest]
      /\ cancels = [c \in Cancellers |-> NoRequest]
      /\ attaches = [a \in Attachers |-> NoRequest] /\ closer = NoCloser
      /\ budget = [restarts |-> MaxRestarts, db |-> DbFaults, redis |-> RedisFaults]
      /\ agentRuns = [r \in Runs |-> 0]
  BY DEF Init
<1>2. TypeInv
  <2>1. /\ durable \in [Runs -> Statuses] /\ agentRuns \in [Runs -> Nat]
    BY <1>1 DEF Statuses
  <2>2. budget \in [restarts : Nat, db : 0..DbFaults, redis : Nat]
    BY <1>1, ManagerAssumption
  <2>3. worker \in [pc : {"none", "idle", "busy", "returned", "dead"},
                    run : Runs \cup {None}, cancelling : BOOLEAN]
    BY <1>1 DEF NoWorker
  <2>4. QED
    BY <1>1, <2>1, <2>2, <2>3, EmptyRequests DEF TypeInv
<1>3. ASSUME NEW r \in Runs PROVE RunInv(r) /\ QuietRun(r) /\ Accounted(r)
  <2>1. /\ durable[r] = "absent" /\ primary[r] = <<>> /\ local[r] = <<>>
        /\ channel[r] = NoChannel /\ ~channel[r].open /\ ~channel[r].terminal
        /\ exec[r].pc = "none" /\ ~exec[r].replay /\ agentRuns[r] = 0
    BY <1>1 DEF NoChannel, NoExec
  <2>2. ExecInv(r)
    BY <2>1 DEF ExecInv, Going
  <2>3. RunInv(r)
    BY <2>1, <2>2 DEF RunInv, Ended
  <2>4. QED
    BY <2>1, <2>3 DEF QuietRun, Accounted
<1>4. SubmitsInv /\ QueueInv
  BY <1>1 DEF SubmitsInv, Fresh, QueueInv, NoRequest
<1>5. WorkerInv
  BY <1>1 DEF WorkerInv, NoWorker, NoExec, NoChannel, Suspended
<1>6. CancelsInv /\ AttachesInv /\ CloserInv
  BY <1>1 DEF CancelsInv, CancelInv, AttachesInv, AttachInv, CloserInv, NoRequest, NoCloser
<1>7. QuietInv
  <2>1. (\A c \in Cancellers : CancelQuiet(c)) /\ (\A a \in Attachers : AttachQuiet(a))
        /\ CloserQuiet /\ worker.pc # "dead"
    BY <1>1 DEF CancelQuiet, AttachQuiet, CloserQuiet, NoRequest, NoCloser, NoWorker
  <2>2. \A r \in Runs : ~channel[r].cancelRequested
    BY <1>1 DEF NoChannel
  <2>3. QED
    BY <1>3, <2>1, <2>2 DEF QuietInv
<1>8. QED
  BY <1>2, <1>3, <1>4, <1>5, <1>6, <1>7 DEF ManagerInv, SafeInv

\* Every step of the manager keeps the invariant.
LEMMA NextPreserves == ManagerInv /\ [Next]_vars => ManagerInv'
<1> SUFFICES ASSUME ManagerInv, [Next]_vars PROVE ManagerInv'
  OBVIOUS
<1>1. ASSUME NEW s \in Submitters,
             \/ \E r \in Runs : SubmitCheck(s, r)
             \/ SubmitAdmit(s) \/ SubmitRaises(s) \/ SubmitEnqueue(s)
      PROVE  ManagerInv'
  BY <1>1, SubmitCheckStep, SubmitAdmitStep, SubmitRaisesStep, SubmitEnqueueStep
<1>2. ASSUME NEW r \in Runs, Execute(r) \/ FinalizationRaises(r) \/ ReportRaises(r)
      PROVE  ManagerInv'
  BY <1>2, ExecPublishedStep, ExecEmitsStep, ReplayEndsStep, AgentEndsStep, ExecFinalizesStep,
     ExecErroredStep, ExecReportsStep, ExecCancelledStep, FinalizationRaisesStep,
     ReportRaisesStep DEF Execute
<1>3. ASSUME NEW c \in Cancellers,
             \/ \E r \in Runs : CancelRequest(c, r)
             \/ CancelJoins(c) \/ CancelPersists(c) \/ CancelRaises(c) \/ CancelPublished(c)
      PROVE  ManagerInv'
  BY <1>3, CancelRequestStep, CancelJoinsStep, CancelPersistsStep, CancelRaisesStep,
     CancelPublishedStep
<1>4. ASSUME NEW a \in Attachers, (\E r \in Runs : AttachCheck(a, r)) \/ AttachPublished(a)
      PROVE  ManagerInv'
  BY <1>4, AttachCheckStep, AttachPublishedStep
<1>5. CASE Start \/ Exit \/ Crash \/ WorkerTakes \/ WorkerJoins
  BY <1>5, StartStep, LeaveStep, WorkerTakesStep, WorkerJoinsStep
<1>6. CASE CloseBegins \/ CloseJoins \/ CloseTimesOut
  BY <1>6, CloseBeginsStep, CloseJoinsStep, CloseTimesOutStep
<1>7. CASE \/ \E r \in Runs : InterruptTakes(r)
           \/ InterruptFails \/ InterruptPublished \/ InterruptRaises
           \/ InterruptBreaks \/ InterruptEnds
  BY <1>7, InterruptTakesStep, InterruptFailsStep, InterruptPublishedStep,
     InterruptRaisesStep, InterruptEndsStep
<1>8. CASE UNCHANGED vars
  BY <1>8 DEF vars, stores, requests, ManagerInv, SafeInv, TypeInv, RunInv, ExecInv, Going,
     Numbered, Over, SubmitsInv, Fresh, Untouched, QueueInv, ItemInv, WorkerInv, Queued,
     CancelsInv, CancelInv, AttachesInv, AttachInv, CloserInv, Final, QuietInv, QuietRun,
     Accounted, Cancelling, CancelQuiet, AttachQuiet, CloserQuiet
<1>9. QED
  BY <1>1, <1>2, <1>3, <1>4, <1>5, <1>6, <1>7, <1>8 DEF Next

\* ManagerInv holds whatever fails and however requests, worker and shutdown race.
THEOREM ManagerInvariant == Spec => []ManagerInv
  BY InitEstablishes, NextPreserves, PTL DEF Spec

-----------------------------------------------------------------------------
\* The tables, streams, tasks and requests are in one of their declared states.
THEOREM ManagerIsTyped == Spec => []ManagerTypeOK
<1>1. ManagerInv => ManagerTypeOK
  <2> SUFFICES ASSUME TypeInv PROVE ManagerTypeOK
    BY DEF ManagerInv, SafeInv
  <2>1. \A r \in Runs : primary[r] \in Seq(Event) /\ local[r] \in Seq(Event)
    BY DEF TypeInv
  <2>2. \A r \in Runs : Range(primary[r]) \cup Range(local[r]) \subseteq Event
    BY <2>1 DEF Range
  <2>3. Range(queue) \subseteq [run : Runs, replay : BOOLEAN] \cup {Stop}
    BY DEF Range, TypeInv, Item
  <2>4. \A r \in Runs : exec[r].pc \in ExecPcs
    BY DEF TypeInv, Exec
  <2>5. QED
    BY <2>2, <2>3, <2>4 DEF TypeInv, ManagerTypeOK, Statuses
<1>2. QED
  BY <1>1, ManagerInvariant, PTL

\* However often a run is resubmitted, cancelled or left behind by a crash, its agent
\* graph is started at most once.
THEOREM AgentStartsOnce == Spec => []AgentRunsOnce
<1>1. ManagerInv => AgentRunsOnce
  BY DEF ManagerInv, SafeInv, RunInv, AgentRunsOnce
<1>2. QED
  BY <1>1, ManagerInvariant, PTL

\* The events of a run are numbered without a gap, and its run_end follows the commit
\* it announces, even when repository calls raise.
THEOREM EventsKeepOrder == Spec => []EventsAreOrdered
<1>1. ManagerInv => EventsAreOrdered
  <2> SUFFICES ASSUME ManagerInv PROVE EventsAreOrdered
    OBVIOUS
  <2>1. TypeInv /\ \A r \in Runs : RunInv(r) /\ ExecInv(r)
    BY DEF ManagerInv, SafeInv, RunInv
  <2>2. RunEndFollowsCommit
    BY <2>1 DEF RunInv, RunEndFollowsCommit, Over
  <2>3. EventIdsAreContiguous
    <3>1. \A r \in Runs : DOMAIN local[r] = 1..Len(local[r])
      BY <2>1 DEF TypeInv
    <3>2. QED
      BY <2>1, <3>1 DEF ExecInv, Numbered, EventIdsAreContiguous
  <2>4. QED
    BY <2>2, <2>3 DEF EventsAreOrdered
<1>2. QED
  BY <1>1, ManagerInvariant, PTL

\* While no repository call has raised, every run_end that can be read is the status
\* PostgreSQL holds, and a run that is over without having been cancelled is announced.
THEOREM AnnouncementsStayRight == Spec => []AnnouncementsAreRight
<1>1. ManagerInv => AnnouncementsAreRight
  <2> SUFFICES ASSUME ManagerInv, budget.db = DbFaults
               PROVE  RunEndIsAuthoritative /\ UncancelledRunsAreAnnounced
    BY DEF AnnouncementsAreRight
  <2>1. /\ TypeInv /\ WorkerInv /\ \A r \in Runs : RunInv(r) /\ ExecInv(r) /\ QuietRun(r)
    BY DEF ManagerInv, SafeInv, QuietInv, RunInv
  <2>2. RunEndIsAuthoritative
    <3> SUFFICES ASSUME NEW r \in Runs, NEW e \in Range(local[r]) \cup Range(primary[r]),
                        e.end # "no"
                 PROVE  e.end = durable[r]
      BY DEF RunEndIsAuthoritative
    <3>1. local[r] \in Seq(Event) /\ primary[r] \in Seq(Event)
      BY <2>1 DEF TypeInv
    <3>2. \/ \E i \in 1..Len(local[r]) : e = local[r][i]
          \/ \E i \in 1..Len(primary[r]) : e = primary[r][i]
      BY <3>1 DEF Range
    <3>3. QED
      BY <2>1, <3>2 DEF QuietRun
  <2>3. UncancelledRunsAreAnnounced
    <3> SUFFICES ASSUME NEW r \in Runs, Settled(r), ~channel[r].cancelRequested
                 PROVE  Ended(View(r))
      BY DEF UncancelledRunsAreAnnounced
    <3>1. exec[r].pc \in Finished
      BY <2>1 DEF Settled, WorkerInv
    <3>2. exec[r].pc # "raised" /\ exec[r].pc # "cancelled"
      BY <2>1 DEF Settled, QuietRun, WorkerInv
    <3>3. exec[r].pc = "finished"
      BY <3>1, <3>2 DEF Finished
    <3>4. QED
      BY <2>1, <3>3 DEF ExecInv, View
  <2>4. QED
    BY <2>2, <2>3
<1>2. QED
  BY <1>1, ManagerInvariant, PTL

-----------------------------------------------------------------------------
\* Shutdown.  There is one sentinel, and only while the process shuts down; a worker
\* that returned within the grace period took it.
Shutting == {"closing", "interrupting", "closed"}
Stopped == \E i \in 1..Len(queue) : queue[i] = Stop

SentinelInv ==
    /\ \A i, j \in 1..Len(queue) : queue[i] = Stop /\ queue[j] = Stop => i = j
    /\ Stopped \/ worker.pc = "returned" => up \in Shutting
    /\ worker.cancelling => up \in {"interrupting", "closed"}
    /\ up = "closing" /\ worker.pc = "returned" => ~Stopped

\* Channels that appeared since the loop of close() began are those of late arrivals.
LoopInv ==
    closer.pc # "none" => /\ up \in {"interrupting", "closed"}
                          /\ closer.owned \subseteq Owned
                          /\ \A r \in Owned \ closer.owned : Late(r)

DrainInv == SentinelInv /\ LoopInv /\ CloseLeavesOnlyLateArrivals

\* What steps do to the rows, the channels and the budget without admitting,
\* enqueueing or emptying anything.
RowMoves ==
    \/ UNCHANGED durable
    \/ \E r \in Runs : \E s \in TerminalStatus : durable' = [durable EXCEPT ![r] = s]
    \/ \E r \in Runs : durable[r] = "absent" /\ durable' = [durable EXCEPT ![r] = "in_progress"]
ChannelMoves ==
    \/ UNCHANGED channel
    \/ \E r \in Runs : \E end \in {"no"} \cup TerminalStatus : channel' = Recorded(r, end)
    \/ \E r \in Runs : channel' = [channel EXCEPT ![r].cancelRequested = TRUE]
BudgetMoves ==
    \/ UNCHANGED budget
    \/ DbRaises
    \/ budget.redis > 0 /\ budget' = [budget EXCEPT !.redis = @ - 1]
Moves == RowMoves /\ ChannelMoves /\ BudgetMoves

\* Such a step neither opens nor closes a channel, keeps what was asked of it, and
\* puts no run with a channel back in progress.
LEMMA MovesKeep ==
  ASSUME ManagerInv, Moves
  PROVE  /\ budget'.db = DbFaults => budget.db = DbFaults
         /\ \A q \in Runs : /\ channel'[q].open = channel[q].open
                            /\ channel[q].cancelRequested => channel'[q].cancelRequested
                            /\ channel[q].open /\ durable'[q] = "in_progress"
                                  => durable[q] = "in_progress"
         /\ Owned' = Owned
<1>1. TypeInv /\ \A q \in Runs : RunInv(q)
  BY DEF ManagerInv, SafeInv
<1>2. /\ durable \in [Runs -> Statuses] /\ channel \in [Runs -> Channel]
      /\ budget \in [restarts : Nat, db : 0..DbFaults, redis : Nat]
  BY <1>1 DEF TypeInv
<1>3. budget'.db = DbFaults => budget.db = DbFaults
  <2>1. CASE UNCHANGED budget
    BY <2>1
  <2>2. CASE DbRaises
    BY <1>1, <2>2, RaiseEffect
  <2>3. CASE budget' = [budget EXCEPT !.redis = @ - 1]
    BY <1>2, <2>3
  <2>4. QED
    BY <2>1, <2>2, <2>3 DEF Moves, BudgetMoves
<1>4. ASSUME NEW q \in Runs
      PROVE  /\ channel'[q].open = channel[q].open
             /\ channel[q].cancelRequested => channel'[q].cancelRequested
  <2>1. CASE UNCHANGED channel
    BY <2>1
  <2>2. ASSUME NEW r \in Runs, NEW end \in {"no"} \cup TerminalStatus,
               channel' = Recorded(r, end)
        PROVE  channel'[q].open = channel[q].open
               /\ channel'[q].cancelRequested = channel[q].cancelRequested
    BY <1>1, <2>2, RecordEffect
  <2>3. ASSUME NEW r \in Runs, channel' = [channel EXCEPT ![r].cancelRequested = TRUE]
        PROVE  channel'[q].open = channel[q].open
               /\ (channel[q].cancelRequested => channel'[q].cancelRequested)
    BY <1>2, <2>3 DEF Channel
  <2>4. QED
    BY <2>1, <2>2, <2>3 DEF Moves, ChannelMoves
<1>5. ASSUME NEW q \in Runs, channel[q].open, durable'[q] = "in_progress"
      PROVE  durable[q] = "in_progress"
  <2>1. durable[q] # "absent"
    BY <1>1, <1>5 DEF RunInv
  <2>2. QED
    BY <1>2, <1>5, <2>1 DEF Moves, RowMoves, TerminalStatus
<1>6. Owned' = Owned
  BY <1>4 DEF Owned
<1>7. QED
  BY <1>3, <1>4, <1>5, <1>6

\* Once the process is closed a run that is being cancelled is being cancelled until
\* it is over.
LEMMA CancellingLasts ==
  ASSUME ManagerInv, ManagerInv', budget'.db = DbFaults, NEW r \in Runs, Cancelling(r),
         channel[r].cancelRequested => channel'[r].cancelRequested,
         durable'[r] = "in_progress"
  PROVE  Cancelling(r)'
<1>1. PICK c \in Cancellers : cancels[c].run = r
  BY DEF Cancelling
<1>2. cancels[c].pc # "idle" /\ CancelInv(c)
  BY <1>1, ManagerAssumption DEF ManagerInv, SafeInv, CancelsInv, CancelInv
<1>3. channel'[r].cancelRequested
  BY <1>1, <1>2 DEF CancelInv
<1>4. QED
  BY <1>3 DEF ManagerInv, QuietInv

\* A step that leaves the queue, close() and the worker alone keeps DrainInv; so does
\* one that ends the worker's task.
LEMMA DrainFrame ==
  ASSUME ManagerInv, ManagerInv', DrainInv, Moves, UNCHANGED <<up, queue, closer>>,
         UNCHANGED worker \/ WorkerJoins
  PROVE  DrainInv'
<1>1. /\ budget'.db = DbFaults => budget.db = DbFaults
      /\ \A q \in Runs : /\ channel'[q].open = channel[q].open
                         /\ channel[q].cancelRequested => channel'[q].cancelRequested
                         /\ channel[q].open /\ durable'[q] = "in_progress"
                               => durable[q] = "in_progress"
      /\ Owned' = Owned
  BY MovesKeep
<1>2. \A q : Late(q)' <=> Late(q)
  BY DEF Late
<1>3. SentinelInv'
  <2>1. Stopped' <=> Stopped
    BY DEF Stopped
  <2>2. \/ worker' = worker
        \/ /\ worker'.pc = "returned" => worker.cancelling
           /\ ~worker'.cancelling
    BY DEF WorkerJoins, NoWorker
  <2>3. QED
    BY <2>1, <2>2 DEF DrainInv, SentinelInv, Shutting
<1>4. LoopInv'
  BY <1>1, <1>2 DEF DrainInv, LoopInv
<1>5. CloseLeavesOnlyLateArrivals'
  <2> SUFFICES ASSUME budget'.db = DbFaults, up = "closed", NEW r \in Runs,
                      channel'[r].open, durable'[r] = "in_progress"
               PROVE  Cancelling(r)' \/ Late(r)' \/ CutOff(r)'
    BY DEF CloseLeavesOnlyLateArrivals
  <2>1. Cancelling(r) \/ Late(r) \/ CutOff(r)
    BY <1>1 DEF DrainInv, CloseLeavesOnlyLateArrivals
  <2>2. Cancelling(r) => Cancelling(r)'
    BY <1>1, CancellingLasts
  <2>3. CutOff(r) => CutOff(r)'
    BY <1>1, <1>2 DEF CutOff
  <2>4. QED
    BY <1>2, <2>1, <2>2, <2>3
<1>6. QED
  BY <1>3, <1>4, <1>5 DEF DrainInv

\* Requests and tasks leave the queue, close() and the worker alone.
LEMMA OthersMove ==
  ASSUME ManagerInv,
         \/ \E s \in Submitters : \/ \E r \in Runs : SubmitCheck(s, r)
                                  \/ SubmitAdmit(s) \/ SubmitRaises(s)
         \/ \E r \in Runs : Execute(r) \/ FinalizationRaises(r) \/ ReportRaises(r)
         \/ \E c \in Cancellers : \/ \E r \in Runs : CancelRequest(c, r)
                                  \/ CancelJoins(c) \/ CancelPersists(c)
                                  \/ CancelRaises(c) \/ CancelPublished(c)
         \/ \E a \in Attachers : (\E r \in Runs : AttachCheck(a, r)) \/ AttachPublished(a)
  PROVE  Moves /\ UNCHANGED <<up, queue, closer, worker>>
<1>1. /\ \A s \in Submitters : submits[s].pc # "idle" => submits[s].run \in Runs
      /\ \A c \in Cancellers : cancels[c].pc # "idle" => cancels[c].run \in Runs
  BY DEF ManagerInv, SafeInv, SubmitsInv, CancelsInv, CancelInv
<1>2. \A r \in Runs : Landed(r) = durable
                      \/ \E s \in TerminalStatus : Landed(r) = [durable EXCEPT ![r] = s]
  BY DEF Landed, TerminalStatus
<1>3. ASSUME NEW s \in Submitters,
             \/ \E r \in Runs : SubmitCheck(s, r)
             \/ SubmitAdmit(s) \/ SubmitRaises(s)
      PROVE  Moves /\ UNCHANGED <<up, queue, closer, worker>>
  <2>1. BudgetMoves /\ UNCHANGED <<up, queue, closer, worker, channel>>
    BY <1>3 DEF SubmitCheck, SubmitAdmit, SubmitRaises, BudgetMoves
  <2>2. \/ UNCHANGED durable
        \/ /\ submits[s].pc = "admitting" /\ durable[submits[s].run] = "absent"
           /\ durable' = [durable EXCEPT ![submits[s].run] = "in_progress"]
    BY <1>3 DEF SubmitCheck, SubmitAdmit, SubmitRaises
  <2>3. RowMoves
    BY <1>1, <2>2 DEF RowMoves
  <2>4. QED
    BY <2>1, <2>3 DEF Moves, ChannelMoves
<1>4. ASSUME NEW r \in Runs, Execute(r) \/ FinalizationRaises(r) \/ ReportRaises(r)
      PROVE  Moves /\ UNCHANGED <<up, queue, closer, worker>>
  <2>1. UNCHANGED <<up, queue, closer, worker>>
    BY <1>4 DEF Execute, ExecPublished, ExecEmits, ReplayEnds, AgentEnds, ExecFinalizes,
       ExecErrored, ExecReports, ExecCancelled, FinalizationRaises, ReportRaises
  <2>2. BudgetMoves
    BY <1>4 DEF Execute, ExecPublished, ExecEmits, ReplayEnds, AgentEnds, ExecFinalizes,
       ExecErrored, ExecReports, ExecCancelled, FinalizationRaises, ReportRaises,
       BudgetMoves, PublishPrimary
  <2>3. ChannelMoves
    BY <1>4 DEF Execute, ExecPublished, ExecEmits, ReplayEnds, AgentEnds, ExecFinalizes,
       ExecErrored, ExecReports, ExecCancelled, FinalizationRaises, ReportRaises,
       ChannelMoves, Emit, TerminalStatus
  <2>4. \/ UNCHANGED durable \/ durable' = Landed(r)
        \/ \E s \in TerminalStatus : durable' = [durable EXCEPT ![r] = s]
    BY <1>4 DEF Execute, ExecPublished, ExecEmits, ReplayEnds, AgentEnds, ExecFinalizes,
       ExecErrored, ExecReports, ExecCancelled, FinalizationRaises, ReportRaises, TerminalStatus
  <2>5. RowMoves
    BY <1>2, <2>4 DEF RowMoves
  <2>6. QED
    BY <2>1, <2>2, <2>3, <2>5 DEF Moves
<1>5. ASSUME NEW c \in Cancellers,
             \/ \E r \in Runs : CancelRequest(c, r)
             \/ CancelJoins(c) \/ CancelPersists(c) \/ CancelRaises(c) \/ CancelPublished(c)
      PROVE  Moves /\ UNCHANGED <<up, queue, closer, worker>>
  <2>1. BudgetMoves /\ UNCHANGED <<up, queue, closer, worker>>
    BY <1>5 DEF CancelRequest, CancelJoins, CancelPersists, CancelRaises, CancelPublished,
       BudgetMoves, PublishPrimary
  <2>2. \/ UNCHANGED channel
        \/ \E r \in Runs : channel' = [channel EXCEPT ![r].cancelRequested = TRUE]
        \/ cancels[c].pc = "persisting" /\ channel' = Recorded(cancels[c].run, "cancelled")
    BY <1>5 DEF CancelRequest, CancelJoins, CancelPersists, CancelRaises, CancelPublished
  <2>3. \/ UNCHANGED durable
        \/ /\ cancels[c].pc = "persisting"
           /\ durable' = [durable EXCEPT ![cancels[c].run] = "cancelled"]
    BY <1>5 DEF CancelRequest, CancelJoins, CancelPersists, CancelRaises, CancelPublished
  <2>4. RowMoves /\ ChannelMoves
    BY <1>1, <2>2, <2>3 DEF RowMoves, ChannelMoves, TerminalStatus
  <2>5. QED
    BY <2>1, <2>4 DEF Moves
<1>6. ASSUME NEW a \in Attachers, (\E r \in Runs : AttachCheck(a, r)) \/ AttachPublished(a)
      PROVE  Moves /\ UNCHANGED <<up, queue, closer, worker>>
  BY <1>6 DEF AttachCheck, AttachPublished, PublishPrimary, Moves, RowMoves, ChannelMoves,
     BudgetMoves
<1>7. QED
  BY <1>3, <1>4, <1>5, <1>6

\* A late submission is enqueued behind the sentinel.
LEMMA DrainSubmit ==
  ASSUME ManagerInv, ManagerInv', DrainInv, NEW s \in Submitters, SubmitEnqueue(s)
  PROVE  DrainInv'
<1>1. /\ TypeInv /\ submits[s].run \in Runs
      /\ UNCHANGED <<durable, stores, up, exec, worker, cancels, attaches, closer, budget, agentRuns>>
  BY DEF ManagerInv, SafeInv, SubmitsInv, SubmitEnqueue
<1>2. PICK r \in Runs : r = submits[s].run
  BY <1>1
<1>3. CASE channel[r].open
  <2>1. UNCHANGED <<channel, queue>>
    BY <1>2, <1>3 DEF SubmitEnqueue
  <2>2. Moves
    BY <1>1, <2>1 DEF Moves, RowMoves, ChannelMoves, BudgetMoves
  <2>3. QED
    BY <1>1, <2>1, <2>2, DrainFrame
<1>4. CASE ~channel[r].open
  <2> DEFINE x == [run |-> r, replay |-> submits[s].replay]
  <2>1. /\ channel' = [channel EXCEPT ![r].open = TRUE]
        /\ queue' = Append(queue, x) /\ x.run = r
    BY <1>2, <1>4 DEF SubmitEnqueue
  <2>2. x \in Item
    BY <1>1 DEF TypeInv, Request, Item
  <2>3. x # Stop
    BY <2>2, ManagerAssumption DEF Item
  <2> HIDE DEF x
  <2>4. /\ queue \in Seq(Item \cup {Stop}) /\ queue' \in Seq(Item \cup {Stop})
        /\ Len(queue) \in Nat /\ Len(queue') = Len(queue) + 1
        /\ DOMAIN queue = 1..Len(queue) /\ DOMAIN queue' = 1..Len(queue')
        /\ \A i \in 1..Len(queue) : queue'[i] = queue[i]
        /\ queue'[Len(queue) + 1] = x
    BY <1>1, <2>1, <2>2 DEF TypeInv
  <2>5. /\ channel \in [Runs -> Channel] /\ channel'[r].open
        /\ \A q \in Runs : channel'[q].cancelRequested = channel[q].cancelRequested
        /\ \A q \in Runs \ {r} : channel'[q] = channel[q]
        /\ Owned' = Owned \cup {r}
    <3>1. channel \in [Runs -> Channel]
      BY <1>1 DEF TypeInv
    <3>2. /\ channel'[r].open
          /\ \A q \in Runs : channel'[q].cancelRequested = channel[q].cancelRequested
          /\ \A q \in Runs \ {r} : channel'[q] = channel[q]
      BY <2>1, <3>1 DEF Channel
    <3>3. QED
      BY <3>1, <3>2 DEF Owned
  <2>6. SentinelInv'
    <3>1. \A i \in 1..Len(queue') : queue'[i] = Stop => i \in 1..Len(queue) /\ queue[i] = Stop
      BY <2>3, <2>4
    <3>2. Stopped' => Stopped
      BY <3>1 DEF Stopped
    <3>3. \A i, j \in 1..Len(queue') : queue'[i] = Stop /\ queue'[j] = Stop => i = j
      BY <3>1 DEF DrainInv, SentinelInv
    <3>4. QED
      BY <1>1, <3>2, <3>3 DEF DrainInv, SentinelInv
  <2>7. \A q : Late(q) => Late(q)'
    <3> SUFFICES ASSUME NEW q, Late(q) PROVE Late(q)'
      OBVIOUS
    <3>1. PICK j \in 1..Len(queue) : /\ queue[j] # Stop /\ queue[j].run = q
                                     /\ \A i \in j..Len(queue) : queue[i] # Stop
      BY <2>4 DEF Late
    <3>2. j \in 1..Len(queue') /\ queue'[j] = queue[j]
      BY <2>4
    <3>3. \A i \in j..Len(queue') : queue'[i] # Stop
      BY <2>3, <2>4, <3>1
    <3>4. QED
      BY <2>4, <3>1, <3>2, <3>3 DEF Late
  <2>8. Late(r)'
    <3>1. Len(queue') \in 1..Len(queue') /\ queue'[Len(queue')] = x
      BY <2>4
    <3>2. \A i \in Len(queue')..Len(queue') : queue'[i] # Stop
      BY <2>3, <2>4, <3>1
    <3>3. QED
      BY <2>1, <2>3, <2>4, <3>1, <3>2 DEF Late
  <2>9. LoopInv'
    BY <1>1, <2>5, <2>7, <2>8 DEF DrainInv, LoopInv
  <2>10. CloseLeavesOnlyLateArrivals'
    <3> SUFFICES ASSUME budget'.db = DbFaults, up' = "closed", NEW q \in Runs,
                        channel'[q].open, durable'[q] = "in_progress"
                 PROVE  Cancelling(q)' \/ Late(q)' \/ CutOff(q)'
      BY DEF CloseLeavesOnlyLateArrivals
    <3>1. CASE q = r
      BY <2>8, <3>1
    <3>2. CASE q # r
      <4>1. Cancelling(q) \/ Late(q) \/ CutOff(q)
        BY <1>1, <2>5, <3>2 DEF DrainInv, CloseLeavesOnlyLateArrivals
      <4>2. CutOff(q) => CutOff(q)'
        BY <1>1, <2>5, <2>7 DEF CutOff
      <4>3. Cancelling(q) => Cancelling(q)'
        BY <1>1 DEF Cancelling
      <4>4. QED
        BY <2>7, <4>1, <4>2, <4>3
    <3>3. QED
      BY <3>1, <3>2
  <2>11. QED
    BY <2>6, <2>9, <2>10 DEF DrainInv
<1>5. QED
  BY <1>3, <1>4

\* The worker takes an item while it has not returned: the process is not closed, and
\* the loop of close() has not begun.
LEMMA DrainTakes ==
  ASSUME ManagerInv, DrainInv, WorkerTakes
  PROVE  DrainInv'
<1>1. /\ TypeInv /\ WorkerInv /\ CloserInv /\ up' = up /\ closer' = closer
      /\ worker.pc = "idle" /\ queue # <<>> /\ queue' = Tail(queue)
      /\ worker'.cancelling = worker.cancelling
      /\ \/ Head(queue) = Stop /\ worker'.pc = "returned"
         \/ worker'.pc # "returned"
  <2>1. worker \in [pc : {"none", "idle", "busy", "returned", "dead"},
                    run : Runs \cup {None}, cancelling : BOOLEAN]
    BY DEF ManagerInv, SafeInv, TypeInv
  <2>2. QED
    BY <2>1 DEF ManagerInv, SafeInv, WorkerTakes
<1>2. closer.pc = "none" /\ up # "closed"
  BY <1>1 DEF CloserInv, WorkerInv
<1>3. /\ Len(queue') = Len(queue) - 1 /\ Len(queue) \in Nat \ {0}
      /\ \A i \in 1..Len(queue') : queue'[i] = queue[i + 1]
      /\ Head(queue) = queue[1]
  BY <1>1 DEF TypeInv
<1>4. \A i \in 1..Len(queue') : i + 1 \in 1..Len(queue) /\ i + 1 # 1
  BY <1>3
<1>5. Stopped' => Stopped
  BY <1>3, <1>4 DEF Stopped
<1>6. Head(queue) = Stop => Stopped /\ ~Stopped'
  BY <1>3, <1>4 DEF Stopped, DrainInv, SentinelInv
<1>7. \A i, j \in 1..Len(queue') : queue'[i] = Stop /\ queue'[j] = Stop => i = j
  <2> SUFFICES ASSUME NEW i \in 1..Len(queue'), NEW j \in 1..Len(queue'),
                      queue'[i] = Stop, queue'[j] = Stop
               PROVE  i = j
    OBVIOUS
  <2>1. i + 1 = j + 1
    BY <1>3, <1>4 DEF DrainInv, SentinelInv
  <2>2. QED
    BY <2>1
<1>8. SentinelInv'
  BY <1>1, <1>5, <1>6, <1>7 DEF DrainInv, SentinelInv
<1>9. QED
  BY <1>1, <1>2, <1>8 DEF DrainInv, LoopInv, CloseLeavesOnlyLateArrivals

\* A process that starts or leaves has no queue and is not closing.
LEMMA DrainVolatile ==
  ASSUME NEW pc \in {"none", "idle"}, Volatile(pc), up' \in {"serving", "down"}
  PROVE  DrainInv'
<1>1. queue' = <<>> /\ closer'.pc = "none" /\ worker'.pc = pc /\ ~worker'.cancelling
  BY DEF Volatile, NoCloser, NoWorker
<1>2. ~Stopped' /\ SentinelInv'
  BY <1>1 DEF Stopped, SentinelInv
<1>3. QED
  BY <1>1, <1>2 DEF DrainInv, LoopInv, CloseLeavesOnlyLateArrivals

\* close() puts the only sentinel on the queue.
LEMMA DrainBegins ==
  ASSUME ManagerInv, DrainInv, CloseBegins
  PROVE  DrainInv'
<1>1. /\ up = "serving" /\ up' = "closing" /\ queue' = Append(queue, Stop)
      /\ queue \in Seq(Item \cup {Stop}) /\ UNCHANGED <<worker, closer>>
  BY DEF ManagerInv, SafeInv, TypeInv, CloseBegins
<1>2. ~Stopped /\ worker.pc # "returned" /\ ~worker.cancelling /\ closer.pc = "none"
  BY <1>1 DEF DrainInv, SentinelInv, LoopInv, Shutting
<1>3. /\ Len(queue') = Len(queue) + 1 /\ Len(queue) \in Nat
      /\ \A i \in 1..Len(queue) : queue'[i] = queue[i]
  BY <1>1
<1>4. \A i \in 1..Len(queue') : queue'[i] = Stop => i = Len(queue')
  BY <1>2, <1>3 DEF Stopped
<1>5. SentinelInv'
  BY <1>1, <1>2, <1>4 DEF SentinelInv, Shutting
<1>6. QED
  BY <1>1, <1>2, <1>5 DEF DrainInv, LoopInv, CloseLeavesOnlyLateArrivals

\* close() joined the worker: what is still queued came behind the sentinel.
LEMMA DrainJoins ==
  ASSUME ManagerInv, DrainInv, CloseJoins
  PROVE  DrainInv'
<1>1. /\ up = "closing" /\ up' = "closed" /\ worker.pc \in {"returned", "dead"}
      /\ UNCHANGED <<durable, channel, exec, queue, worker, requests, closer, budget>>
      /\ DOMAIN queue = 1..Len(queue)
  BY DEF ManagerInv, SafeInv, TypeInv, CloseJoins
<1>2. closer.pc = "none"
  BY <1>1 DEF DrainInv, LoopInv
<1>3. SentinelInv'
  BY <1>1 DEF DrainInv, SentinelInv, Stopped, Shutting
<1>4. CloseLeavesOnlyLateArrivals'
  <2> SUFFICES ASSUME budget.db = DbFaults, NEW r \in Runs, channel[r].open,
                      durable[r] = "in_progress"
               PROVE  Cancelling(r)' \/ Late(r)'
    BY <1>1 DEF CloseLeavesOnlyLateArrivals
  <2>1. worker.pc = "returned" /\ Accounted(r) /\ exec[r].pc \notin Suspended
    BY <1>1 DEF ManagerInv, SafeInv, QuietInv, WorkerInv
  <2>2. ~Stopped
    BY <1>1, <2>1 DEF DrainInv, SentinelInv
  <2>3. Queued(r) => Late(r)
    BY <1>1, <2>2 DEF Queued, Late, Stopped
  <2>4. Queued(r) \/ Cancelling(r)
    BY <1>1, <2>1 DEF Accounted
  <2>5. (Late(r) => Late(r)') /\ (Cancelling(r) => Cancelling(r)')
    BY <1>1 DEF Late, Cancelling, requests
  <2>6. QED
    BY <2>3, <2>4, <2>5
<1>5. QED
  BY <1>1, <1>2, <1>3, <1>4 DEF DrainInv, LoopInv

\* The grace period is over.
LEMMA DrainTimesOut ==
  ASSUME ManagerInv, DrainInv, CloseTimesOut
  PROVE  DrainInv'
<1>1. /\ up = "closing" /\ up' = "interrupting" /\ worker.pc = "busy" /\ worker'.pc = "busy"
      /\ UNCHANGED <<queue, closer>>
  <2>1. worker \in [pc : {"none", "idle", "busy", "returned", "dead"},
                    run : Runs \cup {None}, cancelling : BOOLEAN]
    BY DEF ManagerInv, SafeInv, TypeInv
  <2>2. QED
    BY <2>1 DEF CloseTimesOut
<1>2. closer.pc = "none"
  BY <1>1 DEF DrainInv, LoopInv
<1>3. SentinelInv'
  BY <1>1 DEF DrainInv, SentinelInv, Stopped, Shutting
<1>4. QED
  BY <1>1, <1>2, <1>3 DEF DrainInv, LoopInv, CloseLeavesOnlyLateArrivals

\* The loop goes on: what appears after it took stock is late.
LEMMA DrainLoop ==
  ASSUME ManagerInv, DrainInv,
         (\E r \in Runs : InterruptTakes(r)) \/ InterruptFails \/ InterruptPublished
  PROVE  DrainInv'
<1>1. /\ TypeInv /\ CloserInv
      /\ up = "interrupting" /\ up' = "interrupting" /\ UNCHANGED <<queue, worker>>
  BY DEF ManagerInv, SafeInv, InterruptTakes, Resumes, InterruptFails, InterruptPublished
<1>2. SentinelInv' /\ \A q : Late(q)' <=> Late(q)
  BY <1>1 DEF DrainInv, SentinelInv, Stopped, Late
<1>3. closer \in Closer
  BY <1>1 DEF TypeInv
<1>4. CASE \E r \in Runs : InterruptTakes(r)
  <2>1. channel' = channel /\ closer'.owned = Owned
    BY <1>3, <1>4 DEF InterruptTakes, Closer
  <2>2. Owned' = Owned
    BY <2>1 DEF Owned
  <2>3. QED
    BY <1>1, <1>2, <2>1, <2>2 DEF DrainInv, LoopInv, CloseLeavesOnlyLateArrivals
<1>5. CASE InterruptFails \/ InterruptPublished
  <2>1. closer.pc # "none" /\ closer'.owned = closer.owned
    BY <1>3, <1>5 DEF InterruptFails, InterruptPublished, Closer
  <2>2. closer.run \in Runs
    BY <1>1, <1>5 DEF InterruptFails, InterruptPublished, CloserInv
  <2>3. channel' = channel \/ channel' = Recorded(closer.run, "error")
    BY <1>5 DEF InterruptFails, InterruptPublished
  <2>4. \A q \in Runs : channel'[q].open = channel[q].open
    BY <1>1, <2>2, <2>3, RecordEffect DEF TerminalStatus
  <2>5. Owned' = Owned
    BY <2>4 DEF Owned
  <2>6. QED
    BY <1>1, <1>2, <2>1, <2>5 DEF DrainInv, LoopInv, CloseLeavesOnlyLateArrivals
<1>6. QED
  BY <1>4, <1>5

\* The loop is through, or broke: what it did not visit appeared after it took stock,
\* or was cut off by what did.
LEMMA DrainEnds ==
  ASSUME ManagerInv, DrainInv, InterruptRaises \/ InterruptBreaks \/ InterruptEnds
  PROVE  DrainInv'
<1>1. /\ TypeInv /\ CloserInv /\ \A q \in Runs : RunInv(q)
      /\ up = "interrupting" /\ up' = "closed" /\ UNCHANGED <<channel, queue, worker, closer>>
  BY DEF ManagerInv, SafeInv, InterruptRaises, InterruptBreaks, InterruptEnds, Resumes
<1>2. /\ \A q : Late(q)' <=> Late(q)
      /\ \A q : CutOff(q)' <=> CutOff(q)
      /\ Owned' = Owned
  BY <1>1 DEF Late, CutOff, Owned
<1>3. SentinelInv'
  BY <1>1 DEF DrainInv, SentinelInv, Stopped, Shutting
<1>4. LoopInv'
  BY <1>1, <1>2 DEF DrainInv, LoopInv
<1>5. CloseLeavesOnlyLateArrivals'
  <2>1. CASE InterruptRaises
    BY <1>1, <2>1, RaiseEffect DEF InterruptRaises, CloseLeavesOnlyLateArrivals
  <2>2. CASE InterruptBreaks \/ InterruptEnds
    <3> SUFFICES ASSUME NEW r \in Runs, channel[r].open, durable[r] = "in_progress"
                 PROVE  Late(r) \/ CutOff(r)
      BY <1>1, <1>2, <2>2 DEF CloseLeavesOnlyLateArrivals, InterruptBreaks, InterruptEnds
    <3>1. r \in Owned /\ ~channel[r].terminal /\ ~Over(r)
      BY <1>1 DEF Owned, RunInv, Over, TerminalStatus
    <3>2. r \notin closer.visited
      BY <1>1, <2>2, <3>1 DEF CloserInv, InterruptBreaks, InterruptEnds, Resumes
    <3>3. Grown
      BY <2>2, <3>1, <3>2 DEF InterruptBreaks, InterruptEnds
    <3>4. /\ closer.owned \subseteq Owned /\ closer.owned # Owned
          /\ \A q \in Owned \ closer.owned : Late(q)
      BY <3>3 DEF Grown, DrainInv, LoopInv
    <3>5. CASE r \in closer.owned
      BY <3>2, <3>4, <3>5 DEF CutOff
    <3>6. CASE r \notin closer.owned
      BY <3>1, <3>4, <3>6
    <3>7. QED
      BY <3>5, <3>6
  <2>3. QED
    BY <2>1, <2>2
<1>6. QED
  BY <1>3, <1>4, <1>5 DEF DrainInv

\* Every step keeps what is said of shutdown.
LEMMA DrainPreserved == ManagerInv /\ ManagerInv' /\ DrainInv /\ [Next]_vars => DrainInv'
<1> SUFFICES ASSUME ManagerInv, ManagerInv', DrainInv, [Next]_vars PROVE DrainInv'
  OBVIOUS
<1> DEFINE Others ==
         \/ \E s \in Submitters : \/ \E r \in Runs : SubmitCheck(s, r)
                                  \/ SubmitAdmit(s) \/ SubmitRaises(s)
         \/ \E r \in Runs : Execute(r) \/ FinalizationRaises(r) \/ ReportRaises(r)
         \/ \E c \in Cancellers : \/ \E r \in Runs : CancelRequest(c, r)
                                  \/ CancelJoins(c) \/ CancelPersists(c)
                                  \/ CancelRaises(c) \/ CancelPublished(c)
         \/ \E a \in Attachers : (\E r \in Runs : AttachCheck(a, r)) \/ AttachPublished(a)
<1>1. CASE Others
  BY <1>1, OthersMove, DrainFrame
<1>2. CASE \E s \in Submitters : SubmitEnqueue(s)
  BY <1>2, DrainSubmit
<1>3. CASE Start \/ Exit \/ Crash
  BY <1>3, DrainVolatile DEF Start, Exit, Crash, Leave
<1>4. CASE WorkerTakes \/ CloseBegins \/ CloseJoins \/ CloseTimesOut
  BY <1>4, DrainTakes, DrainBegins, DrainJoins, DrainTimesOut
<1>5. CASE WorkerJoins
  <2>1. Moves /\ UNCHANGED <<up, queue, closer>>
    BY <1>5 DEF WorkerJoins, Moves, RowMoves, ChannelMoves, BudgetMoves
  <2>2. QED
    BY <1>5, <2>1, DrainFrame
<1>6. CASE \/ \E r \in Runs : InterruptTakes(r)
           \/ InterruptFails \/ InterruptPublished
           \/ InterruptRaises \/ InterruptBreaks \/ InterruptEnds
  BY <1>6, DrainLoop, DrainEnds
<1>7. CASE UNCHANGED vars
  <2>1. Moves /\ UNCHANGED <<up, queue, closer, worker>>
    BY <1>7 DEF vars, Moves, RowMoves, ChannelMoves, BudgetMoves
  <2>2. QED
    BY <2>1, DrainFrame
<1>8. Next => \/ Others \/ (\E s \in Submitters : SubmitEnqueue(s))
              \/ Start \/ Exit \/ Crash
              \/ WorkerTakes \/ CloseBegins \/ CloseJoins \/ CloseTimesOut \/ WorkerJoins
              \/ \E r \in Runs : InterruptTakes(r)
              \/ InterruptFails \/ InterruptPublished
              \/ InterruptRaises \/ InterruptBreaks \/ InterruptEnds
  BY DEF Next
<1> HIDE DEF Others
<1>9. QED
  BY <1>1, <1>2, <1>3, <1>4, <1>5, <1>6, <1>7, <1>8

\* While no repository call has raised: a run that close() leaves in progress is being
\* cancelled, was enqueued behind the sentinel, or was cut off from the loop that fails
\* what outlived the grace period by one that was.
THEOREM CloseDrains == Spec => []CloseLeavesOnlyLateArrivals
<1>1. Init => DrainInv
  <2> SUFFICES ASSUME Init PROVE DrainInv
    OBVIOUS
  <2>1. queue = <<>> /\ closer.pc = "none" /\ worker.pc = "none" /\ ~worker.cancelling /\ up = "down"
    BY DEF Init, NoCloser, NoWorker
  <2>2. SentinelInv
    BY <2>1 DEF SentinelInv, Stopped
  <2>3. QED
    BY <2>1, <2>2 DEF DrainInv, LoopInv, CloseLeavesOnlyLateArrivals
<1>2. DrainInv => CloseLeavesOnlyLateArrivals
  BY DEF DrainInv
<1>3. QED
  BY <1>1, <1>2, DrainPreserved, ManagerInvariant, PTL DEF Spec

-----------------------------------------------------------------------------
\* What clients are told of every run.
Announced == [r \in Runs |-> Announcement(r)]

\* What a stream announces.
Told(events) ==
    LET ends == {e.end : e \in Range(events)} \ {"no"}
    IN IF ends = {} THEN "none" ELSE CHOOSE s \in ends : TRUE

\* A stream whose run_ends all carry one status announces that status or nothing.
LEMMA ToldIs ==
  ASSUME NEW events \in Seq(Event), NEW status,
         \A i \in 1..Len(events) : events[i].end \in {"no", status}
  PROVE  \/ (\A i \in 1..Len(events) : events[i].end = "no") /\ Told(events) = "none"
         \/ (\E i \in 1..Len(events) : events[i].end # "no") /\ Told(events) = status
<1> DEFINE ends == {e.end : e \in Range(events)} \ {"no"}
<1>1. \A x : x \in ends <=> \E i \in 1..Len(events) : x = events[i].end /\ x # "no"
  BY DEF Range
<1>2. CASE \A i \in 1..Len(events) : events[i].end = "no"
  <2>1. ends = {}
    BY <1>1, <1>2
  <2>2. QED
    BY <1>2, <2>1 DEF Told
<1>3. CASE \E i \in 1..Len(events) : events[i].end # "no"
  <2>1. ends = {status}
    BY <1>1, <1>3
  <2>2. (CHOOSE s \in ends : TRUE) = status /\ ends # {}
    BY <2>1
  <2>3. QED
    BY <1>3, <2>2 DEF Told
<1>4. QED
  BY <1>2, <1>3

\* A publication announces the status of its run, or nothing new.
LEMMA AnnounceStep ==
  ASSUME TypeInv, TypeInv', \A q \in Runs : QuietRun(q) /\ QuietRun(q)',
         NEW r \in Runs, NEW e \in Event, PublishPrimary(r, e), e.end # "no" => Over(r),
         UNCHANGED durable
  PROVE  Lifecycle!Announce(r) \/ UNCHANGED <<durable, Announced>>
<1>1. /\ \A q \in Runs \ {r} : primary'[q] = primary[q]
      /\ primary'[r] \in {primary[r], Append(primary[r], e)}
      /\ primary[r] \in Seq(Event)
  BY PrimaryEffect DEF TypeInv
<1>2. \A q \in Runs \ {r} : Announcement(q)' = Announcement(q)
  BY <1>1 DEF Announcement
<1>3. CASE primary'[r] = primary[r]
  BY <1>2, <1>3 DEF Announcement, Announced
<1>4. CASE primary'[r] = Append(primary[r], e)
  <2>1. /\ Len(primary'[r]) = Len(primary[r]) + 1
        /\ \A i \in 1..Len(primary[r]) : primary'[r][i] = primary[r][i]
        /\ primary'[r][Len(primary[r]) + 1] = e /\ Len(primary[r]) \in Nat
    BY <1>1, <1>4, AppendEvent
  <2>2. \/ /\ \A i \in 1..Len(primary[r]) : primary[r][i].end = "no"
           /\ Announcement(r) = "none"
        \/ /\ \E i \in 1..Len(primary[r]) : primary[r][i].end # "no"
           /\ Announcement(r) = durable[r]
    <3>1. \A i \in 1..Len(primary[r]) : primary[r][i].end \in {"no", durable[r]}
      BY DEF QuietRun
    <3>2. Announcement(r) = Told(primary[r])
      BY DEF Announcement, Told
    <3>3. QED
      BY <1>1, <3>1, <3>2, ToldIs
  <2>3. \/ /\ \A i \in 1..Len(primary'[r]) : primary'[r][i].end = "no"
           /\ Announcement(r)' = "none"
        \/ /\ \E i \in 1..Len(primary'[r]) : primary'[r][i].end # "no"
           /\ Announcement(r)' = durable[r]
    <3>1. /\ primary'[r] \in Seq(Event)
          /\ \A i \in 1..Len(primary'[r]) : primary'[r][i].end \in {"no", durable[r]}
      BY DEF QuietRun, TypeInv
    <3>2. Announcement(r)' = Told(primary'[r])
      BY DEF Announcement, Told
    <3>3. QED
      BY <3>1, <3>2, ToldIs
  <2>4. CASE Announcement(r)' = Announcement(r)
    BY <1>2, <2>4 DEF Announced
  <2>5. CASE Announcement(r)' # Announcement(r)
    <3>1. Announcement(r) = "none" /\ Announcement(r)' = durable[r]
      BY <2>1, <2>2, <2>3, <2>5
    <3>2. e.end # "no"
      BY <2>1, <2>2, <2>3, <2>5
    <3>3. Announced' = [Announced EXCEPT ![r] = durable[r]] /\ Announced[r] = "none"
      BY <1>2, <3>1 DEF Announced
    <3>4. durable[r] \in TerminalStatus
      BY <3>2 DEF Over
    <3>5. QED
      BY <3>3, <3>4 DEF Lifecycle!Announce, Lifecycle!TerminalStatus, TerminalStatus, Announced
  <2>6. QED
    BY <2>4, <2>5
<1>5. QED
  BY <1>1, <1>3, <1>4

\* Nothing published, nothing announced.
LEMMA SilentStep ==
  ASSUME UNCHANGED primary
  PROVE  UNCHANGED Announced
<1>1. \A r \in Runs : Announcement(r)' = Announcement(r)
  BY DEF Announcement
<1>2. QED
  BY <1>1 DEF Announced

\* A run that is in progress ends.
LEMMA FinishStep ==
  ASSUME NEW r \in Runs, NEW s \in TerminalStatus, durable[r] = "in_progress",
         durable' = [durable EXCEPT ![r] = s], UNCHANGED primary
  PROVE  Lifecycle!Next
<1>1. Lifecycle!Finish(r, s)
  BY SilentStep DEF Lifecycle!Finish, Announced
<1>2. QED
  BY <1>1 DEF Lifecycle!Next, Lifecycle!TerminalStatus, TerminalStatus

\* As long as no repository call raises, every step of the manager is a step of the
\* lifecycle clients are promised, or none of their business.
LEMMA LifecycleStep ==
  ASSUME ManagerInv, ManagerInv', budget.db = DbFaults, budget'.db = DbFaults, [Next]_vars
  PROVE  Lifecycle!Next \/ UNCHANGED <<durable, Announced>>
<1>1. /\ TypeInv /\ TypeInv' /\ \A q \in Runs : QuietRun(q) /\ QuietRun(q)'
      /\ \A q \in Runs : RunInv(q) /\ ExecInv(q)
      /\ SubmitsInv /\ CancelsInv /\ AttachesInv /\ CloserInv
  BY DEF ManagerInv, SafeInv, QuietInv, RunInv
<1> DEFINE Goal == Lifecycle!Next \/ UNCHANGED <<durable, Announced>>
<1>2. ASSUME UNCHANGED <<durable, primary>> PROVE Goal
  BY <1>2, SilentStep
<1>3. ASSUME NEW r \in Runs, NEW e \in Event, PublishPrimary(r, e), e.end # "no" => Over(r),
             UNCHANGED durable
      PROVE  Goal
  <2>1. Lifecycle!Announce(r) \/ UNCHANGED <<durable, Announced>>
    BY <1>1, <1>3, AnnounceStep
  <2>2. QED
    BY <2>1 DEF Lifecycle!Next
<1>4. ASSUME NEW r \in Runs, durable' = Landed(r), UNCHANGED primary PROVE Goal
  <2>1. CASE durable[r] # "in_progress"
    BY <1>2, <1>4, <2>1 DEF Landed
  <2>2. CASE durable[r] = "in_progress"
    <3>1. PICK s \in TerminalStatus : durable' = [durable EXCEPT ![r] = s]
      BY <1>4, <2>2 DEF Landed, TerminalStatus
    <3>2. QED
      BY <1>4, <2>2, <3>1, FinishStep
  <2>3. QED
    BY <2>1, <2>2
<1>5. ASSUME NEW r \in Runs, durable[r] = "absent",
             durable' = [durable EXCEPT ![r] = "in_progress"], UNCHANGED primary
      PROVE  Goal
  <2>1. Lifecycle!Admit(r)
    BY <1>5, SilentStep DEF Lifecycle!Admit, Announced
  <2>2. QED
    BY <2>1 DEF Lifecycle!Next
<1>6. ASSUME Start PROVE Goal
  <2>1. Lifecycle!Recover
    BY <1>6, SilentStep DEF Start, Lifecycle!Recover, Announced
  <2>2. QED
    BY <2>1 DEF Lifecycle!Next
<1>7. ASSUME NEW s \in Submitters,
             \/ \E r \in Runs : SubmitCheck(s, r)
             \/ SubmitAdmit(s) \/ SubmitRaises(s) \/ SubmitEnqueue(s)
      PROVE  Goal
  <2>1. UNCHANGED primary
    BY <1>7 DEF SubmitCheck, SubmitAdmit, SubmitRaises, SubmitEnqueue, stores
  <2>2. CASE UNCHANGED durable
    BY <1>2, <2>1, <2>2
  <2>3. CASE ~UNCHANGED durable
    <3>1. submits[s].pc = "admitting" /\ durable[submits[s].run] = "absent"
          /\ durable' = [durable EXCEPT ![submits[s].run] = "in_progress"]
      BY <1>7, <2>3 DEF SubmitCheck, SubmitAdmit, SubmitRaises, SubmitEnqueue
    <3>2. submits[s].run \in Runs
      BY <1>1, <3>1 DEF SubmitsInv
    <3>3. QED
      BY <1>5, <2>1, <3>1, <3>2
  <2>4. QED
    BY <2>2, <2>3
<1>8. ASSUME NEW r \in Runs, ExecPublished(r) PROVE Goal
  <2>1. exec[r].event \in Event /\ (exec[r].event.end # "no" => Over(r))
    BY <1>1, <1>8 DEF ExecPublished, ExecInv, RunInv
  <2>2. QED
    BY <1>3, <1>8, <2>1 DEF ExecPublished
<1>9. ASSUME NEW r \in Runs, ExecFinalizes(r) PROVE Goal
  <2>1. durable' = Landed(r) \/ UNCHANGED durable
    BY <1>9 DEF ExecFinalizes, Landed
  <2>2. QED
    BY <1>2, <1>4, <1>9, <2>1 DEF ExecFinalizes
<1>10. ASSUME NEW r \in Runs, ExecReports(r) \/ FinalizationRaises(r) PROVE Goal
  <2>1. durable' = Landed(r) \/ UNCHANGED durable
    BY <1>10 DEF ExecReports, FinalizationRaises
  <2>2. QED
    BY <1>2, <1>4, <1>10, <2>1 DEF ExecReports, FinalizationRaises, stores
<1>11. ASSUME NEW r \in Runs, ExecCancelled(r) PROVE Goal
  <2>1. CASE UNCHANGED <<durable, primary>>
    BY <1>2, <2>1
  <2>2. CASE durable' = Landed(r) /\ UNCHANGED primary
    BY <1>4, <2>2
  <2>3. CASE exec[r].pc = "publishing" /\ PublishPrimary(r, exec[r].event) /\ UNCHANGED durable
    <3>1. exec[r].event \in Event /\ (exec[r].event.end # "no" => Over(r))
      BY <1>1, <2>3 DEF ExecInv, RunInv
    <3>2. QED
      BY <1>3, <2>3, <3>1
  <2>4. QED
    BY <1>11, <2>1, <2>2, <2>3 DEF ExecCancelled
<1>12. ASSUME NEW r \in Runs,
              ExecEmits(r) \/ ReplayEnds(r) \/ AgentEnds(r) \/ ExecErrored(r) \/ ReportRaises(r)
       PROVE  Goal
  BY <1>2, <1>12 DEF ExecEmits, ReplayEnds, AgentEnds, ExecErrored, ReportRaises, stores
<1>13. ASSUME NEW c \in Cancellers,
              (\E r \in Runs : CancelRequest(c, r)) \/ CancelJoins(c) \/ CancelRaises(c)
       PROVE  Goal
  <2>1. ~CancelRaises(c)
    BY <1>1, RaiseEffect DEF CancelRaises
  <2>2. QED
    BY <1>2, <1>13, <2>1 DEF CancelRequest, CancelJoins, stores
<1>14. ASSUME NEW c \in Cancellers, CancelPersists(c) PROVE Goal
  <2>1. PICK r \in Runs : r = cancels[c].run
    BY <1>1, <1>14 DEF CancelPersists, CancelsInv, CancelInv
  <2>2. \/ UNCHANGED durable
        \/ durable[r] = "in_progress" /\ durable' = [durable EXCEPT ![r] = "cancelled"]
    BY <1>14, <2>1 DEF CancelPersists
  <2>3. UNCHANGED primary
    BY <1>14 DEF CancelPersists
  <2>4. QED
    BY <1>2, <2>2, <2>3, FinishStep DEF TerminalStatus
<1>15. ASSUME NEW c \in Cancellers, CancelPublished(c) PROVE Goal
  <2>1. cancels[c].run \in Runs /\ Final(cancels[c].event, cancels[c].run)
    BY <1>1, <1>15 DEF CancelPublished, CancelsInv, CancelInv
  <2>2. QED
    BY <1>3, <1>15, <2>1 DEF CancelPublished, Final
<1>16. ASSUME NEW a \in Attachers, NEW r \in Runs, AttachCheck(a, r) PROVE Goal
  BY <1>2, <1>16 DEF AttachCheck
<1>17. ASSUME NEW a \in Attachers, AttachPublished(a) PROVE Goal
  <2>1. attaches[a].run \in Runs /\ Final(attaches[a].event, attaches[a].run)
    BY <1>1, <1>17 DEF AttachPublished, AttachesInv, AttachInv
  <2>2. QED
    BY <1>3, <1>17, <2>1 DEF AttachPublished, Final
<1>18. ASSUME InterruptFails PROVE Goal
  <2>1. closer.run \in Runs
    BY <1>1, <1>18 DEF InterruptFails, CloserInv
  <2>2. /\ UNCHANGED primary
        /\ \/ UNCHANGED durable
           \/ /\ durable[closer.run] = "in_progress"
              /\ durable' = [durable EXCEPT ![closer.run] = "error"]
    BY <1>18 DEF InterruptFails
  <2>3. QED
    BY <1>2, <2>1, <2>2, FinishStep DEF TerminalStatus
<1>19. ASSUME InterruptPublished PROVE Goal
  <2>1. closer.run \in Runs /\ Final(closer.event, closer.run)
    BY <1>1, <1>19 DEF InterruptPublished, CloserInv
  <2>2. QED
    BY <1>3, <1>19, <2>1 DEF InterruptPublished, Final
<1>20. ASSUME Exit \/ Crash \/ WorkerTakes \/ WorkerJoins PROVE Goal
  BY <1>2, <1>20 DEF Exit, Crash, Leave, WorkerTakes, WorkerJoins, stores
<1>21. ASSUME \/ CloseBegins \/ CloseJoins \/ CloseTimesOut
              \/ \E r \in Runs : InterruptTakes(r)
              \/ InterruptRaises \/ InterruptBreaks \/ InterruptEnds
       PROVE  Goal
  <2>1. ~InterruptRaises
    BY <1>1, RaiseEffect DEF InterruptRaises
  <2>2. QED
    BY <1>2, <1>21, <2>1 DEF CloseBegins, CloseJoins, CloseTimesOut, InterruptTakes,
       InterruptBreaks, InterruptEnds, stores
<1>22. ASSUME UNCHANGED vars PROVE Goal
  BY <1>2, <1>22 DEF vars, stores
<1> HIDE DEF Goal
<1>23. ASSUME NEW r \in Runs,
              Execute(r) \/ FinalizationRaises(r) \/ ReportRaises(r)
       PROVE  Goal
  BY <1>8, <1>9, <1>10, <1>11, <1>12, <1>23 DEF Execute
<1>24. ASSUME NEW c \in Cancellers,
              \/ \E r \in Runs : CancelRequest(c, r)
              \/ CancelJoins(c) \/ CancelPersists(c) \/ CancelRaises(c) \/ CancelPublished(c)
       PROVE  Goal
  BY <1>13, <1>14, <1>15, <1>24
<1>25. ASSUME NEW a \in Attachers, (\E r \in Runs : AttachCheck(a, r)) \/ AttachPublished(a)
       PROVE  Goal
  BY <1>16, <1>17, <1>25
<1>26. Goal
  BY <1>6, <1>7, <1>18, <1>19, <1>20, <1>21, <1>22, <1>23, <1>24, <1>25 DEF Next
<1>27. QED
  BY <1>26 DEF Goal

\* Without database faults the manager implements RunLifecycle: a run is admitted once,
\* ends once, and run_end in Redis announces exactly that end after its commit.
THEOREM ManagerImplementsLifecycle ==
  ASSUME DbFaults = 0
  PROVE  Spec => ImplementsLifecycle
<1>1. Init => Lifecycle!Init
  <2> SUFFICES ASSUME Init PROVE Lifecycle!Init
    OBVIOUS
  <2>1. \A r \in Runs : primary[r] = <<>>
    BY DEF Init
  <2>2. \A r \in Runs : Announcement(r) = "none"
    BY <2>1 DEF Announcement, Range
  <2>3. QED
    BY <2>2 DEF Lifecycle!Init, Init
<1>2. ManagerInv /\ ManagerInv' /\ [Next]_vars => [Lifecycle!Next]_<<durable, Announced>>
  <2> SUFFICES ASSUME ManagerInv, ManagerInv', [Next]_vars
               PROVE  Lifecycle!Next \/ UNCHANGED <<durable, Announced>>
    OBVIOUS
  <2>1. budget.db = DbFaults /\ budget'.db = DbFaults
    BY DEF ManagerInv, SafeInv, TypeInv
  <2>2. QED
    BY <2>1, LifecycleStep
<1>3. QED
  BY <1>1, <1>2, ManagerInvariant, PTL DEF Spec, ImplementsLifecycle, Lifecycle!Spec, Announced
=============================================================================
