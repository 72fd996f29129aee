--------------------------- MODULE RunEventStore ---------------------------
(***************************************************************************)
(* ResilientRunEventStore in one process: every event is written to a      *)
(* bounded local replay buffer (InMemoryRunEventStore) and then published  *)
(* to a Redis stream; readers follow one of the two, chosen when they      *)
(* attach.  A publication that fails or times out marks its run degraded,  *)
(* and new readers of a degraded run use the local buffer.                 *)
(*                                                                         *)
(* A run's events come from one producer, one at a time, numbered from 1.  *)
(* Replayed runs have a finished stream in Redis already: their events are *)
(* the synthetic stream of an idempotent replay.                           *)
(***************************************************************************)
EXTENDS Naturals, FiniteSets, Sequences, SequencesExt

CONSTANTS Runs,
          Readers,     \* attachments: a client that reconnects is a reader of its own
          None,
          MaxStreams,  \* max_buffered_runs
          MaxEvents,   \* max_buffered_events_per_run
          MaxLive,     \* runs that publish at the same time
          Replayed,    \* runs whose first stream is in Redis already
          MaxId,       \* bound: events of a run
          Failures     \* bound: publications to Redis that fail or time out

ASSUME StoreAssumption ==
    /\ {MaxStreams, MaxEvents, MaxLive, MaxId} \subseteq Nat \ {0}
    /\ Failures \in Nat
    /\ Replayed \subseteq Runs
    /\ Replayed # {} => MaxId > 1
    /\ None \notin [id : 1..MaxId, end : BOOLEAN]

VARIABLES primary,   \* the Redis stream of each run
          streams,   \* the buffered stream of each run in `order`
          order,     \* runs with a buffered stream, least recently used first
          degraded,  \* _degraded_runs, oldest first
          produced,  \* what each run's producer has handed to publish
          pending,   \* the event whose primary publication is awaited
          readers,
          budget,
          failed     \* history: runs that have been degraded

vars == <<primary, streams, order, degraded, produced, pending, readers, budget, failed>>

NoStream == [events |-> <<>>, terminal |-> FALSE]
NoReader == [pc |-> "idle", run |-> None, source |-> "none", after |-> 0, cursor |-> 0,
             got |-> <<>>, orphan |-> NoStream]

OldStream == <<[id |-> 1, end |-> FALSE], [id |-> 2, end |-> TRUE]>>

Init ==
    /\ primary = [r \in Runs |-> IF r \in Replayed THEN OldStream ELSE <<>>]
    /\ streams = [r \in Runs |-> NoStream]
    /\ order = <<>>
    /\ degraded = <<>>
    /\ produced = [r \in Runs |-> [last |-> 0, ended |-> FALSE]]
    /\ pending = [r \in Runs |-> None]
    /\ readers = [x \in Readers |-> NoReader]
    /\ budget = Failures
    /\ failed = {}

Buffered(r) == r \in Range(order)
Live == {r \in Runs : produced[r].last > 0 /\ ~produced[r].ended}
LastId(events) == IF events = <<>> THEN 0 ELSE Last(events).id
Ended(events) == events # <<>> /\ Last(events).end

-----------------------------------------------------------------------------
\* _stream(): the run's stream, made the most recently used one.  A new stream
\* in a full buffer evicts the oldest finished one, or else the oldest.
VictimOldest == Head(order)  \* mutant: a live stream may be evicted

Victim ==
    LET finished == SelectInSeq(order, LAMBDA r : streams[r].terminal)
    IN IF finished = 0 THEN Head(order) ELSE order[finished]

Evicts(r) == ~Buffered(r) /\ Len(order) >= MaxStreams

\* The buffer after _stream(r); readers of an evicted stream keep the object.
Opened(r) == IF Evicts(r) THEN [streams EXCEPT ![Victim] = NoStream] ELSE streams

OpenStream(r) ==
    order' = Append(RemoveFirst(order, IF Evicts(r) THEN Victim ELSE r), r)

Orphaned(r) ==
    [x \in Readers |->
        IF Evicts(r) /\ readers[x].source = "local" /\ readers[x].run = Victim
        THEN [readers[x] EXCEPT !.source = "orphan", !.orphan = streams[Victim]]
        ELSE readers[x]]

\* Mutants: a full stream takes no further event; a stream is never trimmed.
BufferedUntilFull(s, e) ==
    IF s.terminal \/ Len(s.events) = MaxEvents THEN s
    ELSE [events |-> Append(s.events, e), terminal |-> e.end]

BufferedUntrimmed(s, e) ==
    IF s.terminal THEN s
    ELSE [events |-> Append(s.events, e), terminal |-> e.end]

\* An event after run_end is ignored; the oldest events go when there are too many.
WithEvent(s, e) ==
    IF s.terminal THEN s
    ELSE LET all == Append(s.events, e)
         IN [events |-> IF Len(all) > MaxEvents THEN Tail(all) ELSE all, terminal |-> e.end]

\* publish(), up to the await of the primary publication.
Publish(r, end) ==
    LET e == [id |-> produced[r].last + 1, end |-> end] IN
    /\ pending[r] = None
    /\ ~produced[r].ended
    /\ e.id <= MaxId /\ (e.id = MaxId => end)
    /\ r \in Live \/ Cardinality(Live) < MaxLive
    /\ produced' = [produced EXCEPT ![r] = [last |-> e.id, ended |-> end]]
    /\ pending' = [pending EXCEPT ![r] = e]
    /\ OpenStream(r)
    /\ streams' = [Opened(r) EXCEPT ![r] = WithEvent(@, e)]
    /\ readers' = Orphaned(r)
    /\ UNCHANGED <<primary, degraded, budget, failed>>

\* XADD takes an entry only above the newest one of the stream.
Accepts(r) == LastId(primary[r]) < pending[r].id
Accepted(r) == IF Accepts(r) THEN [primary EXCEPT ![r] = Append(@, pending[r])] ELSE primary

\* _mark_degraded: most recent last, the oldest forgotten beyond the limit.
MarkDegraded(r) ==
    LET marked == Append(RemoveFirst(degraded, r), r)
    IN /\ degraded' = IF Len(marked) > MaxStreams THEN Tail(marked) ELSE marked
       /\ failed' = failed \cup {r}

PublicationSucceeds(r) ==
    /\ pending[r] # None /\ Accepts(r)
    /\ primary' = Accepted(r)
    /\ pending' = [pending EXCEPT ![r] = None]
    /\ UNCHANGED <<streams, order, degraded, produced, readers, budget, failed>>

\* Mutant: a refused or failed publication is only logged.
PublicationFailsSilently(r) ==
    /\ pending[r] # None
    /\ \/ ~Accepts(r) /\ UNCHANGED <<primary, budget>>
       \/ /\ budget > 0
          /\ budget' = budget - 1
          /\ primary' \in {primary, Accepted(r)}
    /\ pending' = [pending EXCEPT ![r] = None]
    /\ UNCHANGED <<streams, order, degraded, produced, readers, failed>>

\* Redis refuses the entry, is unreachable, or answers too late.
PublicationFails(r) ==
    /\ pending[r] # None
    /\ \/ ~Accepts(r) /\ UNCHANGED <<primary, budget>>
       \/ /\ budget > 0
          /\ budget' = budget - 1
          /\ primary' \in {primary, Accepted(r)}
    /\ MarkDegraded(r)
    /\ pending' = [pending EXCEPT ![r] = None]
    /\ UNCHANGED <<streams, order, produced, readers>>

\* The Redis stream of a finished run expires, long after its readers are gone.
Expire(r) ==
    /\ produced[r].ended /\ pending[r] = None /\ primary[r] # <<>>
    /\ \A x \in Readers : readers[x].pc = "reading" => readers[x].run # r
    /\ primary' = [primary EXCEPT ![r] = <<>>]
    /\ UNCHANGED <<streams, order, degraded, produced, pending, readers, budget, failed>>

-----------------------------------------------------------------------------
\* latest(): what ensure_events_available decides on.
Latest(r) ==
    IF r \in Range(degraded) \/ primary[r] = <<>>
    THEN IF Buffered(r) THEN streams[r].events ELSE <<>>
    ELSE primary[r]

\* events() after ensure_events_available: a finished run without events left
\* is answered 404; a degraded run is read from the buffer, others from Redis.
\* (latest() refreshes the buffered stream it answers from.)  A client's
\* Last-Event-ID is one it was sent, hence in Redis or once buffered.
Attach(x, r, after) ==
    /\ readers[x].pc = "idle"
    /\ after <= LastId(primary[r]) \/ (r \in failed /\ after <= produced[r].last)
    /\ produced[r].ended => Latest(r) # <<>>
    /\ LET reader == [NoReader EXCEPT !.pc = "reading", !.run = r, !.after = after,
                                      !.cursor = after]
       IN IF r \in Range(degraded)
          THEN /\ OpenStream(r)
               /\ streams' = Opened(r)
               /\ readers' = [Orphaned(r) EXCEPT ![x] = [reader EXCEPT !.source = "local"]]
          ELSE /\ readers' = [readers EXCEPT ![x] =
                     [reader EXCEPT !.source = "primary",
                        !.pc = IF Ended(primary[r]) /\ LastId(primary[r]) <= after
                               THEN "done" ELSE "reading"]]
               /\ order' = IF produced[r].ended /\ primary[r] = <<>>
                           THEN Append(RemoveFirst(order, r), r) ELSE order
               /\ UNCHANGED streams
    /\ UNCHANGED <<primary, degraded, produced, pending, budget, failed>>

\* What a reader finds beyond its cursor (the ids of a stream increase), and
\* whether nothing follows: a reader of Redis stops at the first run_end, one of
\* the buffer at a finished stream.
Beyond(events, cursor) ==
    LET first == SelectInSeq(events, LAMBDA e : e.id > cursor)
    IN IF first = 0 THEN <<>> ELSE SubSeq(events, first, Len(events))
ToTheEnd(events) ==
    LET end == SelectInSeq(events, LAMBDA e : e.end)
    IN IF end = 0 THEN events ELSE SubSeq(events, 1, end)

Followed(x) ==
    IF readers[x].source = "orphan" THEN readers[x].orphan ELSE streams[readers[x].run]

Found(x) ==
    IF readers[x].source = "primary"
    THEN ToTheEnd(Beyond(primary[readers[x].run], readers[x].cursor))
    ELSE Beyond(Followed(x).events, readers[x].cursor)

Finished(x) ==
    IF readers[x].source = "primary" THEN Ended(Found(x)) ELSE Followed(x).terminal

\* Mutants: only the first of the events found is delivered; the cursor stays.
ReadFirst(x) ==
    /\ readers[x].pc = "reading"
    /\ Found(x) # <<>> \/ Finished(x)
    /\ readers' = [readers EXCEPT
         ![x].got = IF Found(x) = <<>> THEN @ ELSE Append(@, Head(Found(x))),
         ![x].cursor = IF Found(x) = <<>> THEN @ ELSE LastId(Found(x)),
         ![x].pc = IF Finished(x) THEN "done" ELSE "reading"]
    /\ UNCHANGED <<primary, streams, order, degraded, produced, pending, budget, failed>>

ReadKeepsCursor(x) ==
    /\ readers[x].pc = "reading"
    /\ Found(x) # <<>> \/ Finished(x)
    /\ readers' = [readers EXCEPT
         ![x].got = @ \o Found(x),
         ![x].pc = IF Finished(x) THEN "done" ELSE "reading"]
    /\ Len(readers[x].got) < MaxId + 2
    /\ UNCHANGED <<primary, streams, order, degraded, produced, pending, budget, failed>>

\* A waiting reader is woken, or its XREAD returns, and it yields what it found.
Read(x) ==
    /\ readers[x].pc = "reading"
    /\ Found(x) # <<>> \/ Finished(x)
    /\ readers' = [readers EXCEPT
         ![x].got = @ \o Found(x),
         ![x].cursor = IF Found(x) = <<>> THEN @ ELSE LastId(Found(x)),
         ![x].pc = IF Finished(x) THEN "done" ELSE "reading"]
    /\ UNCHANGED <<primary, streams, order, degraded, produced, pending, budget, failed>>

Next ==
    \/ \E r \in Runs, end \in BOOLEAN : Publish(r, end)
    \/ \E r \in Runs : PublicationSucceeds(r) \/ PublicationFails(r) \/ Expire(r)
    \/ \E x \in Readers, r \in Runs, after \in 0..MaxId : Attach(x, r, after)
    \/ \E x \in Readers : Read(x)

Spec == Init /\ [][Next]_vars

-----------------------------------------------------------------------------
\* Event records, the reader records and the two bounded collections have their
\* declared shape; the ids of a stream increase; a stream that is not buffered
\* has no events.
Increase(events) == \A i, j \in DOMAIN events : i < j => events[i].id < events[j].id

StoreTypeOK ==
    /\ \A r \in Runs : \A e \in Range(primary[r]) \cup Range(streams[r].events) :
          e \in [id : 1..MaxId, end : BOOLEAN]
    /\ \A r \in Runs : Increase(primary[r]) /\ Increase(streams[r].events)
    /\ IsInjective(order) /\ Len(order) <= MaxStreams
    /\ IsInjective(degraded) /\ Len(degraded) <= MaxStreams
    /\ \A r \in Runs : /\ Len(streams[r].events) <= MaxEvents
                       /\ ~Buffered(r) => streams[r] = NoStream
    /\ \A x \in Readers : /\ readers[x].pc \in {"idle", "reading", "done"}
                          /\ readers[x].source \in {"none", "primary", "local", "orphan"}

\* No more runs publish at a time than the buffer holds streams.
BufferSuffices == MaxLive <= MaxStreams

\* A reader that came to the end of its stream was sent every event after its
\* Last-Event-ID, without a gap, up to run_end.  Exempt are readers who follow
\* Redis for a run whose publications failed, and those of the buffer of a run
\* that outgrew it or of a buffer that does not suffice; an eviction of the
\* stream under the reader is no excuse.
FinishedReadersMissNothing ==
    \A x \in Readers :
        LET reader == readers[x] IN
        /\ reader.pc = "done"
        /\ reader.source = "primary" => reader.run \notin failed
        /\ reader.source # "primary" =>
              BufferSuffices /\ produced[reader.run].last <= MaxEvents
        => /\ \A i \in DOMAIN reader.got : reader.got[i].id = reader.after + i
           /\ reader.got # <<>> => Last(reader.got).end

\* Whatever failed, no reader is sent an event twice, out of order, or at or
\* below its Last-Event-ID, and nothing after run_end.
DeliveriesIncrease ==
    \A x \in Readers :
        LET got == readers[x].got IN
        \A i \in DOMAIN got :
            /\ got[i].id > (IF i = 1 THEN readers[x].after ELSE got[i - 1].id)
            /\ got[i].end => i = Len(got)

\* As long as no more runs publish at a time than the buffer holds streams, a
\* live run is never evicted: the buffer has its newest events, up to MaxEvents,
\* for a reader that attaches after Redis failed.
LiveStreamsRetained ==
    BufferSuffices =>
        \A r \in Live :
            /\ Buffered(r)
            /\ LET events == streams[r].events IN
               /\ LastId(events) = produced[r].last
               /\ Len(events) = IF produced[r].last < MaxEvents THEN produced[r].last ELSE MaxEvents

\* A reader gets each event at most once and in order, and one that came to the
\* end got them all, but for those whom FinishedReadersMissNothing exempts.
ReadersMissNothing == FinishedReadersMissNothing /\ DeliveriesIncrease

\* The buffer keeps to its limits, and never at the cost of a run that is live.
BufferIsBounded == StoreTypeOK /\ LiveStreamsRetained

\* Once run_end has been published, latest() finds it or nothing, never an older
\* event, unless so many runs failed since that this one's degradation was
\* forgotten.
LatestShowsTheEnd ==
    \A r \in Runs :
        produced[r].ended /\ pending[r] = None /\ (r \in failed => r \in Range(degraded))
        => Latest(r) = <<>> \/ Ended(Latest(r))

\* Nobody waits for ever: once the run_end of its run has been published, a
\* reader that has not come to the end finds something to read.  Exempt are those
\* who follow Redis for a run whose publications failed, or that attached to it
\* after the stream had expired, and those whose stream was evicted from a buffer
\* that does not suffice.
ReadersReachTheEnd ==
    \A x \in Readers :
        LET r == readers[x].run IN
        /\ readers[x].pc = "reading"
        /\ produced[r].ended /\ pending[r] = None
        /\ readers[x].source = "primary" => r \notin failed /\ primary[r] # <<>>
        /\ readers[x].source = "orphan" => BufferSuffices
        => Found(x) # <<>> \/ Finished(x)

\* The end of a run is hidden neither from the replay check that asks for the
\* latest event nor from the readers that wait, with the exemptions of both parts:
\* forgotten degradations; readers who follow Redis for a run whose publications
\* failed or whose stream had expired; and evictions from a buffer too small.
EndIsNeverHidden == LatestShowsTheEnd /\ ReadersReachTheEnd

\* "After expiration [...] the events endpoint returns 404 for a terminal run":
\* nobody is attached to the expired Redis stream of a finished run.
ExpiredStreamsAreRefused ==
    \A x \in Readers :
        LET r == readers[x].run IN
        /\ readers[x].pc = "reading" /\ readers[x].source = "primary"
        /\ produced[r].ended /\ pending[r] = None /\ r \notin failed
        => primary[r] # <<>>
=============================================================================
