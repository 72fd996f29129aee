----------------------------- MODULE ChatClient -----------------------------
(***************************************************************************)
(* The chat of one browser tab: useResearchChat (send, stop, thread        *)
(* selection, transcript reconciliation), streamMessage and attachEvents   *)
(* of api/client.ts, reduceRunEvent of chat/events.ts.                     *)
(*                                                                         *)
(* The server is what the run manager promises: it admits one run at a     *)
(* time per thread, numbers its events 1, 2, ..., ends each run with       *)
(* run_end and serves the transcript.  The network loses requests, closes  *)
(* streams and breaks them.  React Query is external: one fetch per key is *)
(* in flight, later callers join it, and its data outlives a failed fetch. *)
(***************************************************************************)
EXTENDS Naturals, Sequences, FiniteSets, SequencesExt

CONSTANTS Threads,    \* thread ids, in the order the server assigns them
          MaxSends,   \* bound: messages sent
          MaxChunks,  \* bound: events of a run between metadata and run_end
          MaxBreaks,  \* bound: requests and streams the network fails
          Asked,      \* a fetch that is not answered yet
          None

ASSUME ChatAssumption ==
    /\ MaxSends \in Nat /\ MaxChunks \in Nat /\ MaxBreaks \in Nat
    /\ Threads # {} /\ None \notin Threads \cup {Asked}
    /\ None \notin Seq([run : Nat, status : {"in_progress", "completed", "failed", "cancelled"}])

VARIABLES
    runs,      \* server: the admitted runs, [thread, status, events]
    thread,    \* selectedThread
    view,      \* turns: [run, status, events], run 0 before acceptance
    cached,    \* turnCache
    send,      \* the message being sent: pc, target, run, last event id, cursor;
               \* thrown is a history variable: an attachment ended in an exception
    data,      \* React Query: the transcript held for each thread
    inflight,  \* React Query: the fetch for the selected thread
    sent,      \* messages sent
    breaks     \* failures so far

vars == <<runs, thread, view, cached, send, data, inflight, sent, breaks>>
client == <<thread, view, cached, send, data, inflight, sent>>

Idle == [pc |-> "idle", target |-> None, run |-> 0, last |-> 0, cursor |-> 0, known |-> FALSE,
         thrown |-> FALSE]
Streaming == send.pc # "idle"

Final == {"completed", "failed", "cancelled"}
Active(t) == {r \in DOMAIN runs : runs[r].thread = t /\ runs[r].status = "in_progress"}

\* Events 1..n of a run: metadata, then chunks, then run_end when it is final.
IsRunEnd(r, i) == runs[r].status \in Final /\ i = runs[r].events

\* The run that comes i-th in a set of runs.
Nth(own, i) == CHOOSE r \in own : Cardinality({q \in own : q <= r}) = i

\* What GET /threads/{id}/messages answers: the runs of the thread, in order.
Transcript(t) ==
    LET own == {r \in DOMAIN runs : runs[r].thread = t}
    IN [i \in 1..Cardinality(own) |->
            [run |-> Nth(own, i), status |-> runs[Nth(own, i)].status]]

Stored == None  \* the answer of the transcript, instead of reduced events

Init ==
    /\ \E t \in Threads, opened \in BOOLEAN :
          /\ runs = <<[thread |-> t, status |-> "completed", events |-> 2]>>
          /\ thread = IF opened THEN t ELSE None
    /\ view = <<>>
    /\ cached = [t \in Threads |-> <<>>]
    /\ send = Idle
    /\ data = [t \in Threads |-> None]
    /\ inflight = None
    /\ sent = 0
    /\ breaks = 0

Fails == breaks < MaxBreaks /\ breaks' = breaks + 1
Holds == UNCHANGED breaks

-----------------------------------------------------------------------------
\* The server at work on a run.
ServerEmits(r) ==
    /\ runs[r].status = "in_progress" /\ runs[r].events <= MaxChunks
    /\ runs' = [runs EXCEPT ![r].events = @ + 1]
    /\ UNCHANGED <<client, breaks>>

RunEnds(r, status) ==
    runs' = [runs EXCEPT ![r].status = status, ![r].events = @ + 1]

ServerEnds(r, status) ==
    /\ runs[r].status = "in_progress"
    /\ RunEnds(r, status)
    /\ UNCHANGED <<client, breaks>>

-----------------------------------------------------------------------------
\* Mutant: every stored turn keeps what was streamed live.
ReconcileAll(stored, live) ==
    [i \in DOMAIN stored |->
        LET match == {j \in DOMAIN live : live[j].run = stored[i].run} IN
        [run |-> stored[i].run, status |-> stored[i].status,
         events |-> IF match = {} THEN Stored ELSE live[CHOOSE j \in match : TRUE].events]]

\* reconcileTranscript: the stored turns, a cancelled one with the events that
\* were reduced live.
Reconcile(stored, live) ==
    [i \in DOMAIN stored |->
        LET match == {j \in DOMAIN live : live[j].run = stored[i].run} IN
        [run |-> stored[i].run, status |-> stored[i].status,
         events |-> IF stored[i].status # "cancelled" \/ match = {} THEN Stored
                    ELSE live[CHOOSE j \in match : \A k \in match : j <= k].events]]

\* React commits: turnCache follows the turns of the selected thread.
Shows(t, turns) ==
    /\ thread' = t
    /\ view' = turns
    /\ cached' = IF t = None THEN cached ELSE [cached EXCEPT ![t] = turns]

\* The effect on [streaming, transcriptQuery.data], when nothing streams.
Effect(t, transcripts, turns) ==
    IF t = None \/ transcripts[t] = None THEN turns ELSE Reconcile(transcripts[t], turns)

\* openThread and newThread: selecting another key ends the fetch of the last.
OpenThread(t) ==
    /\ ~Streaming /\ Transcript(t) # <<>>
    /\ Shows(t, Effect(t, data, cached[t]))
    /\ inflight' = IF t = thread THEN inflight ELSE None
    /\ UNCHANGED <<runs, send, data, sent, breaks>>

\* Mutant: the fetch of the thread that was left goes on.
NewThreadFetching ==
    /\ ~Streaming
    /\ Shows(None, <<>>)
    /\ UNCHANGED <<runs, send, data, inflight, sent, breaks>>

NewThread ==
    /\ ~Streaming
    /\ Shows(None, <<>>)
    /\ inflight' = None
    /\ UNCHANGED <<runs, send, data, sent, breaks>>

\* transcriptQuery is enabled: it may fetch, the server answers, and the answer
\* arrives; or it does not.
Fetch ==
    /\ ~Streaming /\ thread # None /\ inflight = None
    /\ inflight' = Asked
    /\ UNCHANGED <<runs, thread, view, cached, send, data, sent, breaks>>

FetchAnswered ==
    /\ inflight = Asked
    /\ inflight' = Transcript(thread)
    /\ UNCHANGED <<runs, thread, view, cached, send, data, sent, breaks>>

\* send is over: finally, then the effect on streaming.
Finish(t, transcripts, turns) ==
    /\ send' = Idle
    /\ data' = transcripts
    /\ Shows(t, Effect(t, transcripts, turns))

\* The transcript arrives; a send that waits for it ends.
FetchArrives ==
    /\ inflight \notin {None, Asked}
    /\ LET transcripts == [data EXCEPT ![thread] = inflight] IN
       IF send.pc \in {"idle", "reloading"}
       THEN Finish(thread, transcripts, view)
       ELSE data' = transcripts /\ UNCHANGED <<thread, view, cached, send>>
    /\ inflight' = None
    /\ UNCHANGED <<runs, sent, breaks>>

FetchFails ==
    /\ inflight # None /\ Fails
    /\ inflight' = None
    /\ IF send.pc = "reloading" THEN Finish(thread, data, view)
       ELSE UNCHANGED <<thread, view, cached, send, data>>
    /\ UNCHANGED <<runs, sent>>

-----------------------------------------------------------------------------
\* send: an optimistic turn, and the POST goes out.
Send(newThread) ==
    /\ ~Streaming /\ sent < MaxSends
    /\ LET t == IF newThread THEN None ELSE thread
           turns == IF newThread THEN <<>> ELSE view
       IN /\ t = None => \E free \in Threads : Transcript(free) = <<>>
          /\ Shows(t, Append(turns, [run |-> 0, status |-> "in_progress", events |-> <<>>]))
          /\ send' = [Idle EXCEPT !.pc = "posting", !.target = t]
          /\ inflight' = IF t = thread THEN inflight ELSE None
    /\ sent' = sent + 1
    /\ UNCHANGED <<runs, data, breaks>>

NextThread == CHOOSE t \in Threads : Transcript(t) = <<>>

\* The server admits the run, into a new thread if none is named.
Admit ==
    /\ send.pc = "posting" /\ send.run = 0
    /\ LET t == IF send.target = None THEN NextThread ELSE send.target IN
       /\ Active(t) = {}
       /\ runs' = Append(runs, [thread |-> t, status |-> "in_progress", events |-> 1])
       /\ send' = [send EXCEPT !.run = Len(runs) + 1, !.target = t]
    /\ UNCHANGED <<thread, view, cached, data, inflight, sent, breaks>>

\* 202: onAccepted gives the optimistic turn its run.
Accepted ==
    /\ send.pc = "posting" /\ send.run # 0
    /\ send' = [send EXCEPT !.pc = "attach", !.known = TRUE]
    /\ Shows(send.target, [i \in DOMAIN view |->
            IF view[i].run = 0 /\ i = Len(view) THEN [view[i] EXCEPT !.run = send.run] ELSE view[i]])
    /\ UNCHANGED <<runs, data, inflight, sent, breaks>>

\* catch: the optimistic turn and whatever is in progress becomes an error.
Errored == [i \in DOMAIN view |->
    IF view[i].status = "in_progress" THEN [view[i] EXCEPT !.status = "error"] ELSE view[i]]

\* The POST fails: 409 while a run of the thread is active, no answer, or an
\* error after the server admitted the run.
PostFails ==
    /\ send.pc = "posting"
    /\ IF send.run = 0 /\ send.target # None /\ Active(send.target) # {} THEN Holds ELSE Fails
    /\ Finish(thread, data, Errored)
    /\ UNCHANGED <<runs, inflight, sent>>

\* GET events with Last-Event-ID: the stream starts after it.
Attach ==
    /\ send.pc = "attach"
    /\ send' = [send EXCEPT !.pc = "reading", !.cursor = send.last]
    /\ UNCHANGED <<runs, thread, view, cached, data, inflight, sent, breaks>>

\* No answer, 429 or 5xx: another attempt after a delay.
AttachFails ==
    /\ send.pc = "attach" /\ Fails
    /\ UNCHANGED <<runs, client>>

\* Any other 4xx gives the stream up, whatever the run is doing: events that
\* expired (404), a session that ended (401), a malformed cursor.
AttachRefused ==
    /\ send.pc = "attach" /\ Fails
    /\ Finish(thread, data, Errored)
    /\ UNCHANGED <<runs, inflight, sent>>

\* reduceRunEvent: metadata and chunks are added to the turn, run_end settles it.
Reduced(turn, i) ==
    [turn EXCEPT !.events = Append(@, i),
                 !.status = IF IsRunEnd(send.run, i) THEN runs[send.run].status ELSE @]

\* Mutant: run_end does not end the attachment.
ReceiveOn(i) ==
    /\ send' = [send EXCEPT !.cursor = i]
    /\ Shows(thread, [j \in DOMAIN view |->
            IF view[j].run = send.run THEN Reduced(view[j], i) ELSE view[j]])

\* An event is parsed and reduced into the turn of its run.
Receive(i) ==
    /\ send' = [send EXCEPT !.cursor = i,
                            !.pc = IF IsRunEnd(send.run, i) THEN "reload" ELSE @]
    /\ Shows(thread, [j \in DOMAIN view |->
            IF view[j].run = send.run THEN Reduced(view[j], i) ELSE view[j]])

NextEvent ==
    /\ send.pc = "reading" /\ send.cursor < runs[send.run].events
    /\ Receive(send.cursor + 1)
    /\ UNCHANGED <<runs, data, inflight, sent, breaks>>

\* Mutant: the cursor is not remembered.
CursorForgotten == send.last

\* attachEvents returns the greatest event id it reduced.
Remembered == send.cursor

\* The stream is closed: attachEvents returns, the next one continues from there.
StreamCloses ==
    /\ send.pc = "reading" /\ Fails
    /\ send' = [send EXCEPT !.pc = "attach", !.last = Remembered]
    /\ UNCHANGED <<runs, thread, view, cached, data, inflight, sent>>

\* The read throws: what attachEvents had counted is lost with its frame, and
\* the next one starts from the last cursor that was returned.
StreamBreaks ==
    /\ send.pc = "reading" /\ Fails
    /\ send' = [send EXCEPT !.pc = "attach", !.thrown = TRUE]
    /\ UNCHANGED <<runs, thread, view, cached, data, inflight, sent>>

\* fetchQuery: joins the fetch in flight, or asks.
Reload ==
    /\ send.pc = "reload"
    /\ send' = [send EXCEPT !.pc = "reloading"]
    /\ inflight' = IF inflight = None THEN Asked ELSE inflight
    /\ UNCHANGED <<runs, thread, view, cached, data, sent, breaks>>

\* stop: before acceptance the request is aborted; the server may have admitted
\* the run nevertheless.
StopAborts ==
    /\ send.pc = "posting"
    /\ Finish(thread, data, Errored)
    /\ UNCHANGED <<runs, inflight, sent, breaks>>

\* stop: after acceptance the run is cancelled on the server; the stream goes
\* on until run_end.  A final run answers 409.
StopCancels ==
    /\ Streaming /\ send.known
    /\ runs[send.run].status = "in_progress"
    /\ RunEnds(send.run, "cancelled")
    /\ UNCHANGED <<client, breaks>>

Server == \E r \in DOMAIN runs, status \in {"completed", "failed"} : ServerEnds(r, status)

Progress ==
    \/ Admit \/ Accepted \/ PostFails
    \/ Attach \/ NextEvent \/ Reload
    \/ FetchAnswered \/ FetchArrives

Next ==
    \/ \E r \in DOMAIN runs : ServerEmits(r)
    \/ Server \/ Progress
    \/ \E t \in Threads : OpenThread(t)
    \/ NewThread
    \/ Fetch \/ FetchFails
    \/ \E new \in BOOLEAN : Send(new)
    \/ AttachFails \/ AttachRefused \/ StreamCloses \/ StreamBreaks
    \/ StopAborts \/ StopCancels

\* The run manager ends every run it admits; requests are answered or fail.
Spec == Init /\ [][Next]_vars
FairSpec == Spec /\ WF_vars(Server) /\ WF_vars(Progress)
-----------------------------------------------------------------------------
\* The client's records are in their declared states.
ChatTypeOK ==
    /\ thread \in Threads \cup {None}
    /\ send.pc \in {"idle", "posting", "attach", "reading", "reload", "reloading"}
    /\ send.last <= send.cursor \/ send.pc = "attach"
    /\ send.known => thread = send.target /\ send.run \in DOMAIN runs
    /\ inflight # None => thread # None
    /\ \A i \in DOMAIN view : view[i].run \in 0..Len(runs)

Prefix(n) == [i \in 1..n |-> i]

\* What streams into a turn is the run it belongs to, from the first event on
\* and without a gap, across any number of attachments; every event is reduced
\* once unless an attachment ended in an exception; and the turn settles with
\* its last event and the status of the run.
EventsReducedInOrder ==
    send.known =>
        LET turn == view[Len(view)]
            n == Len(turn.events)
        IN /\ turn.run = send.run
           /\ \A i \in 1..(Len(view) - 1) : view[i].run # send.run
           /\ ToSet(turn.events) = 1..Cardinality(ToSet(turn.events))
           /\ ~send.thrown => turn.events = Prefix(n)
           /\ send.pc \in {"reload", "reloading"} =>
                 /\ turn.events[n] = runs[send.run].events
                 /\ turn.status = runs[send.run].status

\* Once the current transcript has been loaded and nothing streams, the view is
\* the transcript: a turn per run in order, whatever was sent, stopped, refused
\* or interrupted before; answers are the stored ones, except that a cancelled
\* turn may keep what was streamed.
ViewShowsTranscript ==
    ~Streaming /\ thread # None /\ data[thread] = Transcript(thread) =>
        /\ Len(view) = Len(data[thread])
        /\ \A i \in DOMAIN view :
              /\ view[i].run = data[thread][i].run
              /\ view[i].status = data[thread][i].status
              /\ view[i].events = Stored \/ view[i].status = "cancelled"

\* The composer never stays locked: a send ends, however often its streams
\* close, break or are refused.
StreamingEnds == Streaming ~> ~Streaming
=============================================================================
