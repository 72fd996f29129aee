-------------------------- MODULE ChatClientProofs --------------------------
(***************************************************************************)
(* The chat of a browser tab for any number of threads, messages, events   *)
(* and failures: what streams into a turn is its run, in order and from    *)
(* the first event on, and once nothing streams the view is the transcript.*)
(*                                                                         *)
(* The inductive invariant ChatInv says, per state of a send, what its     *)
(* turn has been told of the run (SendOK), and that with nothing to stream *)
(* the view agrees with whatever transcript React Query holds (ViewOK).    *)
(***************************************************************************)
EXTENDS ChatClient, WellFoundedInduction, SequenceTheorems, FiniteSetTheorems, TLAPS

Pcs == {"idle", "posting", "attach", "reading", "reload", "reloading"}
Statuses == {"in_progress", "error"} \cup Final

Run == [thread : Threads, status : {"in_progress"} \cup Final, events : Nat]
Turn == [run : Nat, status : Statuses, events : Seq(Nat) \cup {Stored}]
Row == [run : Nat, status : {"in_progress"} \cup Final]
Sending == [pc : Pcs, target : Threads \cup {None}, run : Nat, last : Nat, cursor : Nat,
            known : BOOLEAN, thrown : BOOLEAN]

Shape ==
    /\ runs \in Seq(Run)
    /\ thread \in Threads \cup {None}
    /\ view \in Seq(Turn)
    /\ cached \in [Threads -> Seq(Turn)]
    /\ send \in Sending
    /\ data \in [Threads -> Seq(Row) \cup {None}]
    /\ inflight \in Seq(Row) \cup {None, Asked}

\* The runs that are shown exist among the n admitted; 0 is a turn without one.
TurnsOK(turns, n) == \A i \in DOMAIN turns : turns[i].run \in 0..n
RowsOK(rows, n) == \A i \in DOMAIN rows : rows[i].run \in 1..n

RunsExist ==
    /\ TurnsOK(view, Len(runs))
    /\ \A t \in Threads : TurnsOK(cached[t], Len(runs))
    /\ \A t \in Threads : data[t] # None => RowsOK(data[t], Len(runs))
    /\ inflight \notin {None, Asked} => RowsOK(inflight, Len(runs))

\* The turn of the send is the last one of the view, and the only one of its run.
OnlyTurn(turns, r) == \A i \in 1..(Len(turns) - 1) : turns[i].run # r

\* What was reduced into a turn: the first h events of its run; with s the send
\* whose attachments stream into it.
Reduces(events, s) ==
    /\ events \in Seq(Nat)
    /\ \E h \in 0..Len(events) :
         /\ ToSet(events) = 1..h
         /\ s.cursor <= h /\ s.last <= h
         /\ ~s.thrown =>
              /\ events = Prefix(h)
              /\ s.pc = "reading" => s.cursor = h
              /\ s.pc = "attach" => s.last = h

\* The runs of a thread.
Own(t) == {r \in DOMAIN runs : runs[r].thread = t}

Posting(s, turns) ==
    /\ ~s.known /\ ~s.thrown /\ s.last = 0 /\ s.cursor = 0
    /\ turns # <<>>
    /\ turns[Len(turns)] = [run |-> 0, status |-> "in_progress", events |-> <<>>]
    /\ s.run = 0 => /\ s.target = thread
                    /\ s.target = None => \E free \in Threads : Own(free) = {}
    /\ s.run # 0 => /\ s.run \in DOMAIN runs /\ s.target \in Threads
                    /\ OnlyTurn(turns, s.run)

Following(s, turns) ==
    /\ s.known /\ thread = s.target /\ s.target \in Threads /\ s.run \in DOMAIN runs
    /\ turns # <<>> /\ turns[Len(turns)].run = s.run /\ OnlyTurn(turns, s.run)
    /\ Reduces(turns[Len(turns)].events, s)
    /\ s.pc # "attach" => s.last <= s.cursor
    /\ s.pc \in {"reload", "reloading"} =>
          LET turn == turns[Len(turns)] IN
          /\ turn.events # <<>> /\ turn.events[Len(turn.events)] = runs[s.run].events
          /\ runs[s.run].status \in Final /\ turn.status = runs[s.run].status

SendOK ==
    /\ send.pc = "idle" => send = Idle
    /\ send.pc = "posting" => Posting(send, view)
    /\ send.pc \notin {"idle", "posting"} => Following(send, view)

\* A turn per row, in order, with what is stored or what streamed before a cancel.
Agrees(turns, rows) ==
    /\ Len(turns) = Len(rows)
    /\ \A i \in DOMAIN turns :
          /\ turns[i].run = rows[i].run
          /\ turns[i].status = rows[i].status
          /\ turns[i].events = Stored \/ turns[i].status = "cancelled"

ViewOK == ~Streaming /\ thread # None /\ data[thread] # None => Agrees(view, data[thread])

ChatInv ==
    /\ Shape /\ RunsExist /\ SendOK /\ ViewOK
    /\ inflight # None => thread # None

-----------------------------------------------------------------------------
\* A set of natural numbers that is not empty has a least element.
LEMMA LeastElement ==
    ASSUME NEW T, T \subseteq Nat, T # {}
    PROVE  \E m \in T : \A y \in T : m <= y
<1> DEFINE R == OpToRel(<, Nat)
<1>1. IsWellFoundedOn(R, Nat)
  BY NatLessThanWellFounded
<1>2. \A y, z \in Nat : y < z => <<y, z>> \in R
  BY DEF OpToRel
<1> HIDE DEF R
<1>3. PICK m \in T : \A y \in T : ~ (<<y, m>> \in R)
  BY <1>1, WFMin
<1>4. \A y \in T : m <= y
  <2> SUFFICES ASSUME NEW y \in T, ~ (m <= y) PROVE FALSE
    OBVIOUS
  <2>1. y \in Nat /\ m \in Nat /\ y < m
    OBVIOUS
  <2>2. <<y, m>> \in R
    BY <1>2, <2>1, Zenon
  <2> QED
    BY <1>3, <2>2, Zenon
<1> QED
  BY <1>4

\* The runs of a set that come up to r.
UpTo(own, r) == {q \in own : q <= r}

\* Every place in a finite set of runs is taken by one of them.
LEMMA NthIsThere ==
    ASSUME NEW own, own \subseteq Nat, IsFiniteSet(own), NEW i \in 1..Cardinality(own)
    PROVE  Nth(own, i) \in own
<1>1. Cardinality(own) \in Nat
  BY FS_CardinalityType
<1> DEFINE Taken(j) == \E r \in own : Cardinality(UpTo(own, r)) = j
           Free == {j \in 1..Cardinality(own) : ~Taken(j)}
<1>2. Free = {}
  <2> SUFFICES ASSUME Free # {} PROVE FALSE
    OBVIOUS
  <2>1. Free \subseteq Nat
    BY <1>1
  <2>2. PICK m \in Free : \A j \in Free : m <= j
    BY <2>1, LeastElement
  <2>3. m \in 1..Cardinality(own) /\ ~Taken(m)
    OBVIOUS
  <2>4. PICK low \in SUBSET own : /\ Cardinality(low) = m - 1 /\ IsFiniteSet(low)
                                  /\ \A q \in low, r \in own \ low : q < r
    <3>1. CASE m = 1
      <4>1. IsFiniteSet({}) /\ Cardinality({}) = 0
        BY FS_EmptySet
      <4> QED
        BY <3>1, <4>1
    <3>2. CASE m # 1
      <4>1. m - 1 \in 1..Cardinality(own) /\ ~(m <= m - 1)
        BY <3>2, <2>3, <1>1
      <4>2. Taken(m - 1)
        BY <4>1, <2>2
      <4>3. PICK r \in own : Cardinality(UpTo(own, r)) = m - 1
        BY <4>2
      <4>4. UpTo(own, r) \subseteq own
        BY DEF UpTo
      <4>5. IsFiniteSet(UpTo(own, r))
        BY <4>4, FS_Subset
      <4>6. \A q \in UpTo(own, r), y \in own \ UpTo(own, r) : q < y
        BY DEF UpTo
      <4> QED
        BY <4>3, <4>4, <4>5, <4>6
    <3> QED
      BY <3>1, <3>2
  <2>5. own \ low # {}
    <3> SUFFICES ASSUME own = low PROVE FALSE
      OBVIOUS
    <3> QED
      BY <2>3, <2>4, <1>1
  <2>6. PICK r \in own \ low : \A y \in own \ low : r <= y
    <3>1. own \ low \subseteq Nat
      OBVIOUS
    <3> QED
      BY <2>5, <3>1, LeastElement
  <2>7. UpTo(own, r) = low \cup {r}
    <3>1. \A q \in own : q <= r <=> (q \in low \/ q = r)
      <4> TAKE q \in own
      <4>1. q \in Nat /\ r \in Nat
        OBVIOUS
      <4>2. CASE q \in low
        BY <4>1, <4>2, <2>4
      <4>3. CASE q \notin low
        BY <4>1, <4>3, <2>6
      <4> QED
        BY <4>2, <4>3
    <3> QED
      BY <3>1 DEF UpTo
  <2>8. Cardinality(UpTo(own, r)) = m
    <3>1. Cardinality(low \cup {r}) = Cardinality(low) + 1
      BY <2>4, FS_AddElement
    <3> QED
      BY <3>1, <2>3, <2>4, <2>7, <1>1
  <2> QED
    BY <2>3, <2>8
<1>3. \E r \in own : Cardinality({q \in own : q <= r}) = i
  BY <1>2 DEF UpTo
<1> QED
  BY <1>3 DEF Nth

\* The transcript has rows of runs that exist, and is empty without any.
LEMMA TranscriptFacts ==
    ASSUME runs \in Seq(Run), NEW t, NEW rows, rows = Transcript(t)
    PROVE  /\ rows \in Seq(Row) /\ RowsOK(rows, Len(runs))
           /\ rows = <<>> <=> Own(t) = {}
<1>1. Len(runs) \in Nat /\ DOMAIN runs = 1..Len(runs)
  OBVIOUS
<1>2. Own(t) \subseteq 1..Len(runs)
  BY <1>1 DEF Own
<1>3. IsFiniteSet(1..Len(runs))
  BY <1>1, FS_Interval
<1>4. IsFiniteSet(Own(t)) /\ Own(t) \subseteq Nat
  BY <1>1, <1>2, <1>3, FS_Subset
<1>5. PICK n \in Nat : n = Cardinality(Own(t))
  BY <1>4, FS_CardinalityType
<1>6. PICK nth : nth = [i \in 1..n |-> Nth(Own(t), i)]
  OBVIOUS
<1>7. \A i \in 1..n : nth[i] \in Own(t)
  BY <1>4, <1>5, <1>6, NthIsThere
<1>8. \A i \in 1..n : nth[i] \in 1..Len(runs) /\ runs[nth[i]].status \in {"in_progress"} \cup Final
  <2> TAKE i \in 1..n
  <2>1. nth[i] \in 1..Len(runs)
    BY <1>2, <1>7
  <2>2. runs[nth[i]] \in Run
    BY <1>1, <2>1
  <2> QED
    BY <2>1, <2>2 DEF Run
<1>9. rows = [i \in 1..n |-> [run |-> nth[i], status |-> runs[nth[i]].status]]
  BY <1>5, <1>6 DEF Transcript, Own
<1>10. rows \in Seq(Row)
  <2>1. \A i \in 1..n : [run |-> nth[i], status |-> runs[nth[i]].status] \in Row
    BY <1>8 DEF Row
  <2> QED
    BY <1>9, <2>1
<1>11. Len(rows) = n /\ DOMAIN rows = 1..n
  BY <1>9, <1>10
<1>12. RowsOK(rows, Len(runs))
  BY <1>8, <1>9, <1>11 DEF RowsOK
<1>13. n = 0 <=> Own(t) = {}
  BY <1>4, <1>5, FS_EmptySet
<1> QED
  BY <1>10, <1>11, <1>12, <1>13

-----------------------------------------------------------------------------
\* The reconciled turns agree with the transcript they were reconciled with.
LEMMA ReconcileFacts ==
    ASSUME NEW rows \in Seq(Row), NEW live \in Seq(Turn), NEW n \in Nat, RowsOK(rows, n),
           NEW out, out = Reconcile(rows, live)
    PROVE  out \in Seq(Turn) /\ TurnsOK(out, n) /\ Agrees(out, rows)
<1>1. Len(rows) \in Nat /\ DOMAIN rows = 1..Len(rows) /\ \A i \in 1..Len(rows) : rows[i] \in Row
  OBVIOUS
<1>2. Len(live) \in Nat /\ DOMAIN live = 1..Len(live) /\ \A j \in 1..Len(live) : live[j] \in Turn
  OBVIOUS
<1> DEFINE Match(i) == {j \in DOMAIN live : live[j].run = rows[i].run}
           Events(i) == IF rows[i].status # "cancelled" \/ Match(i) = {} THEN Stored
                        ELSE live[CHOOSE j \in Match(i) : \A k \in Match(i) : j <= k].events
<1>3. out = [i \in DOMAIN rows |->
                [run |-> rows[i].run, status |-> rows[i].status, events |-> Events(i)]]
  BY DEF Reconcile
<1>4. \A i \in DOMAIN rows : /\ Events(i) \in Seq(Nat) \cup {Stored}
                             /\ Events(i) = Stored \/ rows[i].status = "cancelled"
  <2> TAKE i \in DOMAIN rows
  <2>1. CASE rows[i].status # "cancelled" \/ Match(i) = {}
    BY <2>1
  <2>2. CASE ~ (rows[i].status # "cancelled" \/ Match(i) = {})
    <3>1. Match(i) # {} /\ Match(i) \subseteq Nat
      BY <2>2, <1>2
    <3>2. \E j \in Match(i) : \A k \in Match(i) : j <= k
      <4> HIDE DEF Match
      <4> QED
        BY <3>1, LeastElement
    <3>3. PICK j : j = CHOOSE m \in Match(i) : \A k \in Match(i) : m <= k
      OBVIOUS
    <3>4. j \in Match(i)
      <4> HIDE DEF Match
      <4> QED
        BY <3>2, <3>3
    <3>5. live[j] \in Turn
      BY <3>4, <1>2
    <3>6. live[j].events \in Seq(Nat) \cup {Stored}
      BY <3>5 DEF Turn
    <3>7. Events(i) = live[j].events
      <4> HIDE DEF Match
      <4> QED
        BY <3>3, <2>2
    <3> QED
      BY <3>6, <3>7, <2>2
  <2> QED
    BY <2>1, <2>2
<1> HIDE DEF Events
<1>5. \A i \in DOMAIN rows : /\ rows[i].run \in Nat /\ rows[i].run \in 1..n
                             /\ rows[i].status \in Statuses
  BY <1>1 DEF Row, RowsOK, Statuses
<1>6. \A i \in DOMAIN rows : [run |-> rows[i].run, status |-> rows[i].status,
                              events |-> Events(i)] \in Turn
  BY <1>4, <1>5 DEF Turn
<1>7. out \in Seq(Turn)
  BY <1>1, <1>3, <1>6
<1>8. Len(out) = Len(rows) /\ DOMAIN out = DOMAIN rows
  BY <1>1, <1>3, <1>7
<1>9. \A i \in DOMAIN rows : /\ out[i].run = rows[i].run /\ out[i].status = rows[i].status
                             /\ out[i].events = Events(i)
  BY <1>3
<1>10. TurnsOK(out, n)
  BY <1>5, <1>8, <1>9 DEF TurnsOK
<1>11. Agrees(out, rows)
  BY <1>4, <1>8, <1>9 DEF Agrees
<1> QED
  BY <1>7, <1>10, <1>11

\* The transcripts React Query holds, or does not.
Held(d, n) ==
    /\ d \in [Threads -> Seq(Row) \cup {None}]
    /\ \A t \in Threads : d[t] # None => RowsOK(d[t], n)

\* The effect leaves turns that agree with the transcript, if there is one.
LEMMA EffectFacts ==
    ASSUME NEW t \in Threads \cup {None}, NEW n \in Nat, NEW d, Held(d, n),
           NEW turns \in Seq(Turn), TurnsOK(turns, n),
           NEW out, out = Effect(t, d, turns)
    PROVE  /\ out \in Seq(Turn) /\ TurnsOK(out, n)
           /\ t # None /\ d[t] # None => Agrees(out, d[t])
<1>1. CASE t = None \/ d[t] = None
  <2>1. out = turns
    BY <1>1 DEF Effect
  <2> QED
    BY <2>1, <1>1
<1>2. CASE ~ (t = None \/ d[t] = None)
  <2>1. t \in Threads
    BY <1>2
  <2>2. d[t] \in Seq(Row) /\ RowsOK(d[t], n)
    BY <2>1, <1>2 DEF Held
  <2>3. out = Reconcile(d[t], turns)
    BY <1>2 DEF Effect
  <2> QED
    BY <2>2, <2>3, ReconcileFacts
<1> QED
  BY <1>1, <1>2

\* A commit leaves the view, and the cache of the thread, as it was given.
LEMMA ShowsFacts ==
    ASSUME Shape, RunsExist, NEW t \in Threads \cup {None}, NEW turns \in Seq(Turn),
           TurnsOK(turns, Len(runs)), Shows(t, turns)
    PROVE  /\ thread' = t /\ view' = turns
           /\ cached' \in [Threads -> Seq(Turn)]
           /\ \A u \in Threads : TurnsOK(cached'[u], Len(runs))
<1>1. thread' = t /\ view' = turns
  BY DEF Shows
<1>2. cached' = cached \/ cached' = [cached EXCEPT ![t] = turns]
  BY DEF Shows
<1>3. cached \in [Threads -> Seq(Turn)] /\ \A u \in Threads : TurnsOK(cached[u], Len(runs))
  BY DEF Shape, RunsExist
<1>4. cached' \in [Threads -> Seq(Turn)]
  BY <1>2, <1>3
<1>5. \A u \in Threads : cached'[u] = cached[u] \/ cached'[u] = turns
  BY <1>2, <1>3
<1>6. \A u \in Threads : TurnsOK(cached'[u], Len(runs))
  BY <1>3, <1>5
<1> QED
  BY <1>1, <1>4, <1>6

\* The fetch in flight, or none.
Flies(f, n, t) ==
    /\ f \in Seq(Row) \cup {None, Asked}
    /\ f \notin {None, Asked} => RowsOK(f, n)
    /\ f # None => t # None

\* ChatInv by its parts, in the state after a step.
LEMMA Assemble ==
    ASSUME runs' \in Seq(Run), thread' \in Threads \cup {None},
           view' \in Seq(Turn), TurnsOK(view', Len(runs')),
           cached' \in [Threads -> Seq(Turn)], \A u \in Threads : TurnsOK(cached'[u], Len(runs')),
           send' \in Sending, Held(data', Len(runs')), Flies(inflight', Len(runs'), thread'),
           SendOK', ViewOK'
    PROVE  ChatInv'
<1>1. Shape'
  BY DEF Shape, Held, Flies
<1>2. RunsExist'
  BY DEF RunsExist, Held, Flies
<1>3. inflight' # None => thread' # None
  BY DEF Flies
<1> QED
  BY <1>1, <1>2, <1>3 DEF ChatInv

\* ... and before it.
LEMMA Parts ==
    ASSUME ChatInv
    PROVE  /\ Shape /\ RunsExist /\ SendOK /\ ViewOK
           /\ runs \in Seq(Run) /\ Len(runs) \in Nat /\ DOMAIN runs = 1..Len(runs)
           /\ \A r \in DOMAIN runs : runs[r] \in Run
           /\ thread \in Threads \cup {None}
           /\ view \in Seq(Turn) /\ TurnsOK(view, Len(runs))
           /\ cached \in [Threads -> Seq(Turn)]
           /\ \A u \in Threads : TurnsOK(cached[u], Len(runs))
           /\ send \in Sending
           /\ Held(data, Len(runs))
           /\ Flies(inflight, Len(runs), thread)
<1>1. Shape /\ RunsExist /\ SendOK /\ ViewOK /\ (inflight # None => thread # None)
  BY DEF ChatInv
<1>2. Held(data, Len(runs))
  BY <1>1 DEF Shape, RunsExist, Held
<1>3. Flies(inflight, Len(runs), thread)
  BY <1>1 DEF Shape, RunsExist, Flies
<1>4. runs \in Seq(Run)
  BY <1>1 DEF Shape
<1>5. Len(runs) \in Nat /\ DOMAIN runs = 1..Len(runs) /\ \A r \in DOMAIN runs : runs[r] \in Run
  BY <1>4
<1>6. /\ thread \in Threads \cup {None} /\ view \in Seq(Turn)
      /\ cached \in [Threads -> Seq(Turn)] /\ send \in Sending
  BY <1>1 DEF Shape
<1>7. TurnsOK(view, Len(runs)) /\ \A u \in Threads : TurnsOK(cached[u], Len(runs))
  BY <1>1 DEF RunsExist
<1> QED
  BY <1>1, <1>2, <1>3, <1>4, <1>5, <1>6, <1>7

\* No message is being sent.
LEMMA IdleFacts ==
    Idle \in Sending /\ Idle.pc = "idle"
  BY DEF Idle, Sending, Pcs

\* The end of a send, or a fetch that arrives without one.
LEMMA FinishFacts ==
    ASSUME ChatInv, NEW t \in Threads \cup {None}, NEW d, Held(d, Len(runs)),
           NEW turns \in Seq(Turn), TurnsOK(turns, Len(runs)), Finish(t, d, turns),
           runs' = runs, Flies(inflight', Len(runs), t)
    PROVE  ChatInv'
<1> USE Parts
<1>1. PICK out : out = Effect(t, d, turns)
  OBVIOUS
<1>2. /\ out \in Seq(Turn) /\ TurnsOK(out, Len(runs))
      /\ t # None /\ d[t] # None => Agrees(out, d[t])
  BY <1>1, EffectFacts
<1>3. send' = Idle /\ data' = d /\ Shows(t, out)
  BY <1>1 DEF Finish
<1>4. /\ thread' = t /\ view' = out /\ cached' \in [Threads -> Seq(Turn)]
      /\ \A u \in Threads : TurnsOK(cached'[u], Len(runs))
  BY <1>2, <1>3, ShowsFacts
<1>5. SendOK'
  BY <1>3, IdleFacts DEF SendOK
<1>6. ViewOK'
  BY <1>2, <1>3, <1>4 DEF ViewOK
<1>7. Held(data', Len(runs')) /\ Flies(inflight', Len(runs'), thread')
  BY <1>3, <1>4
<1> QED
  BY <1>2, <1>3, <1>4, <1>5, <1>6, <1>7, IdleFacts, Assemble

\* The turns of the send as the server goes on: what it was told stays true.
LEMMA ServerStep ==
    ASSUME ChatInv, UNCHANGED client, runs' \in Seq(Run), Len(runs') = Len(runs),
           \A q \in DOMAIN runs : runs'[q].thread = runs[q].thread,
           \A q \in DOMAIN runs : runs[q].status \in Final => runs'[q] = runs[q]
    PROVE  ChatInv'
<1> USE Parts
<1>1. /\ thread' = thread /\ view' = view /\ cached' = cached /\ send' = send /\ data' = data
      /\ inflight' = inflight
  BY DEF client
<1>2. DOMAIN runs' = DOMAIN runs
  OBVIOUS
<1>3. \A t \in Threads : Own(t)' = Own(t)
  BY <1>2 DEF Own
<1>4. send.pc = "posting" => Posting(send, view)'
  <2> SUFFICES ASSUME send.pc = "posting" PROVE Posting(send, view)'
    OBVIOUS
  <2>1. Posting(send, view)
    BY DEF SendOK
  <2> QED
    BY <1>1, <1>2, <1>3, <2>1 DEF Posting
<1>5. send.pc \notin {"idle", "posting"} => Following(send, view)'
  <2> SUFFICES ASSUME send.pc \notin {"idle", "posting"} PROVE Following(send, view)'
    OBVIOUS
  <2>1. Following(send, view)
    BY DEF SendOK
  <2>2. CASE send.pc \in {"reload", "reloading"}
    <3>1. send.run \in DOMAIN runs /\ runs'[send.run] = runs[send.run]
      BY <2>1, <2>2 DEF Following
    <3> QED
      BY <1>1, <1>2, <2>1, <3>1 DEF Following
  <2>3. CASE send.pc \notin {"reload", "reloading"}
    BY <1>1, <1>2, <2>1, <2>3 DEF Following
  <2> QED
    BY <2>2, <2>3
<1>6. SendOK'
  <2>1. send.pc = "idle" => send = Idle
    BY DEF SendOK
  <2> QED
    BY <1>1, <1>4, <1>5, <2>1 DEF SendOK
<1>7. ViewOK'
  BY <1>1 DEF ViewOK, Streaming
<1> QED
  BY <1>1, <1>6, <1>7, Assemble

\* A run with one event more.
LEMMA OneMoreEvent ==
    ASSUME NEW run \in Run, NEW new, new = [run EXCEPT !.events = @ + 1]
    PROVE  new \in Run /\ new.thread = run.thread
<1>1. PICK n \in Nat : n = run.events
  BY DEF Run
<1>2. new = [run EXCEPT !.events = n + 1]
  BY <1>1
<1> QED
  BY <1>2 DEF Run

\* The server emits an event.
LEMMA ServerEmitsStep ==
    ASSUME ChatInv, NEW r \in DOMAIN runs, ServerEmits(r)
    PROVE  ChatInv'
<1> USE Parts
<1>1. PICK run \in Run : run = runs[r]
  OBVIOUS
<1>2. runs' = [runs EXCEPT ![r].events = @ + 1] /\ UNCHANGED client /\ run.status = "in_progress"
  BY <1>1 DEF ServerEmits
<1>3. PICK new : new = [run EXCEPT !.events = @ + 1]
  OBVIOUS
<1>4. new \in Run /\ new.thread = run.thread
  BY <1>3, OneMoreEvent
<1>5. runs' = [runs EXCEPT ![r] = new]
  BY <1>1, <1>2, <1>3
<1>6. /\ runs' \in Seq(Run) /\ Len(runs') = Len(runs)
      /\ \A q \in DOMAIN runs : runs'[q] = IF q = r THEN new ELSE runs[q]
  BY <1>4, <1>5
<1>7. runs[r].status \notin Final
  BY <1>1, <1>2 DEF Final
<1> QED
  BY <1>1, <1>2, <1>4, <1>6, <1>7, ServerStep

\* A run ends, by itself or cancelled.
LEMMA RunEndsStep ==
    ASSUME ChatInv, NEW r \in DOMAIN runs, NEW status \in Final, RunEnds(r, status),
           runs[r].status = "in_progress", UNCHANGED client
    PROVE  ChatInv'
<1> USE Parts
<1>1. PICK run \in Run : run = runs[r]
  OBVIOUS
<1>2. PICK mid : mid = [run EXCEPT !.status = status]
  OBVIOUS
<1>3. mid \in Run /\ mid.thread = run.thread
  BY <1>1, <1>2 DEF Run
<1>4. PICK new : new = [mid EXCEPT !.events = @ + 1]
  OBVIOUS
<1>5. new \in Run /\ new.thread = run.thread
  BY <1>3, <1>4, OneMoreEvent
<1>6. runs' = [runs EXCEPT ![r] = new]
  <2>1. PICK first : first = [runs EXCEPT ![r].status = status]
    OBVIOUS
  <2>2. first = [runs EXCEPT ![r] = mid]
    BY <1>1, <1>2, <2>1
  <2>3. runs' = [first EXCEPT ![r].events = @ + 1]
    BY <2>1 DEF RunEnds
  <2>4. first[r] = mid
    BY <2>2
  <2>5. runs' = [first EXCEPT ![r] = new]
    BY <1>4, <2>2, <2>3, <2>4
  <2> QED
    BY <2>2, <2>5
<1>7. /\ runs' \in Seq(Run) /\ Len(runs') = Len(runs)
      /\ \A q \in DOMAIN runs : runs'[q] = IF q = r THEN new ELSE runs[q]
  BY <1>5, <1>6
<1>8. runs[r].status \notin Final
  BY DEF Final
<1> QED
  BY <1>1, <1>5, <1>7, <1>8, ServerStep

\* The server ends a run.
LEMMA ServerEndsStep ==
    ASSUME ChatInv, Server
    PROVE  ChatInv'
<1>1. PICK r \in DOMAIN runs, status \in {"completed", "failed"} : ServerEnds(r, status)
  BY DEF Server
<1>2. status \in Final
  BY DEF Final
<1>3. RunEnds(r, status) /\ runs[r].status = "in_progress" /\ UNCHANGED client
  BY <1>1 DEF ServerEnds
<1> QED
  BY <1>2, <1>3, RunEndsStep

\* What the send in progress has seen, if its run is known.
LEMMA Known ==
    ASSUME ChatInv, send.known
    PROVE  Streaming /\ send.pc \notin {"idle", "posting"} /\ Following(send, view)
  BY Parts DEF SendOK, Posting, Idle, Streaming

\* stop cancels the run that streams.
LEMMA StopCancelsStep ==
    ASSUME ChatInv, StopCancels
    PROVE  ChatInv'
<1>1. send.known /\ RunEnds(send.run, "cancelled") /\ UNCHANGED client
      /\ runs[send.run].status = "in_progress"
  BY DEF StopCancels
<1>2. send.run \in DOMAIN runs
  BY <1>1, Known DEF Following
<1>3. "cancelled" \in Final
  BY DEF Final
<1> QED
  BY <1>1, <1>2, <1>3, RunEndsStep

\* Nothing but the fetch changes.
LEMMA FetchOnly ==
    ASSUME ChatInv, UNCHANGED <<runs, thread, view, cached, send, data>>,
           Flies(inflight', Len(runs), thread)
    PROVE  ChatInv'
<1> USE Parts
<1>1. \A t \in Threads : Own(t)' = Own(t)
  BY DEF Own
<1>2. SendOK'
  BY <1>1 DEF SendOK, Posting, Following
<1>3. ViewOK'
  BY DEF ViewOK, Streaming
<1> QED
  BY <1>2, <1>3, Assemble

\* A fetch is started, answered; nothing happens to the client.
LEMMA FetchSteps ==
    ASSUME ChatInv, Fetch \/ FetchAnswered \/ AttachFails \/ UNCHANGED vars
    PROVE  ChatInv'
<1> USE Parts
<1>1. UNCHANGED <<runs, thread, view, cached, send, data>>
  BY DEF Fetch, FetchAnswered, AttachFails, client, vars
<1>2. Flies(inflight', Len(runs), thread)
  <2>1. CASE Fetch
    BY <2>1 DEF Fetch, Flies
  <2>2. CASE FetchAnswered
    <3>1. inflight # None
      BY <2>2, ChatAssumption DEF FetchAnswered
    <3>2. inflight' = Transcript(thread) /\ inflight = Asked
      BY <2>2 DEF FetchAnswered
    <3>3. inflight' \in Seq(Row) /\ RowsOK(inflight', Len(runs))
      BY <3>2, TranscriptFacts
    <3>4. thread # None
      BY <3>1 DEF Flies
    <3> QED
      BY <3>3, <3>4 DEF Flies
  <2>3. CASE AttachFails \/ UNCHANGED vars
    <3>1. inflight' = inflight
      BY <2>3 DEF AttachFails, client, vars
    <3> QED
      BY <3>1
  <2> QED
    BY <2>1, <2>2, <2>3
<1> QED
  BY <1>1, <1>2, FetchOnly

\* Another key is selected: the turns it had, after the effect.
LEMMA Selected ==
    ASSUME ChatInv, NEW t \in Threads \cup {None}, NEW before \in Seq(Turn),
           TurnsOK(before, Len(runs)), Shows(t, Effect(t, data, before)), ~Streaming,
           inflight' = None \/ (inflight' = inflight /\ t = thread),
           UNCHANGED <<runs, send, data>>
    PROVE  ChatInv'
<1> USE Parts
<1>1. PICK turns : turns = Effect(t, data, before)
  OBVIOUS
<1>2. /\ turns \in Seq(Turn) /\ TurnsOK(turns, Len(runs))
      /\ t # None /\ data[t] # None => Agrees(turns, data[t])
  BY <1>1, EffectFacts
<1>3. Shows(t, turns)
  BY <1>1
<1>4. /\ thread' = t /\ view' = turns /\ cached' \in [Threads -> Seq(Turn)]
      /\ \A u \in Threads : TurnsOK(cached'[u], Len(runs))
  BY <1>2, <1>3, ShowsFacts
<1>5. Flies(inflight', Len(runs), t)
  BY DEF Flies
<1>6. ViewOK'
  BY <1>2, <1>4 DEF ViewOK
<1>7. SendOK'
  BY DEF SendOK, Streaming
<1> QED
  BY <1>2, <1>4, <1>5, <1>6, <1>7, Assemble

\* A thread is opened, or the start of a new one.
LEMMA SelectSteps ==
    ASSUME ChatInv, NewThread \/ \E t \in Threads : OpenThread(t)
    PROVE  ChatInv'
<1>1. CASE NewThread
  <2>1. <<>> = Effect(None, data, <<>>)
    BY DEF Effect
  <2>2. /\ Shows(None, Effect(None, data, <<>>))
        /\ inflight' = None /\ ~Streaming /\ UNCHANGED <<runs, send, data>>
    BY <1>1, <2>1 DEF NewThread
  <2>3. <<>> \in Seq(Turn) /\ TurnsOK(<<>>, Len(runs))
    BY DEF TurnsOK
  <2>4. None \in Threads \cup {None} /\ (inflight' = None \/ (inflight' = inflight /\ None = thread))
    BY <2>2
  <2> QED
    BY <2>2, <2>3, <2>4, Selected
<1>2. CASE \E t \in Threads : OpenThread(t)
  <2>1. PICK t \in Threads : OpenThread(t)
    BY <1>2
  <2>2. Shows(t, Effect(t, data, cached[t])) /\ ~Streaming /\ UNCHANGED <<runs, send, data>>
    BY <2>1 DEF OpenThread
  <2>3. inflight' = None \/ (inflight' = inflight /\ t = thread)
    <3>1. inflight' = IF t = thread THEN inflight ELSE None
      BY <2>1 DEF OpenThread
    <3> QED
      BY <3>1
  <2>4. cached[t] \in Seq(Turn) /\ TurnsOK(cached[t], Len(runs))
    BY Parts
  <2> QED
    BY <2>2, <2>3, <2>4, Selected
<1> QED
  BY <1>1, <1>2

\* A transcript that arrives is held.
LEMMA ArrivalFacts ==
    ASSUME ChatInv, inflight \notin {None, Asked}, NEW d, d = [data EXCEPT ![thread] = inflight]
    PROVE  Held(d, Len(runs))
<1> USE Parts
<1>1. inflight \in Seq(Row) /\ RowsOK(inflight, Len(runs))
  BY DEF Flies
<1>2. data \in [Threads -> Seq(Row) \cup {None}]
  BY DEF Held
<1>3. d \in [Threads -> Seq(Row) \cup {None}]
  BY <1>1, <1>2
<1>4. \A t \in Threads : d[t] = inflight \/ d[t] = data[t]
  BY <1>2
<1>5. \A t \in Threads : d[t] # None => RowsOK(d[t], Len(runs))
  BY <1>1, <1>4 DEF Held
<1> QED
  BY <1>3, <1>5 DEF Held

\* Nothing of a send that streams changes when the data, or the fetch, does.
LEMMA DataOnly ==
    ASSUME ChatInv, Streaming, UNCHANGED <<runs, thread, view, cached, send>>,
           Held(data', Len(runs)), Flies(inflight', Len(runs), thread)
    PROVE  ChatInv'
<1> USE Parts
<1>1. \A t \in Threads : Own(t)' = Own(t)
  BY DEF Own
<1>2. SendOK'
  BY <1>1 DEF SendOK, Posting, Following
<1>3. ViewOK'
  BY DEF ViewOK, Streaming
<1> QED
  BY <1>2, <1>3, Assemble

\* The transcript arrives, or does not.
LEMMA FetchEnds ==
    ASSUME ChatInv, FetchArrives \/ FetchFails
    PROVE  ChatInv'
<1> USE Parts
<1>1. inflight' = None /\ runs' = runs /\ Flies(inflight', Len(runs), thread)
  BY DEF FetchArrives, FetchFails, Flies
<1>2. CASE FetchArrives
  <2>1. PICK d : d = [data EXCEPT ![thread] = inflight]
    OBVIOUS
  <2>2. Held(d, Len(runs))
    BY <1>2, <2>1, ArrivalFacts DEF FetchArrives
  <2>3. CASE send.pc \in {"idle", "reloading"}
    <3>1. Finish(thread, d, view)
      BY <1>2, <2>1, <2>3 DEF FetchArrives
    <3> QED
      BY <1>1, <2>2, <3>1, FinishFacts
  <2>4. CASE send.pc \notin {"idle", "reloading"}
    <3>1. data' = d /\ UNCHANGED <<thread, view, cached, send>> /\ Streaming
      BY <1>2, <2>1, <2>4 DEF FetchArrives, Streaming
    <3> QED
      BY <1>1, <2>2, <3>1, DataOnly
  <2> QED
    BY <2>3, <2>4
<1>3. CASE FetchFails
  <2>1. CASE send.pc = "reloading"
    <3>1. Finish(thread, data, view)
      BY <1>3, <2>1 DEF FetchFails
    <3> QED
      BY <1>1, <3>1, FinishFacts
  <2>2. CASE send.pc # "reloading"
    <3>1. UNCHANGED <<runs, thread, view, cached, send, data>>
      BY <1>3, <2>2 DEF FetchFails
    <3> QED
      BY <1>1, <3>1, FetchOnly
  <2> QED
    BY <2>1, <2>2
<1> QED
  BY <1>2, <1>3

\* The turns as an error leaves them.
LEMMA ErroredFacts ==
    ASSUME ChatInv
    PROVE  Errored \in Seq(Turn) /\ TurnsOK(Errored, Len(runs))
<1> USE Parts
<1>1. Len(view) \in Nat /\ DOMAIN view = 1..Len(view) /\ \A i \in 1..Len(view) : view[i] \in Turn
  OBVIOUS
<1> DEFINE After(i) == IF view[i].status = "in_progress" THEN [view[i] EXCEPT !.status = "error"]
                       ELSE view[i]
<1>2. \A i \in 1..Len(view) : After(i) \in Turn /\ After(i).run = view[i].run
  BY <1>1 DEF Turn, Statuses
<1>3. Errored = [i \in 1..Len(view) |-> After(i)]
  BY <1>1 DEF Errored
<1> HIDE DEF After
<1>4. Errored \in Seq(Turn)
  BY <1>1, <1>2, <1>3
<1>5. DOMAIN Errored = 1..Len(view) /\ \A i \in 1..Len(view) : Errored[i].run = view[i].run
  BY <1>2, <1>3
<1>6. TurnsOK(Errored, Len(runs))
  BY <1>1, <1>5 DEF TurnsOK
<1> QED
  BY <1>4, <1>6

\* A send ends in an error: it is refused, lost, aborted, or its events expired.
LEMMA ErrorSteps ==
    ASSUME ChatInv, PostFails \/ AttachRefused \/ StopAborts
    PROVE  ChatInv'
<1> USE Parts
<1>1. Finish(thread, data, Errored) /\ runs' = runs /\ inflight' = inflight
  BY DEF PostFails, AttachRefused, StopAborts
<1> QED
  BY <1>1, ErroredFacts, FinishFacts

\* The optimistic turn of a message.
Optimistic == [run |-> 0, status |-> "in_progress", events |-> <<>>]

\* An optimistic turn at the end.
LEMMA OptimisticFacts ==
    ASSUME NEW turns \in Seq(Turn), NEW n \in Nat, TurnsOK(turns, n),
           NEW out, out = Append(turns, Optimistic)
    PROVE  out \in Seq(Turn) /\ TurnsOK(out, n) /\ out # <<>> /\ out[Len(out)] = Optimistic
<1>1. PICK m \in Nat : m = Len(turns)
  OBVIOUS
<1>2. Optimistic \in Turn /\ Optimistic.run = 0
  BY DEF Optimistic, Turn, Statuses
<1> HIDE DEF Optimistic
<1>3. /\ out \in Seq(Turn) /\ Len(out) = m + 1 /\ DOMAIN out = 1..(m + 1)
      /\ out[m + 1] = Optimistic /\ \A i \in 1..m : out[i] = turns[i]
  BY <1>1, <1>2
<1>4. TurnsOK(out, n)
  <2> SUFFICES ASSUME NEW i \in 1..(m + 1) PROVE out[i].run \in 0..n
    BY <1>3 DEF TurnsOK
  <2>1. CASE i = m + 1
    BY <2>1, <1>2, <1>3
  <2>2. CASE i # m + 1
    <3>1. i \in DOMAIN turns /\ out[i] = turns[i]
      BY <2>2, <1>1, <1>3
    <3> QED
      BY <3>1 DEF TurnsOK
  <2> QED
    BY <2>1, <2>2
<1>5. out # <<>> /\ out[Len(out)] = Optimistic
  BY <1>3
<1> QED
  BY <1>3, <1>4, <1>5

\* A message is sent.
LEMMA SendStep ==
    ASSUME ChatInv, NEW new \in BOOLEAN, Send(new)
    PROVE  ChatInv'
<1> USE Parts
<1>1. PICK t : t = IF new THEN None ELSE thread
  OBVIOUS
<1>2. PICK turns : turns = IF new THEN <<>> ELSE view
  OBVIOUS
<1>3. t \in Threads \cup {None} /\ turns \in Seq(Turn) /\ TurnsOK(turns, Len(runs))
  <2>1. CASE new
    BY <2>1, <1>1, <1>2 DEF TurnsOK
  <2>2. CASE ~new
    BY <2>2, <1>1, <1>2
  <2> QED
    BY <2>1, <2>2
<1>4. PICK out : out = Append(turns, Optimistic)
  OBVIOUS
<1>5. out \in Seq(Turn) /\ TurnsOK(out, Len(runs)) /\ out # <<>> /\ out[Len(out)] = Optimistic
  BY <1>3, <1>4, OptimisticFacts
<1>6. /\ t = None => \E free \in Threads : Transcript(free) = <<>>
      /\ Shows(t, out) /\ send' = [Idle EXCEPT !.pc = "posting", !.target = t]
      /\ inflight' = (IF t = thread THEN inflight ELSE None)
      /\ runs' = runs /\ data' = data
  BY <1>1, <1>2, <1>4 DEF Send, Optimistic
<1>7. /\ thread' = t /\ view' = out /\ cached' \in [Threads -> Seq(Turn)]
      /\ \A u \in Threads : TurnsOK(cached'[u], Len(runs))
  BY <1>3, <1>5, <1>6, ShowsFacts
<1>8. /\ send' \in Sending /\ send'.pc = "posting" /\ send'.target = t /\ send'.run = 0
      /\ send'.last = 0 /\ send'.cursor = 0 /\ send'.known = FALSE /\ send'.thrown = FALSE
  BY <1>3, <1>6 DEF Idle, Sending, Pcs
<1>9. t = None => \E free \in Threads : Own(free)' = {}
  <2>1. \A u \in Threads : Own(u)' = Own(u)
    BY <1>6 DEF Own
  <2>2. \A u \in Threads : Transcript(u) = <<>> => Own(u) = {}
    BY TranscriptFacts
  <2> QED
    BY <1>6, <2>1, <2>2
<1>10. Posting(send, view)'
  BY <1>5, <1>7, <1>8, <1>9 DEF Posting, Optimistic
<1>11. SendOK' /\ ViewOK'
  BY <1>8, <1>10 DEF SendOK, ViewOK, Streaming
<1>12. Flies(inflight', Len(runs), t) /\ Held(data', Len(runs))
  BY <1>6 DEF Flies
<1> QED
  BY <1>3, <1>5, <1>6, <1>7, <1>8, <1>11, <1>12, Assemble

\* A send with its run and its thread.
Assigned(s, r, t) == [s EXCEPT !.run = r, !.target = t]

\* Nothing else of the send changes.
LEMMA AssignedFacts ==
    ASSUME NEW s \in Sending, NEW r \in Nat, NEW t \in Threads,
           NEW out, out = Assigned(s, r, t)
    PROVE  /\ out \in Sending /\ out.run = r /\ out.target = t /\ out.pc = s.pc
           /\ out.last = s.last /\ out.cursor = s.cursor /\ out.known = s.known
           /\ out.thrown = s.thrown
  BY DEF Sending, Assigned

\* The server admits a run that no turn has yet.
LEMMA AdmitStep ==
    ASSUME ChatInv, Admit
    PROVE  ChatInv'
<1> USE Parts
<1>1. send.pc = "posting" /\ send.run = 0
  BY DEF Admit
<1>2. Posting(send, view)
  BY <1>1 DEF SendOK
<1>3. PICK t : t = IF send.target = None THEN NextThread ELSE send.target
  OBVIOUS
<1>4. t \in Threads
  <2>1. CASE send.target = None
    <3>1. PICK free \in Threads : Own(free) = {}
      BY <1>1, <1>2, <2>1 DEF Posting
    <3>2. Transcript(free) = <<>>
      BY <3>1, TranscriptFacts
    <3>3. NextThread \in Threads
      BY <3>2 DEF NextThread
    <3> QED
      BY <2>1, <3>3, <1>3
  <2>2. CASE send.target # None
    BY <2>2, <1>3 DEF Sending
  <2> QED
    BY <2>1, <2>2
<1>5. PICK n \in Nat : n = Len(runs)
  OBVIOUS
<1>6. PICK run : run = [thread |-> t, status |-> "in_progress", events |-> 1]
  OBVIOUS
<1>7. run \in Run
  BY <1>4, <1>6 DEF Run
<1>8. /\ runs' = Append(runs, run) /\ send' = [send EXCEPT !.run = n + 1, !.target = t]
      /\ UNCHANGED <<thread, view, cached, data, inflight>>
  BY <1>3, <1>5, <1>6 DEF Admit
<1>9. runs' \in Seq(Run) /\ Len(runs') = n + 1 /\ DOMAIN runs' = 1..(n + 1)
  BY <1>5, <1>7, <1>8
<1>10. /\ send' \in Sending /\ send'.pc = "posting" /\ send'.target = t /\ send'.run = n + 1
       /\ send'.last = send.last /\ send'.cursor = send.cursor /\ send'.known = send.known
       /\ send'.thrown = send.thrown
  <2>1. send' = Assigned(send, n + 1, t)
    BY <1>8 DEF Assigned
  <2>2. PICK r \in Nat : r = n + 1
    OBVIOUS
  <2>3. send \in Sending
    OBVIOUS
  <2>4. send' = Assigned(send, r, t)
    BY <2>1, <2>2
  <2>5. /\ send' \in Sending /\ send'.run = r /\ send'.target = t /\ send'.pc = send.pc
        /\ send'.last = send.last /\ send'.cursor = send.cursor /\ send'.known = send.known
        /\ send'.thrown = send.thrown
    <3> HIDE Parts
    <3> QED
      BY <1>4, <2>3, <2>4, AssignedFacts
  <2> QED
    BY <1>1, <2>2, <2>5, Zenon
<1>11. OnlyTurn(view, n + 1)
  BY <1>5 DEF OnlyTurn, TurnsOK
<1>12. /\ TurnsOK(view, n + 1) /\ \A u \in Threads : TurnsOK(cached[u], n + 1)
       /\ Held(data, n + 1) /\ Flies(inflight, n + 1, thread)
  <2>1. \A turns : TurnsOK(turns, n) => TurnsOK(turns, n + 1)
    BY DEF TurnsOK
  <2>2. \A rows : RowsOK(rows, n) => RowsOK(rows, n + 1)
    BY DEF RowsOK
  <2> QED
    BY <1>5, <2>1, <2>2 DEF Held, Flies
<1>13. Posting(send, view)'
  <2>1. n + 1 # 0
    OBVIOUS
  <2> QED
    BY <1>2, <1>4, <1>8, <1>9, <1>10, <1>11, <2>1 DEF Posting
<1>14. SendOK' /\ ViewOK'
  BY <1>10, <1>13 DEF SendOK, ViewOK, Streaming
<1> QED
  BY <1>8, <1>9, <1>10, <1>12, <1>14, Assemble

\* The stream is followed on, with the turn as it was.
LEMMA FollowOn ==
    ASSUME ChatInv, send.pc \notin {"idle", "posting"}, UNCHANGED <<runs, thread, view, cached, data>>,
           send' \in Sending, send'.pc \notin {"idle", "posting"},
           send'.known = send.known, send'.target = send.target, send'.run = send.run,
           Following(send, view) => Reduces(view[Len(view)].events, send'),
           send'.pc # "attach" => send'.last <= send'.cursor,
           send'.pc \in {"reload", "reloading"} => send.pc \in {"reload", "reloading"},
           thread \in Threads => Flies(inflight', Len(runs), thread)
    PROVE  ChatInv'
<1> USE Parts
<1>1. Following(send, view)
  BY DEF SendOK
<1>2. Following(send, view)'
  BY <1>1 DEF Following
<1>3. SendOK' /\ ViewOK'
  BY <1>2 DEF SendOK, ViewOK, Streaming
<1>4. Flies(inflight', Len(runs), thread)
  BY <1>1 DEF Following
<1> QED
  BY <1>3, <1>4, Assemble

\* What an attachment and its end leave of the reduced events.
LEMMA CursorSteps ==
    ASSUME NEW events, NEW s \in Sending, NEW z \in Sending, Reduces(events, s),
           \/ s.pc = "attach" /\ z.pc = "reading" /\ z.cursor = s.last /\ z.last = s.last
              /\ z.thrown = s.thrown
           \/ s.pc = "reading" /\ z.pc = "attach" /\ z.last = s.cursor /\ z.cursor = s.cursor
              /\ z.thrown = s.thrown
           \/ z.pc = "attach" /\ z.last = s.last /\ z.cursor = s.cursor /\ z.thrown
           \/ z.pc \notin {"attach", "reading"} /\ z.last = s.last /\ z.cursor = s.cursor
              /\ z.thrown = s.thrown
    PROVE  Reduces(events, z)
<1>1. events \in Seq(Nat)
  BY DEF Reduces
<1>2. PICK h \in 0..Len(events) :
         /\ ToSet(events) = 1..h /\ s.cursor <= h /\ s.last <= h
         /\ ~s.thrown => /\ events = Prefix(h)
                         /\ s.pc = "reading" => s.cursor = h
                         /\ s.pc = "attach" => s.last = h
  BY DEF Reduces
<1>3. z.cursor <= h /\ z.last <= h
  BY <1>2
<1>4. ~z.thrown => /\ events = Prefix(h)
                   /\ z.pc = "reading" => z.cursor = h
                   /\ z.pc = "attach" => z.last = h
  BY <1>2
<1> QED
  BY <1>1, <1>2, <1>3, <1>4 DEF Reduces

\* An attachment starts after the last cursor, or ends; the reload starts.
LEMMA StreamSteps ==
    ASSUME ChatInv, Attach \/ StreamCloses \/ StreamBreaks \/ Reload
    PROVE  ChatInv'
<1>1. send \in Sending /\ Flies(inflight, Len(runs), thread)
      /\ (send.pc \notin {"idle", "posting"} => Following(send, view))
  BY Parts DEF SendOK
<1>2. UNCHANGED <<runs, thread, view, cached, data>>
  BY DEF Attach, StreamCloses, StreamBreaks, Reload
<1>3. CASE Attach
  <2>1. send.pc = "attach" /\ send' = [send EXCEPT !.pc = "reading", !.cursor = send.last]
        /\ inflight' = inflight
    BY <1>3 DEF Attach
  <2>2. /\ send' \in Sending /\ send'.pc = "reading" /\ send'.cursor = send.last
        /\ send'.last = send.last /\ send'.known = send.known /\ send'.target = send.target
        /\ send'.run = send.run /\ send'.thrown = send.thrown
    BY <1>1, <2>1 DEF Sending, Pcs
  <2>3. send'.last <= send'.cursor
    <3>1. send.last \in Nat
      BY <1>1 DEF Sending
    <3> QED
      BY <2>2, <3>1
  <2>4. Following(send, view) => Reduces(view[Len(view)].events, send')
    BY <1>1, <2>1, <2>2, CursorSteps DEF Following
  <2> QED
    BY <1>1, <1>2, <2>1, <2>2, <2>3, <2>4, FollowOn
<1>4. CASE StreamCloses
  <2>1. send.pc = "reading" /\ send' = [send EXCEPT !.pc = "attach", !.last = send.cursor]
        /\ inflight' = inflight
    BY <1>4 DEF StreamCloses, Remembered
  <2>2. /\ send' \in Sending /\ send'.pc = "attach" /\ send'.cursor = send.cursor
        /\ send'.last = send.cursor /\ send'.known = send.known /\ send'.target = send.target
        /\ send'.run = send.run /\ send'.thrown = send.thrown
    BY <1>1, <2>1 DEF Sending, Pcs
  <2>3. Following(send, view) => Reduces(view[Len(view)].events, send')
    BY <1>1, <2>1, <2>2, CursorSteps DEF Following
  <2> QED
    BY <1>1, <1>2, <2>1, <2>2, <2>3, FollowOn
<1>5. CASE StreamBreaks
  <2>1. send.pc = "reading" /\ send' = [send EXCEPT !.pc = "attach", !.thrown = TRUE]
        /\ inflight' = inflight
    BY <1>5 DEF StreamBreaks
  <2>2. /\ send' \in Sending /\ send'.pc = "attach" /\ send'.cursor = send.cursor
        /\ send'.last = send.last /\ send'.known = send.known /\ send'.target = send.target
        /\ send'.run = send.run /\ send'.thrown = TRUE
    BY <1>1, <2>1 DEF Sending, Pcs
  <2>3. Following(send, view) => Reduces(view[Len(view)].events, send')
    BY <1>1, <2>1, <2>2, CursorSteps DEF Following
  <2> QED
    BY <1>1, <1>2, <2>1, <2>2, <2>3, FollowOn
<1>6. CASE Reload
  <2>1. send.pc = "reload" /\ send' = [send EXCEPT !.pc = "reloading"]
        /\ inflight' = IF inflight = None THEN Asked ELSE inflight
    BY <1>6 DEF Reload
  <2>2. /\ send' \in Sending /\ send'.pc = "reloading" /\ send'.cursor = send.cursor
        /\ send'.last = send.last /\ send'.known = send.known /\ send'.target = send.target
        /\ send'.run = send.run /\ send'.thrown = send.thrown
    BY <1>1, <2>1 DEF Sending, Pcs
  <2>3. Following(send, view) => Reduces(view[Len(view)].events, send')
    BY <1>1, <2>1, <2>2, CursorSteps DEF Following
  <2>4. send'.last <= send'.cursor
    BY <1>1, <2>1, <2>2 DEF Following
  <2>5. thread \in Threads => Flies(inflight', Len(runs), thread)
    BY <1>1, <2>1, ChatAssumption DEF Flies
  <2> QED
    BY <1>1, <1>2, <2>1, <2>2, <2>3, <2>4, <2>5, FollowOn
<1> QED
  BY <1>3, <1>4, <1>5, <1>6

\* Before the first event nothing has been reduced.
LEMMA NothingReduced ==
    ASSUME NEW s, s.cursor = 0, s.last = 0
    PROVE  Reduces(<<>>, s)
<1>1. <<>> \in Seq(Nat) /\ 0 \in 0..Len(<<>>)
  OBVIOUS
<1>2. ToSet(<<>>) = 1..0
  BY DEF ToSet
<1>3. <<>> = Prefix(0)
  BY DEF Prefix
<1>4. s.cursor <= 0 /\ s.last <= 0
  OBVIOUS
<1> QED
  BY <1>1, <1>2, <1>3, <1>4 DEF Reduces

\* 202: the optimistic turn has its run.
LEMMA AcceptedStep ==
    ASSUME ChatInv, Accepted
    PROVE  ChatInv'
<1>1. send.pc = "posting" /\ send.run # 0 /\ send' = [send EXCEPT !.pc = "attach", !.known = TRUE]
      /\ runs' = runs /\ data' = data /\ inflight' = inflight
  BY DEF Accepted
<1>2. send \in Sending /\ Posting(send, view)
  BY <1>1, Parts DEF SendOK
<1>3. /\ send' \in Sending /\ send'.pc = "attach" /\ send'.cursor = 0 /\ send'.last = 0
      /\ send'.known = TRUE /\ send'.target = send.target /\ send'.run = send.run
      /\ send'.thrown = FALSE
  <2>1. /\ send' \in Sending /\ send'.pc = "attach" /\ send'.cursor = send.cursor
        /\ send'.last = send.last
        /\ send'.known = TRUE /\ send'.target = send.target /\ send'.run = send.run
        /\ send'.thrown = send.thrown
    BY <1>1, <1>2 DEF Sending, Pcs
  <2>2. send.cursor = 0 /\ send.last = 0 /\ send.thrown = FALSE
    BY <1>2 DEF Posting, Sending
  <2> QED
    BY <2>1, <2>2
<1>4. PICK n \in Nat : n = Len(view)
  BY Parts
<1>5. DOMAIN view = 1..n /\ n > 0 /\ \A i \in 1..n : view[i] \in Turn
  BY <1>2, <1>4, Parts DEF Posting
<1>6. view[n].run = 0 /\ view[n].events = <<>>
  BY <1>2, <1>4 DEF Posting
<1>7. send.run \in DOMAIN runs /\ send.target \in Threads /\ OnlyTurn(view, send.run)
  BY <1>1, <1>2 DEF Posting
<1>8. send.run \in Nat /\ send.run \in 0..Len(runs)
  BY <1>7, Parts
<1> DEFINE After(i) == IF view[i].run = 0 /\ i = n THEN [view[i] EXCEPT !.run = send.run] ELSE view[i]
<1>9. PICK out : out = [i \in 1..n |-> After(i)]
  OBVIOUS
<1>10. Shows(send.target, out)
  BY <1>4, <1>5, <1>9 DEF Accepted
<1>11. \A i \in 1..n : After(i) \in Turn /\ (i # n => After(i) = view[i])
                       /\ (i = n => After(i).run = send.run /\ After(i).events = view[i].events)
  BY <1>5, <1>6, <1>8 DEF Turn
<1> HIDE DEF After
<1>12. /\ out \in Seq(Turn) /\ Len(out) = n /\ out # <<>> /\ DOMAIN out = 1..n
       /\ out[n].run = send.run /\ out[n].events = <<>>
       /\ \A i \in 1..(n - 1) : out[i] = view[i]
  BY <1>5, <1>6, <1>9, <1>11
<1>13. TurnsOK(out, Len(runs))
  <2> SUFFICES ASSUME NEW i \in 1..n PROVE out[i].run \in 0..Len(runs)
    BY <1>12 DEF TurnsOK
  <2>1. CASE i = n
    BY <2>1, <1>8, <1>12
  <2>2. CASE i # n
    <3>1. out[i] = view[i]
      BY <2>2, <1>12
    <3>2. TurnsOK(view, Len(runs))
      BY Parts
    <3> QED
      BY <3>1, <3>2, <1>5 DEF TurnsOK
  <2> QED
    BY <2>1, <2>2
<1>14. OnlyTurn(out, send.run)
  BY <1>4, <1>7, <1>12 DEF OnlyTurn
<1>15. /\ thread' = send.target /\ view' = out /\ cached' \in [Threads -> Seq(Turn)]
       /\ \A u \in Threads : TurnsOK(cached'[u], Len(runs))
  BY <1>7, <1>10, <1>12, <1>13, Parts, ShowsFacts
<1>16. Reduces(<<>>, send')
  BY <1>3, NothingReduced
<1>17. Following(send, view)'
  BY <1>1, <1>3, <1>7, <1>12, <1>14, <1>15, <1>16 DEF Following
<1>18. SendOK' /\ ViewOK'
  BY <1>3, <1>17 DEF SendOK, ViewOK, Streaming
<1>19. Flies(inflight', Len(runs'), thread')
  <2>1. thread' # None
    BY <1>7, <1>15, ChatAssumption
  <2> QED
    BY <1>1, <2>1, Parts DEF Flies
<1>20. runs' \in Seq(Run) /\ Held(data', Len(runs')) /\ thread' \in Threads \cup {None}
  BY <1>1, <1>7, <1>15, Parts
<1> QED
  BY <1>1, <1>3, <1>12, <1>13, <1>15, <1>18, <1>19, <1>20, Assemble

\* An event at the end of the events.
LEMMA OneMoreReduced ==
    ASSUME NEW events, NEW s \in Sending, NEW z \in Sending, Reduces(events, s),
           s.pc = "reading", z.cursor = s.cursor + 1, z.last = s.last,
           z.thrown = s.thrown, z.pc # "attach", NEW out, out = Append(events, z.cursor)
    PROVE  Reduces(out, z) /\ out # <<>> /\ out[Len(out)] = z.cursor
<1> PICK i : i = z.cursor
  OBVIOUS
<1>1. events \in Seq(Nat) /\ i \in Nat /\ s.cursor \in Nat /\ s.last \in Nat
  BY DEF Reduces, Sending
<1>2. PICK h \in 0..Len(events) :
         /\ ToSet(events) = 1..h /\ s.cursor <= h /\ s.last <= h
         /\ ~s.thrown => events = Prefix(h) /\ s.cursor = h
  BY DEF Reduces
<1>3. PICK n \in Nat : n = Len(events)
  BY <1>1
<1>4. /\ out \in Seq(Nat) /\ Len(out) = n + 1 /\ DOMAIN out = 1..(n + 1) /\ out[n + 1] = i
      /\ \A j \in 1..n : out[j] = events[j]
  BY <1>1, <1>3
<1>5. ToSet(out) = ToSet(events) \cup {i}
  <2>1. DOMAIN events = 1..n
    BY <1>1, <1>3
  <2> QED
    BY <1>3, <1>4, <2>1 DEF ToSet
<1>6. PICK k \in Nat : k = IF i = h + 1 THEN h + 1 ELSE h
  BY <1>2
<1>7. k \in 0..Len(out) /\ ToSet(out) = 1..k /\ z.cursor <= k /\ z.last <= k
  <2>1. CASE i = h + 1
    <3>1. 1..(h + 1) = (1..h) \cup {h + 1}
      BY <1>2
    <3>2. k = h + 1 /\ ToSet(out) = 1..k
      BY <2>1, <3>1, <1>2, <1>5, <1>6
    <3> QED
      BY <3>2, <2>1, <1>1, <1>2, <1>3, <1>4
  <2>2. CASE i # h + 1
    <3>1. i \in 1..h /\ k = h
      BY <2>2, <1>1, <1>2, <1>6
    <3>2. ToSet(out) = 1..k
      BY <3>1, <1>2, <1>5
    <3> QED
      BY <3>1, <3>2, <1>1, <1>2, <1>3, <1>4
  <2> QED
    BY <2>1, <2>2
<1>8. ~z.thrown => out = Prefix(k) /\ z.cursor = k
  <2> SUFFICES ASSUME ~z.thrown PROVE out = Prefix(k) /\ z.cursor = k
    OBVIOUS
  <2>1. events = Prefix(h) /\ s.cursor = h
    BY <1>2
  <2>2. i = h + 1 /\ k = h + 1
    BY <2>1, <1>6
  <2>3. n = h /\ \A j \in 1..h : events[j] = j
    <3>1. Len(Prefix(h)) = h
      BY <1>2 DEF Prefix
    <3> QED
      BY <2>1, <3>1, <1>3 DEF Prefix
  <2>4. \A j \in 1..(h + 1) : out[j] = j
    BY <1>2, <1>4, <2>2, <2>3
  <2>5. out = [j \in 1..(h + 1) |-> j]
    BY <1>4, <2>3, <2>4
  <2> QED
    BY <2>2, <2>5 DEF Prefix
<1>9. Reduces(out, z)
  BY <1>4, <1>7, <1>8 DEF Reduces
<1> QED
  BY <1>4, <1>9

\* The turn an event is reduced into.
LEMMA ReducedFacts ==
    ASSUME NEW turn \in Turn, turn.events \in Seq(Nat), NEW i \in Nat,
           runs[send.run].status \in Statuses, NEW new, new = Reduced(turn, i)
    PROVE  /\ new \in Turn /\ new.run = turn.run /\ new.events = Append(turn.events, i)
           /\ IsRunEnd(send.run, i) => new.status = runs[send.run].status
<1>1. PICK events \in Seq(Nat) : events = Append(turn.events, i)
  <2>1. PICK old \in Seq(Nat) : old = turn.events
    OBVIOUS
  <2>2. Append(old, i) \in Seq(Nat)
    OBVIOUS
  <2> QED
    BY <2>1, <2>2, Zenon
<1>2. PICK status \in Statuses : status = IF IsRunEnd(send.run, i) THEN runs[send.run].status
                                          ELSE turn.status
  BY DEF Turn
<1>3. PICK mid : mid = [turn EXCEPT !.events = events]
  OBVIOUS
<1>4. mid \in Turn /\ mid.run = turn.run /\ mid.status = turn.status /\ mid.events = events
  BY <1>1, <1>3 DEF Turn
<1>5. new = [mid EXCEPT !.status = status]
  BY <1>1, <1>2, <1>3, <1>4 DEF Reduced
<1>6. new \in Turn /\ new.run = mid.run /\ new.events = mid.events /\ new.status = status
  BY <1>4, <1>5 DEF Turn
<1> QED
  BY <1>1, <1>2, <1>4, <1>6

\* The event after the cursor is reduced into the turn of the send, the last one.
LEMMA NextEventStep ==
    ASSUME ChatInv, NextEvent
    PROVE  ChatInv'
<1>1. PICK i : i = send.cursor + 1
  OBVIOUS
<1>2. send.pc = "reading" /\ Receive(i) /\ runs' = runs /\ data' = data /\ inflight' = inflight
  BY <1>1 DEF NextEvent
<1>3. send \in Sending /\ Following(send, view)
  BY <1>2, Parts DEF SendOK
<1>4. i \in Nat /\ send.cursor \in Nat /\ send.last \in Nat
  BY <1>1, <1>3 DEF Sending
<1>5. PICK pc \in {"reading", "reload"} : pc = IF IsRunEnd(send.run, i) THEN "reload" ELSE send.pc
  BY <1>2
<1>6. /\ send' \in Sending /\ send'.pc = pc /\ send'.cursor = i /\ send'.last = send.last
      /\ send'.known = send.known /\ send'.target = send.target /\ send'.run = send.run
      /\ send'.thrown = send.thrown
  <2>1. PICK mid : mid = [send EXCEPT !.cursor = i]
    OBVIOUS
  <2>2. /\ mid \in Sending /\ mid.pc = send.pc /\ mid.cursor = i /\ mid.last = send.last
        /\ mid.known = send.known /\ mid.target = send.target /\ mid.run = send.run
        /\ mid.thrown = send.thrown
    BY <1>3, <1>4, <2>1 DEF Sending
  <2>3. send' = [mid EXCEPT !.pc = pc]
    BY <1>2, <1>5, <2>1, <2>2 DEF Receive
  <2>4. /\ send' \in Sending /\ send'.pc = pc /\ send'.cursor = mid.cursor /\ send'.last = mid.last
        /\ send'.known = mid.known /\ send'.target = mid.target /\ send'.run = mid.run
        /\ send'.thrown = mid.thrown
    BY <2>2, <2>3 DEF Sending, Pcs
  <2> QED
    BY <2>2, <2>4
<1>7. PICK n \in Nat : n = Len(view)
  BY Parts
<1>8. DOMAIN view = 1..n /\ n > 0 /\ \A j \in 1..n : view[j] \in Turn
  BY <1>3, <1>7, Parts DEF Following
<1>9. /\ send.known /\ thread = send.target /\ thread \in Threads /\ send.run \in DOMAIN runs
      /\ view[n].run = send.run /\ OnlyTurn(view, send.run) /\ Reduces(view[n].events, send)
      /\ send.last <= send.cursor
  BY <1>2, <1>3, <1>7 DEF Following
<1>10. view[n].events \in Seq(Nat) /\ runs[send.run].status \in Statuses
  <2>1. runs[send.run] \in Run
    BY <1>9, Parts
  <2> QED
    BY <1>9, <2>1 DEF Reduces, Run, Statuses
<1>11. PICK new : new = Reduced(view[n], i)
  OBVIOUS
<1>12. /\ new \in Turn /\ new.run = send.run /\ new.events = Append(view[n].events, i)
       /\ IsRunEnd(send.run, i) => new.status = runs[send.run].status
  BY <1>4, <1>8, <1>9, <1>10, <1>11, ReducedFacts
<1>13. PICK out : out = [j \in 1..n |-> IF j = n THEN new ELSE view[j]]
  OBVIOUS
<1>14. Shows(thread, out)
  <2> DEFINE After(j) == IF view[j].run = send.run THEN Reduced(view[j], i) ELSE view[j]
  <2>1. Shows(thread, [j \in 1..n |-> After(j)])
    BY <1>2, <1>8 DEF Receive
  <2>2. \A j \in 1..n : view[j].run = send.run <=> j = n
    BY <1>7, <1>8, <1>9 DEF OnlyTurn
  <2>3. \A j \in 1..n : After(j) = IF j = n THEN new ELSE view[j]
    BY <1>11, <2>2
  <2> HIDE DEF After
  <2>4. out = [j \in 1..n |-> After(j)]
    BY <1>13, <2>3
  <2> QED
    BY <2>1, <2>4
<1>15. /\ out \in Seq(Turn) /\ Len(out) = n /\ out # <<>> /\ DOMAIN out = 1..n /\ out[n] = new
       /\ \A j \in 1..(n - 1) : out[j] = view[j]
  BY <1>8, <1>12, <1>13
<1>16. TurnsOK(out, Len(runs))
  <2> SUFFICES ASSUME NEW j \in 1..n PROVE out[j].run \in 0..Len(runs)
    BY <1>15 DEF TurnsOK
  <2>1. TurnsOK(view, Len(runs))
    BY Parts
  <2>2. view[j].run \in 0..Len(runs)
    BY <2>1, <1>8 DEF TurnsOK
  <2>3. CASE j = n
    BY <2>2, <2>3, <1>9, <1>12, <1>15
  <2>4. CASE j # n
    BY <2>2, <2>4, <1>15
  <2> QED
    BY <2>3, <2>4
<1>17. OnlyTurn(out, send.run)
  BY <1>7, <1>9, <1>15 DEF OnlyTurn
<1>18. /\ thread' = thread /\ view' = out /\ cached' \in [Threads -> Seq(Turn)]
       /\ \A u \in Threads : TurnsOK(cached'[u], Len(runs))
  BY <1>9, <1>14, <1>15, <1>16, Parts, ShowsFacts
<1>19. Reduces(new.events, send') /\ new.events # <<>> /\ new.events[Len(new.events)] = i
  <2>1. PICK events : events = view[n].events
    OBVIOUS
  <2>2. Reduces(events, send) /\ new.events = Append(events, i)
    BY <1>9, <1>12, <2>1
  <2>3. send'.pc # "attach" /\ send'.cursor = i /\ send'.last = send.last
        /\ send'.thrown = send.thrown /\ send' \in Sending
    BY <1>5, <1>6
  <2>4. PICK z \in Sending : z = send'
    BY <2>3
  <2>5. z.pc # "attach" /\ z.cursor = i /\ z.last = send.last /\ z.thrown = send.thrown
    BY <2>3, <2>4
  <2>6. PICK longer : longer = Append(events, i)
    OBVIOUS
  <2>7. Reduces(longer, z) /\ longer # <<>> /\ longer[Len(longer)] = i
    <3>1. Reduces(events, send) /\ send.pc = "reading" /\ send \in Sending
      BY <1>2, <1>3, <2>2
    <3>2. z.cursor = send.cursor + 1 /\ longer = Append(events, z.cursor)
      BY <1>1, <2>5, <2>6
    <3> QED
      BY <2>5, <3>1, <3>2, OneMoreReduced, Zenon
  <2> QED
    BY <2>2, <2>4, <2>6, <2>7
<1>20. send'.last <= send'.cursor
  BY <1>1, <1>4, <1>6, <1>9
<1>21. pc = "reload" => /\ i = runs[send.run].events /\ runs[send.run].status \in Final
                        /\ new.status = runs[send.run].status
  BY <1>2, <1>5, <1>12 DEF IsRunEnd
<1>22. Following(send, view)'
  <2>1. send'.pc \notin {"attach", "reloading"}
    BY <1>5, <1>6
  <2>2. view' # <<>> /\ view'[Len(view')] = new /\ OnlyTurn(view, send.run)'
    BY <1>6, <1>15, <1>17, <1>18 DEF OnlyTurn
  <2>3. runs' = runs /\ send'.run = send.run /\ send'.target = thread' /\ send'.known
    BY <1>2, <1>6, <1>9, <1>18
  <2>4. send'.run \in DOMAIN runs' /\ send'.target \in Threads
    BY <1>9, <1>18, <2>3
  <2>5. send'.pc = "reload" => /\ new.events[Len(new.events)] = runs'[send'.run].events
                               /\ runs'[send'.run].status \in Final
                               /\ new.status = runs'[send'.run].status
    BY <1>6, <1>19, <1>21, <2>3
  <2>6. new.run = send'.run
    BY <1>12, <2>3
  <2> QED
    BY <1>19, <1>20, <2>1, <2>2, <2>3, <2>4, <2>5, <2>6 DEF Following
<1>23. SendOK' /\ ViewOK'
  BY <1>5, <1>6, <1>22 DEF SendOK, ViewOK, Streaming
<1>24. /\ runs' \in Seq(Run) /\ Held(data', Len(runs')) /\ thread' \in Threads \cup {None}
       /\ Flies(inflight', Len(runs'), thread')
  BY <1>2, <1>18, Parts
<1> QED
  BY <1>2, <1>6, <1>15, <1>16, <1>18, <1>23, <1>24, Assemble

\* The start of the tab: nothing is shown, held or sent.
LEMMA InitInv ==
    ASSUME Init
    PROVE  ChatInv
<1>1. PICK t \in Threads, opened \in BOOLEAN :
         /\ runs = <<[thread |-> t, status |-> "completed", events |-> 2]>>
         /\ thread = IF opened THEN t ELSE None
  BY DEF Init
<1>2. /\ view = <<>> /\ cached = [u \in Threads |-> <<>>] /\ send = Idle
      /\ data = [u \in Threads |-> None] /\ inflight = None
  BY DEF Init
<1>3. [thread |-> t, status |-> "completed", events |-> 2] \in Run
  BY DEF Run, Final
<1>4. runs \in Seq(Run)
  BY <1>1, <1>3
<1>5. view \in Seq(Turn) /\ TurnsOK(view, Len(runs))
  BY <1>2 DEF TurnsOK
<1>6. cached \in [Threads -> Seq(Turn)] /\ \A u \in Threads : TurnsOK(cached[u], Len(runs))
  BY <1>2 DEF TurnsOK
<1>7. send \in Sending /\ send.pc = "idle"
  BY <1>2, IdleFacts
<1>8. data \in [Threads -> Seq(Row) \cup {None}] /\ \A u \in Threads : data[u] = None
  BY <1>2
<1>9. thread \in Threads \cup {None}
  BY <1>1
<1>10. Shape
  BY <1>2, <1>4, <1>5, <1>6, <1>7, <1>8, <1>9 DEF Shape
<1>11. RunsExist
  BY <1>2, <1>5, <1>6, <1>8 DEF RunsExist
<1>12. SendOK
  BY <1>2, <1>7 DEF SendOK
<1>13. ViewOK
  BY <1>8, <1>9 DEF ViewOK
<1> QED
  BY <1>2, <1>10, <1>11, <1>12, <1>13 DEF ChatInv

\* Every step of the tab, the server or the network keeps the invariant.
LEMMA ChatStep ==
    ASSUME ChatInv, [Next]_vars
    PROVE  ChatInv'
<1>1. CASE \E r \in DOMAIN runs : ServerEmits(r)
  BY <1>1, ServerEmitsStep
<1>2. CASE Server
  BY <1>2, ServerEndsStep
<1>3. CASE StopCancels
  BY <1>3, StopCancelsStep
<1>4. CASE Fetch \/ FetchAnswered \/ AttachFails \/ UNCHANGED vars
  BY <1>4, FetchSteps
<1>5. CASE FetchArrives \/ FetchFails
  BY <1>5, FetchEnds
<1>6. CASE NewThread \/ \E t \in Threads : OpenThread(t)
  BY <1>6, SelectSteps
<1>7. CASE \E new \in BOOLEAN : Send(new)
  BY <1>7, SendStep
<1>8. CASE Admit
  BY <1>8, AdmitStep
<1>9. CASE Accepted
  BY <1>9, AcceptedStep
<1>10. CASE PostFails \/ AttachRefused \/ StopAborts
  BY <1>10, ErrorSteps
<1>11. CASE Attach \/ StreamCloses \/ StreamBreaks \/ Reload
  BY <1>11, StreamSteps
<1>12. CASE NextEvent
  BY <1>12, NextEventStep
<1> QED
  BY <1>1, <1>2, <1>3, <1>4, <1>5, <1>6, <1>7, <1>8, <1>9, <1>10, <1>11, <1>12 DEF Next, Progress

\* The invariant of the chat holds in every state of every behaviour.
THEOREM ChatInductive == Spec => []ChatInv
<1>1. Init => ChatInv
  BY InitInv
<1>2. ChatInv /\ [Next]_vars => ChatInv'
  BY ChatStep
<1> QED
  BY <1>1, <1>2, PTL DEF Spec

\* The client's records stay in their declared states: what is shown, sent and
\* fetched belongs to runs that exist and to the thread that is open.
THEOREM ChatTypes == Spec => []ChatTypeOK
<1>1. ChatInv => ChatTypeOK
  <2> SUFFICES ASSUME ChatInv PROVE ChatTypeOK
    OBVIOUS
  <2>1. send \in Sending /\ SendOK /\ thread \in Threads \cup {None}
    BY Parts
  <2>2. send.pc \in Pcs
    BY <2>1 DEF Sending
  <2>3. send.last <= send.cursor \/ send.pc = "attach"
    <3>1. CASE send.pc = "idle"
      BY <2>1, <3>1 DEF SendOK, Idle
    <3>2. CASE send.pc = "posting"
      BY <2>1, <3>2 DEF SendOK, Posting
    <3>3. CASE send.pc \notin {"idle", "posting"}
      BY <2>1, <3>3 DEF SendOK, Following
    <3> QED
      BY <3>1, <3>2, <3>3
  <2>4. send.known => thread = send.target /\ send.run \in DOMAIN runs
    BY Known DEF Following
  <2>5. inflight # None => thread # None
    BY DEF ChatInv
  <2>6. \A i \in DOMAIN view : view[i].run \in 0..Len(runs)
    BY Parts DEF TurnsOK
  <2> QED
    BY <2>1, <2>2, <2>3, <2>4, <2>5, <2>6 DEF ChatTypeOK, Pcs
<1> QED
  BY <1>1, ChatInductive, PTL

\* What streams into a turn is the run it belongs to, from the first event on
\* and without a gap, once each unless an attachment ended in an exception, and
\* the turn settles with the last event and the status of its run.
THEOREM EventsInOrder == Spec => []EventsReducedInOrder
<1>1. ChatInv => EventsReducedInOrder
  <2> SUFFICES ASSUME ChatInv, send.known PROVE EventsReducedInOrder
    BY DEF EventsReducedInOrder
  <2>1. Following(send, view)
    BY Known
  <2>2. PICK turn : turn = view[Len(view)]
    OBVIOUS
  <2>3. turn.run = send.run /\ OnlyTurn(view, send.run) /\ Reduces(turn.events, send)
    BY <2>1, <2>2 DEF Following
  <2>4. PICK h \in 0..Len(turn.events) :
           ToSet(turn.events) = 1..h /\ (~send.thrown => turn.events = Prefix(h))
    BY <2>3 DEF Reduces
  <2>5. turn.events \in Seq(Nat)
    BY <2>3 DEF Reduces
  <2>6. h \in Nat
    BY <2>4, <2>5
  <2>7. Cardinality(1..h) = h
    <3>1. Cardinality(1..h) = IF 1 > h THEN 0 ELSE h - 1 + 1
      BY <2>6, FS_Interval
    <3> QED
      BY <3>1, <2>6
  <2>8. ToSet(turn.events) = 1..Cardinality(ToSet(turn.events))
    BY <2>4, <2>7
  <2>9. ~send.thrown => turn.events = Prefix(Len(turn.events))
    <3>1. Len(Prefix(h)) = h
      BY <2>6 DEF Prefix
    <3> QED
      BY <2>4, <3>1
  <2>10. send.pc \in {"reload", "reloading"} =>
            /\ turn.events[Len(turn.events)] = runs[send.run].events
            /\ turn.status = runs[send.run].status
    BY <2>1, <2>2 DEF Following
  <2>11. \A i \in 1..(Len(view) - 1) : view[i].run # send.run
    BY <2>3 DEF OnlyTurn
  <2> QED
    BY <2>2, <2>3, <2>8, <2>9, <2>10, <2>11 DEF EventsReducedInOrder
<1> QED
  BY <1>1, ChatInductive, PTL

\* Once the current transcript is loaded and nothing streams, the view is the
\* transcript, whatever was sent, stopped, refused or interrupted before.
THEOREM ViewIsTranscript == Spec => []ViewShowsTranscript
<1>1. ChatInv => ViewShowsTranscript
  <2> SUFFICES ASSUME ChatInv, ~Streaming, thread # None, data[thread] = Transcript(thread)
               PROVE  /\ Len(view) = Len(data[thread])
                      /\ \A i \in DOMAIN view :
                            /\ view[i].run = data[thread][i].run
                            /\ view[i].status = data[thread][i].status
                            /\ view[i].events = Stored \/ view[i].status = "cancelled"
    BY DEF ViewShowsTranscript
  <2>1. runs \in Seq(Run) /\ ViewOK
    BY Parts
  <2>2. Transcript(thread) \in Seq(Row)
    BY <2>1, TranscriptFacts
  <2>3. data[thread] # None
    <3>1. Row = [run : Nat, status : {"in_progress", "completed", "failed", "cancelled"}]
      BY DEF Row, Final
    <3>2. None \notin Seq(Row)
      BY <3>1, ChatAssumption, Zenon
    <3> QED
      BY <2>2, <3>2
  <2>4. Agrees(view, data[thread])
    BY <2>1, <2>3 DEF ViewOK
  <2> QED
    BY <2>4 DEF Agrees
<1> QED
  BY <1>1, ChatInductive, PTL
=============================================================================
