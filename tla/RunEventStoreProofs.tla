------------------------ MODULE RunEventStoreProofs ------------------------
(***************************************************************************)
(* The event transport for any number of runs and readers and any limits:  *)
(* the buffer keeps to its limits and keeps the runs that are live; readers*)
(* get nothing twice, and miss nothing nor wait for ever for run_end, but  *)
(* for those the properties name: readers who follow Redis for a run whose *)
(* publications failed, above all.                                         *)
(*                                                                         *)
(* The inductive invariant StoreInv ties each copy of a run's stream to    *)
(* what its producer has handed over: a buffered stream is the newest part *)
(* of it (StreamOK), the Redis stream of a run that never failed all of    *)
(* it (RedisOK), and what a reader was sent the part between the           *)
(* Last-Event-ID it came with and its cursor (ReaderOK).                   *)
(***************************************************************************)
EXTENDS RunEventStore, WellFoundedInduction, SequenceTheorems, FiniteSetTheorems,
        TLAPS

Event == [id : 1..MaxId, end : BOOLEAN]
Stream == [events : Seq(Event), terminal : BOOLEAN]
Produced == [last : 0..MaxId, ended : BOOLEAN]
Reader == [pc : {"idle", "reading", "done"}, run : Runs \cup {None},
           source : {"none", "primary", "local", "orphan"},
           after : Nat, cursor : Nat, got : Seq(Event), orphan : Stream]

Shape ==
    /\ primary \in [Runs -> Seq(Event)]
    /\ streams \in [Runs -> Stream]
    /\ order \in Seq(Runs) /\ degraded \in Seq(Runs)
    /\ produced \in [Runs -> Produced]
    /\ pending \in [Runs -> Event \cup {None}]
    /\ readers \in [Readers -> Reader]
    /\ budget \in Nat
    /\ failed \subseteq Runs

\* Each value once, and no more of them than the limit.
Bounded(s) == IsInjective(s) /\ Len(s) <= MaxStreams

\* The event of number i among those produced.
EventOf(p, i) == [id |-> i, end |-> p.ended /\ i = p.last]

\* The events are the newest ones of those produced.
Newest(events, p) ==
    /\ Len(events) <= p.last
    /\ \A i \in DOMAIN events : events[i] = EventOf(p, p.last - Len(events) + i)

Smaller(a, b) == IF a < b THEN a ELSE b

\* The whole of what a bounded stream can hold of the events produced.
Full(events, p) == Len(events) = Smaller(p.last, MaxEvents)

\* The producer of a run, and the event whose publication it awaits: its last.
ProducerOK(p, e) ==
    /\ p.ended => p.last > 0
    /\ e # None => p.last > 0 /\ e = EventOf(p, p.last)

\* A buffered stream holds the newest events, and is terminal when the run is.
StreamOK(s, p) ==
    /\ p.last > 0
    /\ Newest(s.events, p) /\ Len(s.events) <= MaxEvents
    /\ s.terminal <=> p.ended
    /\ p.ended => s.events # <<>>
    /\ BufferSuffices => Full(s.events, p)

\* The events in Redis of a run that never failed: all of them but the one that
\* is awaited, unless they have expired; or the finished stream of a replay.
RedisOK(s, p, e, replayed) ==
    /\ \A i \in DOMAIN s : s[i].id = i /\ (s[i].end => i = Len(s))
    /\ replayed => s = OldStream /\ (p.last = 0 \/ (p.last = 1 /\ e # None))
    /\ ~replayed =>
          \/ s = <<>> /\ p.ended /\ e = None
          \/ /\ Len(s) = IF e = None THEN p.last ELSE p.last - 1
             /\ \A i \in DOMAIN s : s[i] = EventOf(p, i)

RunOK(r) ==
    /\ ProducerOK(produced[r], pending[r])
    /\ r \in failed => produced[r].last > 0
    /\ r \in Range(degraded) => r \in failed
    /\ Buffered(r) => StreamOK(streams[r], produced[r])
    /\ ~Buffered(r) => streams[r] = NoStream /\ (BufferSuffices => r \notin Live)
    /\ Increase(primary[r])
    /\ r \notin failed => RedisOK(primary[r], produced[r], pending[r], r \in Replayed)

\* What a reader was sent increases from its Last-Event-ID and ends with run_end.
GotOK(q) ==
    /\ \A i \in DOMAIN q.got :
          /\ q.got[i].id > (IF i = 1 THEN q.after ELSE q.got[i - 1].id)
          /\ q.got[i].end => i = Len(q.got) /\ q.pc = "done"
    /\ q.cursor = IF q.got = <<>> THEN q.after ELSE Last(q.got).id

\* Without a gap.
Gapless(q) == \A i \in DOMAIN q.got : q.got[i].id = q.after + i

\* A reader that has not come to the end waits below it.
BelowTheEnd(q, last, ended) == q.cursor <= last /\ (ended => q.cursor < last)

ReaderOK(q) ==
    /\ q.pc = "idle" => q.source = "none"
    /\ q.pc # "idle" => q.run \in Runs /\ q.source # "none"
    /\ GotOK(q)
    /\ q.pc = "done" /\ q.got # <<>> /\ (q.source # "primary" => BufferSuffices)
          => Last(q.got).end

\* A reader of the Redis stream s.
FromRedis(q, s) ==
    /\ Gapless(q)
    /\ q.pc = "reading" => BelowTheEnd(q, LastId(s), Ended(s))

\* An evicted stream of a buffer that suffices is finished.
OrphanOK(s, p) ==
    /\ Increase(s.events)
    /\ \A i \in DOMAIN s.events : s.events[i].end => i = Len(s.events)
    /\ s.terminal <=> Ended(s.events)
    /\ BufferSuffices => p.ended /\ StreamOK(s, p)

\* A reader of the buffer.
FromBuffer(q, p) ==
    /\ q.source = "orphan" => OrphanOK(q.orphan, p)
    /\ BufferSuffices =>
          /\ p.last <= MaxEvents => Gapless(q)
          /\ q.pc = "reading" /\ q.got # <<>> => BelowTheEnd(q, p.last, p.ended)

FollowsOK(q) ==
    /\ ReaderOK(q)
    /\ q.source = "primary" /\ q.run \notin failed => FromRedis(q, primary[q.run])
    /\ q.source = "local" => Buffered(q.run)
    /\ q.source \in {"local", "orphan"} => FromBuffer(q, produced[q.run])

StoreInv ==
    /\ Shape
    /\ Bounded(order) /\ Bounded(degraded)
    /\ IsFiniteSet(Live) /\ Cardinality(Live) <= MaxLive
    /\ \A r \in Runs : RunOK(r)
    /\ \A x \in Readers : FollowsOK(readers[x])
-----------------------------------------------------------------------------
\* A set of natural numbers that is not empty has a least element, and Min is it.
LEMMA MinIsLeast ==
    ASSUME NEW T, T \subseteq Nat, T # {}
    PROVE  Min(T) \in T /\ \A y \in T : Min(T) <= y
<1> DEFINE R == OpToRel(<, Nat)
<1>1. IsWellFoundedOn(R, Nat)
  BY NatLessThanWellFounded
<1>2. \A y, z \in Nat : y < z => <<y, z>> \in R
  BY DEF OpToRel
<1> HIDE DEF R
<1>3. PICK m \in T : \A y \in T : ~ (<<y, m>> \in R)
  BY <1>1, WFMin
<1>4. \A y \in T : m <= y
  <2> SUFFICES ASSUME NEW y \in T, ~ (m <= y) PROVE FALSE
    OBVIOUS
  <2>1. y \in Nat /\ m \in Nat /\ y < m
    OBVIOUS
  <2>2. <<y, m>> \in R
    BY <1>2, <2>1, Zenon
  <2> QED
    BY <1>3, <2>2, Zenon
<1> QED
  BY <1>4 DEF Min

\* Appending a new value keeps a sequence without duplicates.
LEMMA AppendDistinct ==
    ASSUME NEW S, NEW s \in Seq(S), NEW e \in S, IsInjective(s), e \notin Range(s)
    PROVE  /\ Append(s, e) \in Seq(S) /\ IsInjective(Append(s, e))
           /\ Len(Append(s, e)) = Len(s) + 1
           /\ Range(Append(s, e)) = Range(s) \cup {e}
<1>0. PICK u : u = Append(s, e)
  OBVIOUS
<1>1. /\ u \in Seq(S) /\ Len(u) = Len(s) + 1
      /\ \A i \in 1..Len(s) : u[i] = s[i]
      /\ u[Len(s) + 1] = e
  BY <1>0
<1>2. DOMAIN u = 1..(Len(s) + 1) /\ DOMAIN s = 1..Len(s) /\ Len(s) \in Nat
  BY <1>1
<1>3. \A i \in 1..Len(s) : s[i] \in Range(s) /\ s[i] # e
  BY <1>2 DEF Range
<1>4. IsInjective(u)
  BY <1>1, <1>2, <1>3 DEF IsInjective
<1>5. Range(u) = Range(s) \cup {e}
  BY <1>1, <1>2 DEF Range
<1> QED
  BY <1>0, <1>1, <1>4, <1>5

\* So does the removal of a value.
LEMMA RemoveDistinct ==
    ASSUME NEW S, NEW s \in Seq(S), NEW e, IsInjective(s)
    PROVE  /\ RemoveFirst(s, e) \in Seq(S) /\ IsInjective(RemoveFirst(s, e))
           /\ Range(RemoveFirst(s, e)) = Range(s) \ {e}
           /\ Len(RemoveFirst(s, e)) = IF e \in Range(s) THEN Len(s) - 1 ELSE Len(s)
<1> DEFINE T == {i \in 1..Len(s) : s[i] = e}
<1>0. Len(s) \in Nat /\ DOMAIN s = 1..Len(s) /\ \A i \in 1..Len(s) : s[i] \in S
  OBVIOUS
<1>1. CASE T = {}
  <2>1. RemoveFirst(s, e) = s
    BY <1>1 DEF RemoveFirst
  <2>2. e \notin Range(s)
    BY <1>0, <1>1 DEF Range
  <2> QED
    BY <2>1, <2>2
<1>2. CASE T # {}
  <2>1. PICK k : k = Min(T)
    OBVIOUS
  <2>2. k \in T
    <3>1. T \subseteq Nat
      BY <1>0
    <3> HIDE DEF T
    <3> QED BY <3>1, <2>1, <1>2, MinIsLeast
  <2>3. k \in 1..Len(s) /\ s[k] = e
    BY <2>2
  <2>4. RemoveFirst(s, e) = RemoveAt(s, k)
    BY <1>2, <2>1 DEF RemoveFirst, SelectInSeq
  <2> DEFINE a == SubSeq(s, 1, k - 1)
             b == SubSeq(s, k + 1, Len(s))
             u == RemoveFirst(s, e)
  <2>5. /\ a \in Seq(S) /\ Len(a) = k - 1
        /\ \A i \in 1..(k - 1) : a[i] = s[i]
    <3>1. 1 \in Int /\ k - 1 \in Int /\ \A i \in 1..(k - 1) : s[i] \in S
      BY <2>3, <1>0
    <3>2. /\ a \in Seq(S) /\ Len(a) = IF 1 <= k - 1 THEN k - 1 - 1 + 1 ELSE 0
          /\ \A i \in 1..(k - 1 - 1 + 1) : a[i] = s[1 + i - 1]
      BY <3>1, SubSeqProperties
    <3> QED
      BY <3>2, <2>3, <1>0
  <2>6. /\ b \in Seq(S) /\ Len(b) = Len(s) - k
        /\ \A i \in 1..(Len(s) - k) : b[i] = s[k + i]
    <3>1. k + 1 \in Int /\ Len(s) \in Int /\ \A i \in (k + 1)..Len(s) : s[i] \in S
      BY <2>3, <1>0
    <3>2. /\ b \in Seq(S)
          /\ Len(b) = IF k + 1 <= Len(s) THEN Len(s) - (k + 1) + 1 ELSE 0
          /\ \A i \in 1..(Len(s) - (k + 1) + 1) : b[i] = s[k + 1 + i - 1]
      BY <3>1, SubSeqProperties
    <3> QED
      BY <3>2, <2>3, <1>0
  <2>7. u = a \o b
    BY <2>4 DEF RemoveAt
  <2> HIDE DEF a, b, u, T
  <2>8. /\ u \in Seq(S) /\ Len(u) = Len(s) - 1 /\ DOMAIN u = 1..(Len(s) - 1)
        /\ \A i \in 1..(Len(s) - 1) : u[i] = IF i < k THEN a[i] ELSE b[i - (k - 1)]
    <3>1. /\ u \in Seq(S) /\ Len(u) = Len(a) + Len(b)
          /\ \A i \in 1..(Len(a) + Len(b)) :
                u[i] = IF i <= Len(a) THEN a[i] ELSE b[i - Len(a)]
      BY <2>5, <2>6, <2>7, ConcatProperties
    <3>2. DOMAIN u = 1..Len(u)
      BY <3>1
    <3> QED
      BY <3>1, <3>2, <2>3, <2>5, <2>6, <1>0
  <2>9. \A i \in 1..(Len(s) - 1) : u[i] = s[IF i < k THEN i ELSE i + 1]
    <3> TAKE i \in 1..(Len(s) - 1)
    <3>1. CASE i < k
      BY <3>1, <2>3, <2>5, <2>8, <1>0
    <3>2. CASE ~(i < k)
      <4>1. i - (k - 1) \in 1..(Len(s) - k) /\ k + (i - (k - 1)) = i + 1
        BY <3>2, <2>3, <1>0
      <4> QED
        BY <3>2, <4>1, <2>6, <2>8
    <3> QED
      BY <3>1, <3>2
  <2>10. IsInjective(u)
    <3> SUFFICES ASSUME NEW i \in 1..(Len(s) - 1), NEW j \in 1..(Len(s) - 1), u[i] = u[j]
                 PROVE  i = j
      BY <2>8 DEF IsInjective
    <3> DEFINE f(m) == IF m < k THEN m ELSE m + 1
    <3>1. f(i) \in 1..Len(s) /\ f(j) \in 1..Len(s) /\ (f(i) = f(j) => i = j)
      BY <2>3, <1>0
    <3>2. u[i] = s[f(i)] /\ u[j] = s[f(j)]
      BY <2>9
    <3> HIDE DEF f
    <3> QED
      BY <3>1, <3>2, <1>0 DEF IsInjective
  <2>11. Range(u) \subseteq Range(s) \ {e}
    <3> SUFFICES ASSUME NEW i \in 1..(Len(s) - 1) PROVE u[i] \in Range(s) \ {e}
      BY <2>8 DEF Range
    <3>1. PICK m \in 1..Len(s) : m # k /\ u[i] = s[m]
      <4> DEFINE m == IF i < k THEN i ELSE i + 1
      <4>1. m \in 1..Len(s) /\ m # k
        BY <2>3, <1>0
      <4>2. u[i] = s[m]
        BY <2>9
      <4> HIDE DEF m
      <4> QED BY <4>1, <4>2
    <3> QED
      BY <3>1, <2>3, <1>0 DEF IsInjective, Range
  <2>12. Range(s) \ {e} \subseteq Range(u)
    <3> SUFFICES ASSUME NEW i \in 1..Len(s), s[i] # e PROVE s[i] \in Range(u)
      BY <1>0 DEF Range
    <3>1. CASE i < k
      <4>1. i \in DOMAIN u /\ u[i] = s[i]
        BY <3>1, <2>3, <2>8, <2>9, <1>0
      <4> QED
        BY <4>1 DEF Range
    <3>2. CASE i > k
      <4>1. i - 1 \in DOMAIN u /\ u[i - 1] = s[i]
        BY <3>2, <2>3, <2>8, <2>9, <1>0
      <4> QED
        BY <4>1 DEF Range
    <3> QED
      BY <3>1, <3>2, <2>3, <1>0
  <2>13. e \in Range(s)
    BY <2>3, <1>0 DEF Range
  <2> QED
    BY <2>8, <2>10, <2>11, <2>12, <2>13 DEF u
<1> QED
  BY <1>1, <1>2

\* The newest of a sequence without duplicates, and the others.
LEMMA TailDistinct ==
    ASSUME NEW S, NEW s \in Seq(S), IsInjective(s), s # <<>>
    PROVE  /\ Tail(s) \in Seq(S) /\ IsInjective(Tail(s)) /\ Len(Tail(s)) = Len(s) - 1
           /\ Range(Tail(s)) \subseteq Range(s)
<1>1. /\ Tail(s) \in Seq(S) /\ Len(Tail(s)) = Len(s) - 1 /\ Len(s) \in Nat
      /\ DOMAIN s = 1..Len(s) /\ DOMAIN Tail(s) = 1..(Len(s) - 1)
      /\ \A i \in 1..(Len(s) - 1) : Tail(s)[i] = s[i + 1]
  OBVIOUS
<1>2. IsInjective(Tail(s))
  BY <1>1 DEF IsInjective
<1> QED
  BY <1>1, <1>2 DEF Range

-----------------------------------------------------------------------------
\* The fields of an event.
LEMMA EventFacts ==
    \A e \in Event : e.id \in 1..MaxId /\ e.id \in Nat /\ e.end \in BOOLEAN
<1>1. MaxId \in Nat
  BY StoreAssumption
<1> QED
  BY <1>1 DEF Event

\* What lies beyond a cursor is the rest of the stream.
LEMMA BeyondFacts ==
    ASSUME NEW s \in Seq(Event), Increase(s), NEW c \in Nat,
           NEW b, b = Beyond(s, c)
    PROVE  /\ b \in Seq(Event)
           /\ \E k \in 0..Len(s) :
                /\ Len(b) = Len(s) - k
                /\ \A i \in 1..k : s[i].id <= c
                /\ \A i \in 1..Len(b) : b[i] = s[k + i] /\ s[k + i].id > c
<1> DEFINE T == {i \in 1..Len(s) : s[i].id > c}
<1>1. /\ Len(s) \in Nat /\ DOMAIN s = 1..Len(s)
      /\ \A i \in 1..Len(s) : s[i] \in Event /\ s[i].id \in Nat
  BY EventFacts
<1>2. CASE T = {}
  <2>1. b = <<>>
    BY <1>2 DEF Beyond, SelectInSeq
  <2>2. b \in Seq(Event) /\ Len(b) = Len(s) - Len(s)
    BY <2>1, <1>1
  <2>3. \A i \in 1..Len(s) : s[i].id <= c
    BY <1>1, <1>2
  <2>4. Len(s) \in 0..Len(s) /\ 1..Len(b) = {}
    BY <1>1, <2>2
  <2> QED
    BY <2>2, <2>3, <2>4
<1>3. CASE T # {}
  <2>1. PICK k : k = Min(T)
    OBVIOUS
  <2>2. k \in T /\ \A y \in T : k <= y
    <3>1. T \subseteq Nat
      BY <1>1
    <3> HIDE DEF T
    <3> QED BY <3>1, <2>1, <1>3, MinIsLeast
  <2>3. k \in 1..Len(s) /\ s[k].id > c
    BY <2>2
  <2>4. b = SubSeq(s, k, Len(s))
    <3>1. k # 0
      BY <2>3
    <3> QED
      BY <3>1, <1>3, <2>1 DEF Beyond, SelectInSeq
  <2>5. /\ b \in Seq(Event) /\ Len(b) = Len(s) - (k - 1)
        /\ \A i \in 1..Len(b) : b[i] = s[(k - 1) + i]
    <3>1. k \in Int /\ Len(s) \in Int /\ \A i \in k..Len(s) : s[i] \in Event
      BY <2>3, <1>1
    <3>2. /\ b \in Seq(Event) /\ Len(b) = IF k <= Len(s) THEN Len(s) - k + 1 ELSE 0
          /\ \A i \in 1..(Len(s) - k + 1) : b[i] = s[k + i - 1]
      BY <3>1, <2>4, SubSeqProperties
    <3> QED
      BY <3>2, <2>3, <1>1
  <2>6. \A i \in 1..(k - 1) : s[i].id <= c
    BY <1>1, <2>2, <2>3
  <2>7. \A i \in 1..Len(b) : s[(k - 1) + i].id > c
    <3> TAKE i \in 1..Len(b)
    <3>1. (k - 1) + i \in 1..Len(s) /\ ((k - 1) + i = k \/ k < (k - 1) + i)
      BY <2>3, <2>5, <1>1
    <3>2. k < (k - 1) + i => s[k].id < s[(k - 1) + i].id
      BY <3>1, <2>3, <1>1 DEF Increase
    <3>3. s[(k - 1) + i].id \in Nat /\ s[k].id \in Nat
      BY <3>1, <2>3, <1>1
    <3>4. CASE (k - 1) + i = k
      BY <3>4, <2>3
    <3>5. CASE k < (k - 1) + i
      BY <3>2, <3>3, <3>5, <2>3
    <3> QED
      BY <3>1, <3>4, <3>5
  <2>8. k - 1 \in 0..Len(s)
    BY <2>3, <1>1
  <2> QED
    BY <2>5, <2>6, <2>7, <2>8
<1> QED
  BY <1>2, <1>3

\* What comes up to run_end is the first part of a stream.
LEMMA ToTheEndFacts ==
    ASSUME NEW s \in Seq(Event), NEW b, b = ToTheEnd(s)
    PROVE  /\ b \in Seq(Event) /\ Len(b) <= Len(s)
           /\ \A i \in 1..Len(b) : b[i] = s[i] /\ (s[i].end => i = Len(b))
           /\ Len(b) = Len(s) \/ (b # <<>> /\ b[Len(b)].end)
<1> DEFINE T == {i \in 1..Len(s) : s[i].end}
<1>1. Len(s) \in Nat /\ \A i \in 1..Len(s) : s[i] \in Event
  OBVIOUS
<1>2. CASE T = {}
  <2>1. b = s
    BY <1>2 DEF ToTheEnd, SelectInSeq
  <2> QED
    BY <2>1, <1>1, <1>2
<1>3. CASE T # {}
  <2>1. PICK k : k = Min(T)
    OBVIOUS
  <2>2. k \in T /\ \A y \in T : k <= y
    <3>1. T \subseteq Nat
      BY <1>1
    <3> HIDE DEF T
    <3> QED BY <3>1, <2>1, <1>3, MinIsLeast
  <2>3. k \in 1..Len(s) /\ s[k].end
    BY <2>2
  <2>4. b = SubSeq(s, 1, k)
    <3>1. SelectInSeq(s, LAMBDA e : e.end) = k
      BY <1>3, <2>1 DEF SelectInSeq
    <3> QED
      BY <3>1, <2>3, <1>1 DEF ToTheEnd
  <2>5. b \in Seq(Event) /\ Len(b) = k /\ \A i \in 1..k : b[i] = s[i]
    <3>1. 1 \in Int /\ k \in Int /\ \A i \in 1..k : s[i] \in Event
      BY <2>3, <1>1
    <3>2. /\ b \in Seq(Event) /\ Len(b) = IF 1 <= k THEN k - 1 + 1 ELSE 0
          /\ \A i \in 1..(k - 1 + 1) : b[i] = s[1 + i - 1]
      BY <3>1, <2>4, SubSeqProperties
    <3> QED
      BY <3>2, <2>3, <1>1
  <2>6. \A i \in 1..k : s[i].end => i = k
    BY <2>2, <2>3, <1>1
  <2> QED
    BY <2>3, <2>5, <2>6, <1>1
<1> QED
  BY <1>2, <1>3

\* The last event of a stream.
LEMMA LastFacts ==
    ASSUME NEW s \in Seq(Event)
    PROVE  /\ s = <<>> => LastId(s) = 0 /\ ~Ended(s)
           /\ s # <<>> => /\ Len(s) \in Nat \ {0} /\ Last(s) = s[Len(s)] /\ Last(s) \in Event
                          /\ LastId(s) = s[Len(s)].id
                          /\ (Ended(s) <=> s[Len(s)].end)
           /\ LastId(s) \in Nat /\ Ended(s) \in BOOLEAN
<1>1. s # <<>> => Len(s) \in Nat \ {0} /\ s[Len(s)] \in Event
  OBVIOUS
<1> QED
  BY <1>1, EventFacts DEF LastId, Ended, Last

\* The newest events of a run increase, and the last of them is the run's last.
LEMMA NewestFacts ==
    ASSUME NEW s \in Seq(Event), NEW p \in Produced, Newest(s, p)
    PROVE  /\ Increase(s)
           /\ \A i \in DOMAIN s : s[i].id = p.last - Len(s) + i
           /\ \A i \in DOMAIN s : s[i].end => i = Len(s)
           /\ s # <<>> => s[Len(s)].id = p.last /\ (s[Len(s)].end <=> p.ended)
<1>1. DOMAIN s = 1..Len(s) /\ Len(s) \in Nat
  OBVIOUS
<1>0. PICK l \in Int : p.last = l
  <2>1. MaxId \in Nat
    BY StoreAssumption
  <2> QED
    BY <2>1 DEF Produced
<1>2. \A i \in 1..Len(s) :
          /\ s[i].id = l - Len(s) + i
          /\ s[i].end <=> p.ended /\ i = Len(s)
  <2> TAKE i \in 1..Len(s)
  <2>1. s[i] = [id |-> l - Len(s) + i, end |-> p.ended /\ l - Len(s) + i = l]
    BY <1>0, <1>1 DEF Newest, EventOf
  <2>2. s[i].id = l - Len(s) + i
    BY <2>1
  <2>3. s[i].end = (p.ended /\ l - Len(s) + i = l)
    <3>1. \A a, b : s[i] = [id |-> a, end |-> b] => s[i].end = b
      OBVIOUS
    <3> QED
      BY <2>1, <3>1, Zenon
  <2>4. l - Len(s) + i = l <=> i = Len(s)
    <3>1. \A a, b, c \in Int : a - b + c = a <=> c = b
      OBVIOUS
    <3>2. Len(s) \in Int /\ i \in Int
      BY <1>1
    <3> QED
      BY <3>1, <3>2, Zenon
  <2> QED
    BY <2>2, <2>3, <2>4, Zenon
<1>3. Increase(s)
  <2> SUFFICES ASSUME NEW i \in 1..Len(s), NEW j \in 1..Len(s), i < j
               PROVE  s[i].id < s[j].id
    BY <1>1 DEF Increase
  <2>1. \A a, b \in Int : \A c, d \in Int : c < d => a - b + c < a - b + d
    OBVIOUS
  <2>2. l - Len(s) + i < l - Len(s) + j
    <3>1. i \in Int /\ j \in Int /\ Len(s) \in Int
      BY <1>1
    <3> QED
      BY <3>1, <2>1
  <2> QED
    BY <1>2, <2>2
<1>4. s # <<>> => Len(s) \in 1..Len(s)
  BY <1>1, EmptySeq
<1>5. s # <<>> => s[Len(s)].id = l /\ (s[Len(s)].end <=> p.ended)
  <2> SUFFICES ASSUME s # <<>> PROVE s[Len(s)].id = l /\ (s[Len(s)].end <=> p.ended)
    OBVIOUS
  <2>1. \A a, b \in Int : a - b + b = a
    OBVIOUS
  <2>2. l - Len(s) + Len(s) = l
    BY <1>1, <2>1
  <2> QED
    BY <1>2, <1>4, <2>2
<1> QED
  BY <1>0, <1>1, <1>2, <1>3, <1>5

\* The next event of a run, and the run after it has been handed over.
LEMMA NextEvent ==
    ASSUME NEW p \in Produced, NEW b \in BOOLEAN, p.last + 1 <= MaxId
    PROVE  /\ [last |-> p.last + 1, ended |-> b] \in Produced
           /\ [id |-> p.last + 1, end |-> b] \in Event
           /\ [id |-> p.last + 1, end |-> b] # None
           /\ [id |-> p.last + 1, end |-> b] = EventOf([last |-> p.last + 1, ended |-> b], p.last + 1)
<1>1. MaxId \in Nat /\ None \notin Event
  BY StoreAssumption DEF Event
<1>2. p.last \in 0..MaxId
  BY DEF Produced
<1>3. p.last + 1 \in 1..MaxId /\ p.last + 1 \in 0..MaxId
  BY <1>1, <1>2
<1>4. \A n \in 0..MaxId : [last |-> n, ended |-> b] \in Produced
  BY DEF Produced
<1>5. \A n \in 1..MaxId : [id |-> n, end |-> b] \in Event
  BY DEF Event
<1>6. \A n : [id |-> n, end |-> b] = EventOf([last |-> n, ended |-> b], n)
  BY DEF EventOf
<1> QED
  BY <1>1, <1>3, <1>4, <1>5, <1>6, Zenon

\* A stream that holds the newest events still does when the next one is added.
LEMMA WithEventOK ==
    ASSUME NEW p \in Produced, ~p.ended, NEW b \in BOOLEAN, p.last + 1 <= MaxId,
           NEW s \in Stream, ~s.terminal, Newest(s.events, p), Len(s.events) <= MaxEvents,
           BufferSuffices => Full(s.events, p),
           NEW e, e = [id |-> p.last + 1, end |-> b],
           NEW p2, p2 = [last |-> p.last + 1, ended |-> b],
           NEW w, w = WithEvent(s, e)
    PROVE  w \in Stream /\ StreamOK(w, p2)
<1> DEFINE all == Append(s.events, e)
           kept == IF Len(all) > MaxEvents THEN Tail(all) ELSE all
<1>1. PICK l \in Nat : p.last = l
  <2>1. MaxId \in Nat
    BY StoreAssumption
  <2> QED
    BY <2>1 DEF Produced
<1>2. s.events \in Seq(Event)
  BY DEF Stream
<1>3. PICK n \in Nat : n = Len(s.events)
  BY <1>2
<1>4. e \in Event
  BY NextEvent
<1>5. /\ all \in Seq(Event) /\ Len(all) = n + 1
      /\ \A i \in 1..n : all[i] = s.events[i]
      /\ all[n + 1] = e
  BY <1>2, <1>3, <1>4
<1>6. n <= l /\ n <= MaxEvents /\ MaxEvents \in Nat \ {0}
  BY <1>1, <1>3, StoreAssumption DEF Newest
<1>7. \A i \in 1..n : s.events[i] = [id |-> l - n + i, end |-> FALSE]
  <2> TAKE i \in 1..n
  <2>1. i \in DOMAIN s.events
    BY <1>2, <1>3
  <2>2. s.events[i] = [id |-> l - n + i, end |-> p.ended /\ l - n + i = l]
    BY <2>1, <1>1, <1>3 DEF Newest, EventOf
  <2>3. (p.ended /\ l - n + i = l) = FALSE
    OBVIOUS
  <2> QED
    BY <2>2, <2>3, Zenon
<1>8. \A i \in 1..(n + 1) : all[i] = [id |-> (l + 1) - (n + 1) + i, end |-> b /\ i = n + 1]
  <2> TAKE i \in 1..(n + 1)
  <2>1. CASE i = n + 1
    <3>1. (l + 1) - (n + 1) + i = l + 1 /\ (b /\ i = n + 1) = b
      BY <2>1
    <3>2. e = [id |-> l + 1, end |-> b]
      BY <1>1
    <3> QED
      BY <3>1, <3>2, <2>1, <1>5, Zenon
  <2>2. CASE i # n + 1
    <3>1. i \in 1..n /\ (l + 1) - (n + 1) + i = l - n + i /\ (b /\ i = n + 1) = FALSE
      BY <2>2
    <3> QED
      BY <3>1, <1>5, <1>7, Zenon
  <2> QED
    BY <2>1, <2>2
<1>9. PICK d \in {0, 1} : /\ d = IF n + 1 > MaxEvents THEN 1 ELSE 0
                          /\ kept \in Seq(Event) /\ Len(kept) = n + 1 - d
                          /\ \A i \in 1..(n + 1 - d) : kept[i] = all[i + d]
  <2>1. CASE n + 1 > MaxEvents
    <3>1. kept = Tail(all) /\ all # <<>>
      BY <2>1, <1>5
    <3>2. kept \in Seq(Event) /\ Len(kept) = n /\ \A i \in 1..n : kept[i] = all[i + 1]
      BY <3>1, <1>5, HeadTailProperties
    <3> HIDE DEF kept, all
    <3> QED
      BY <3>2, <2>1
  <2>2. CASE ~(n + 1 > MaxEvents)
    <3>1. kept = all
      BY <2>2, <1>5
    <3> HIDE DEF kept, all
    <3> QED
      BY <3>1, <2>2, <1>5
  <2> QED
    BY <2>1, <2>2, <1>6
<1>10. w = [events |-> kept, terminal |-> b]
  BY DEF WithEvent
<1> HIDE DEF kept, all
<1>11. w \in Stream /\ w.events = kept /\ w.terminal = b
  BY <1>9, <1>10 DEF Stream
<1>12. p2.last = l + 1 /\ p2.ended = b
  BY <1>1
<1>13. Newest(kept, p2)
  <2>1. Len(kept) <= l + 1
    BY <1>6, <1>9
  <2>2. ASSUME NEW i \in DOMAIN kept
        PROVE  kept[i] = [id |-> l + 1 - Len(kept) + i,
                          end |-> b /\ l + 1 - Len(kept) + i = l + 1]
    <3>1. i \in 1..(n + 1 - d) /\ i + d \in 1..(n + 1)
      BY <1>9
    <3>2. (l + 1) - (n + 1) + (i + d) = l + 1 - Len(kept) + i
      BY <3>1, <1>9
    <3>3. (b /\ i + d = n + 1) = (b /\ l + 1 - Len(kept) + i = l + 1)
      BY <3>1, <1>9
    <3>4. kept[i] = all[i + d]
      BY <3>1, <1>9
    <3> QED
      BY <3>1, <3>2, <3>3, <3>4, <1>8, Zenon
  <2> QED
    BY <1>12, <2>1, <2>2 DEF Newest, EventOf
<1>14. Len(kept) <= MaxEvents /\ Len(kept) >= 1 /\ kept # <<>>
  BY <1>6, <1>9
<1>15. BufferSuffices => Full(kept, p2)
  <2> SUFFICES ASSUME n = Smaller(l, MaxEvents)
               PROVE  Len(kept) = Smaller(l + 1, MaxEvents)
    BY <1>1, <1>3, <1>12 DEF Full
  <2> QED
    BY <1>6, <1>9 DEF Smaller
<1> QED
  BY <1>11, <1>12, <1>13, <1>14, <1>15 DEF StreamOK

\* Redis takes an entry above the newest one only, so its ids increase.
LEMMA AppendIncreases ==
    ASSUME NEW s \in Seq(Event), Increase(s), NEW e \in Event, LastId(s) < e.id,
           NEW u, u = Append(s, e)
    PROVE  /\ u \in Seq(Event) /\ Increase(u) /\ u # <<>>
           /\ LastId(u) = e.id /\ (Ended(u) <=> e.end)
<1>1. PICK n \in Nat : n = Len(s)
  OBVIOUS
<1>2. /\ u \in Seq(Event) /\ Len(u) = n + 1 /\ DOMAIN u = 1..(n + 1) /\ DOMAIN s = 1..n
      /\ \A i \in 1..n : u[i] = s[i] /\ s[i] \in Event
      /\ u[n + 1] = e
  BY <1>1
<1>3. \A i \in 1..n : s[i].id < e.id
  <2> TAKE i \in 1..n
  <2>1. s # <<>> /\ n \in 1..n
    BY <1>1
  <2>2. LastId(s) = s[n].id
    BY <2>1, <1>1, LastFacts
  <2>3. i = n \/ s[i].id < s[n].id
    BY <2>1, <1>2 DEF Increase
  <2>4. s[i].id \in Nat /\ s[n].id \in Nat /\ e.id \in Nat
    BY <2>1, <1>2, EventFacts
  <2> QED
    BY <2>2, <2>3, <2>4
<1>4. Increase(u)
  <2> SUFFICES ASSUME NEW i \in 1..(n + 1), NEW j \in 1..(n + 1), i < j
               PROVE  u[i].id < u[j].id
    BY <1>2 DEF Increase
  <2>1. CASE j = n + 1
    BY <2>1, <1>2, <1>3
  <2>2. CASE j # n + 1
    <3>1. i \in 1..n /\ j \in 1..n
      BY <2>2
    <3> QED
      BY <3>1, <1>2 DEF Increase
  <2> QED
    BY <2>1, <2>2
<1>5. u # <<>>
  BY <1>2
<1>6. LastId(u) = e.id /\ (Ended(u) <=> e.end)
  BY <1>2, <1>5 DEF LastId, Ended, Last
<1> QED
  BY <1>2, <1>4, <1>5, <1>6

\* An event is handed over: Redis has all that came before it.
LEMMA RedisAwaits ==
    ASSUME NEW p \in Produced, ~p.ended, NEW b \in BOOLEAN, p.last + 1 <= MaxId,
           NEW s \in Seq(Event), NEW replayed \in BOOLEAN, RedisOK(s, p, None, replayed),
           NEW e, e = [id |-> p.last + 1, end |-> b],
           NEW p2, p2 = [last |-> p.last + 1, ended |-> b]
    PROVE  RedisOK(s, p2, e, replayed)
<1>1. PICK l \in Nat : p.last = l
  <2>1. MaxId \in Nat
    BY StoreAssumption
  <2> QED
    BY <2>1 DEF Produced
<1>2. e # None /\ p2.last = l + 1 /\ p2.ended = b
  BY <1>1, NextEvent
<1>3. replayed => s = OldStream /\ p2.last = 1 /\ e # None
  BY <1>1, <1>2 DEF RedisOK
<1>4. ASSUME ~replayed
      PROVE  Len(s) = p2.last - 1 /\ \A i \in DOMAIN s : s[i] = EventOf(p2, i)
  <2>1. Len(s) = l /\ \A i \in DOMAIN s : s[i] = EventOf(p, i)
    BY <1>1, <1>4 DEF RedisOK
  <2>2. DOMAIN s = 1..l
    BY <2>1
  <2>3. \A i \in 1..l : EventOf(p, i) = EventOf(p2, i)
    <3> TAKE i \in 1..l
    <3>1. (p.ended /\ i = p.last) = FALSE /\ (p2.ended /\ i = p2.last) = FALSE
      BY <1>2
    <3> QED
      BY <3>1, Zenon DEF EventOf
  <2> QED
    BY <1>2, <2>1, <2>2, <2>3
<1>5. \A i \in DOMAIN s : s[i].id = i /\ (s[i].end => i = Len(s))
  BY DEF RedisOK
<1> QED
  BY <1>2, <1>3, <1>4, <1>5 DEF RedisOK

\* Redis takes the awaited event: it has all of them.
LEMMA RedisTakes ==
    ASSUME NEW p \in Produced, NEW s \in Seq(Event), NEW replayed \in BOOLEAN,
           NEW e \in Event, e # None, ProducerOK(p, e), RedisOK(s, p, e, replayed),
           LastId(s) < e.id, NEW u, u = Append(s, e)
    PROVE  RedisOK(u, p, None, replayed)
<1>1. PICK l \in Nat : p.last = l
  <2>1. MaxId \in Nat
    BY StoreAssumption
  <2> QED
    BY <2>1 DEF Produced
<1>2. e = EventOf(p, l) /\ e.id = l /\ l > 0
  BY <1>1 DEF ProducerOK, EventOf
<1>3. ~replayed
  <2> SUFFICES ASSUME replayed PROVE FALSE
    OBVIOUS
  <2>1. s = OldStream /\ l = 1
    BY <1>1, <1>2 DEF RedisOK
  <2>2. LastId(s) = 2
    BY <2>1 DEF LastId, OldStream, Last
  <2> QED
    BY <1>2, <2>1, <2>2
<1>4. Len(s) = l - 1 /\ \A i \in DOMAIN s : s[i] = EventOf(p, i)
  BY <1>1, <1>3 DEF RedisOK
<1>5. /\ u \in Seq(Event) /\ Len(u) = l /\ DOMAIN u = 1..l /\ DOMAIN s = 1..(l - 1)
      /\ \A i \in 1..(l - 1) : u[i] = s[i]
      /\ u[l] = e
  BY <1>2, <1>4
<1>6. \A i \in 1..l : u[i] = EventOf(p, i)
  BY <1>2, <1>4, <1>5
<1>7. \A i \in 1..l : u[i].id = i /\ (u[i].end => i = l)
  <2> TAKE i \in 1..l
  <2>1. u[i] = [id |-> i, end |-> p.ended /\ i = l]
    BY <1>1, <1>6 DEF EventOf
  <2>2. \A c : u[i] = [id |-> i, end |-> c] => u[i].id = i /\ u[i].end = c
    OBVIOUS
  <2>3. u[i].id = i /\ u[i].end = (p.ended /\ i = l)
    BY <2>1, <2>2, Zenon
  <2> QED
    BY <2>3, Zenon
<1> QED
  BY <1>1, <1>3, <1>5, <1>6, <1>7 DEF RedisOK

-----------------------------------------------------------------------------
\* A reader record with its deliveries replaced.
LEMMA ReaderUpdate ==
    ASSUME NEW q \in Reader, NEW g \in Seq(Event), NEW c \in Nat,
           NEW z \in {"idle", "reading", "done"},
           NEW q2, q2 = [pc |-> z, run |-> q.run, source |-> q.source, after |-> q.after,
                         cursor |-> c, got |-> g, orphan |-> q.orphan]
    PROVE  /\ q2 \in Reader /\ q2.run = q.run /\ q2.source = q.source /\ q2.after = q.after
           /\ q2.orphan = q.orphan /\ q2.got = g /\ q2.cursor = c /\ q2.pc = z
<1>1. q2 \in Reader
  BY DEF Reader
<1>2. q2.run = q.run /\ q2.source = q.source /\ q2.after = q.after /\ q2.orphan = q.orphan
  OBVIOUS
<1>3. q2.got = g /\ q2.cursor = c /\ q2.pc = z
  OBVIOUS
<1> QED
  BY <1>1, <1>2, <1>3

\* A reader that reads what lies beyond its cursor gets it once and in order.
\* (f: what it finds, d: whether nothing follows.)
LEMMA DeliveryOK ==
    ASSUME NEW q \in Reader, q.pc = "reading", ReaderOK(q),
           NEW f \in Seq(Event), NEW d \in BOOLEAN,
           Increase(f),
           \A i \in 1..Len(f) : f[i].id > q.cursor /\ (f[i].end => i = Len(f) /\ d),
           NEW q2 \in Reader, q2.after = q.after, q2.got = q.got \o f,
           q2.cursor = IF f = <<>> THEN q.cursor ELSE LastId(f),
           q2.pc = IF d THEN "done" ELSE "reading"
    PROVE  /\ GotOK(q2)
           /\ f # <<>> => q2.got # <<>> /\ Last(q2.got) = f[Len(f)]
           /\ f = <<>> => q2.got = q.got
<1>1. /\ q.got \in Seq(Event) /\ q.cursor \in Nat /\ q.after \in Nat
      /\ q.run \in Runs \cup {None} /\ q.orphan \in Stream
      /\ q.source \in {"none", "primary", "local", "orphan"}
  BY DEF Reader
<1>2. PICK n \in Nat, m \in Nat : n = Len(q.got) /\ m = Len(f)
  BY <1>1
<1>3. PICK g : g = q.got \o f /\ g = q2.got
  OBVIOUS
<1>4. /\ g \in Seq(Event) /\ Len(g) = n + m /\ DOMAIN g = 1..(n + m)
      /\ \A i \in 1..n : g[i] = q.got[i]
      /\ \A i \in 1..m : g[n + i] = f[i]
  <2>1. /\ g \in Seq(Event) /\ Len(g) = n + m
        /\ \A i \in 1..(n + m) : g[i] = IF i <= n THEN q.got[i] ELSE f[i - n]
    BY <1>1, <1>2, <1>3, ConcatProperties
  <2>2. \A i \in 1..n : g[i] = q.got[i]
    BY <2>1
  <2>3. ASSUME NEW i \in 1..m PROVE g[n + i] = f[i]
    <3>1. n + i \in 1..(n + m) /\ ~(n + i <= n) /\ (n + i) - n = i
      OBVIOUS
    <3> QED
      BY <2>1, <3>1
  <2> QED
    BY <2>1, <2>2, <2>3
<1>10. f # <<>> => m \in 1..m /\ f[m] \in Event /\ LastId(f) = f[m].id
  BY <1>2, LastFacts
<1>11. f # <<>> => g # <<>> /\ Last(g) = f[m]
  <2> SUFFICES ASSUME f # <<>> PROVE g # <<>> /\ Last(g) = f[m]
    OBVIOUS
  <2>1. m \in 1..m
    BY <1>10
  <2>2. g[n + m] = f[m]
    BY <2>1, <1>4
  <2>3. Last(g) = g[n + m]
    BY <1>4 DEF Last
  <2>4. Len(g) # 0
    BY <2>1, <1>4
  <2> QED
    BY <2>2, <2>3, <2>4
<1>12. f = <<>> => g = q.got
  BY <1>1, <1>3, ConcatEmptySeq
<1>13. \A i \in 1..n : ~q.got[i].end /\ q.got[i].id > (IF i = 1 THEN q.after ELSE q.got[i - 1].id)
  BY <1>1, <1>2 DEF ReaderOK, GotOK
<1>14. q.cursor = IF n = 0 THEN q.after ELSE q.got[n].id
  <2>1. q.got = <<>> <=> n = 0
    BY <1>1, <1>2
  <2> QED
    BY <2>1, <1>2 DEF ReaderOK, GotOK, Last
<1>15. \A i \in 1..(n + m) : g[i].id > (IF i = 1 THEN q.after ELSE g[i - 1].id)
  <2> TAKE i \in 1..(n + m)
  <2>1. CASE i \in 1..n
    <3>1. i # 1 => i - 1 \in 1..n
      BY <2>1
    <3> QED
      BY <3>1, <2>1, <1>4, <1>13
  <2>2. CASE i = n + 1
    <3>1. 1 \in 1..m /\ g[i] = f[1]
      BY <2>2, <1>4
    <3>2. g[i].id > q.cursor
      BY <3>1, <1>2
    <3>3. n # 0 => i # 1 /\ i - 1 = n /\ n \in 1..n /\ g[i - 1] = q.got[n]
      BY <2>2, <1>4
    <3>4. n = 0 => i = 1
      BY <2>2
    <3> QED
      BY <3>2, <3>3, <3>4, <1>14
  <2>3. CASE i > n + 1
    <3> DEFINE j == i - n
    <3>1. j \in 1..m /\ i = n + j /\ j - 1 \in 1..m /\ i - 1 = n + (j - 1) /\ i # 1 /\ j - 1 < j
      BY <2>3
    <3> HIDE DEF j
    <3>2. g[i] = f[j] /\ g[i - 1] = f[j - 1]
      BY <3>1, <1>4
    <3>3. f[j - 1].id < f[j].id
      BY <3>1, <1>2 DEF Increase
    <3>4. f[j - 1].id \in Nat /\ f[j].id \in Nat
      BY <3>1, <1>2, EventFacts
    <3> QED
      BY <3>1, <3>2, <3>3, <3>4
  <2> QED
    BY <2>1, <2>2, <2>3
<1>16. \A i \in 1..(n + m) : g[i].end => i = n + m /\ d
  <2> TAKE i \in 1..(n + m)
  <2>1. CASE i \in 1..n
    BY <2>1, <1>4, <1>13
  <2>2. CASE i > n
    <3> DEFINE j == i - n
    <3>1. j \in 1..m /\ i = n + j
      BY <2>2
    <3> HIDE DEF j
    <3>2. g[i] = f[j] /\ (f[j].end => j = m /\ d)
      BY <3>1, <1>2, <1>4
    <3> QED
      BY <3>1, <3>2
  <2> QED
    BY <2>1, <2>2
<1>17. q2.cursor = IF g = <<>> THEN q.after ELSE Last(g).id
  <2>1. CASE f = <<>>
    <3>1. g = q.got /\ q2.cursor = q.cursor
      BY <2>1, <1>12
    <3> QED
      BY <3>1 DEF ReaderOK, GotOK
  <2>2. CASE f # <<>>
    BY <2>2, <1>10, <1>11
  <2> QED
    BY <2>1, <2>2
<1>18. GotOK(q2)
  BY <1>3, <1>4, <1>15, <1>16, <1>17 DEF GotOK
<1> QED
  BY <1>2, <1>3, <1>11, <1>12, <1>18

\* What Read changes of a reader that finds f, with nothing to follow if d.
Delivered(q, q2, f, d) ==
    /\ q2.run = q.run /\ q2.source = q.source /\ q2.after = q.after /\ q2.orphan = q.orphan
    /\ q2.got = q.got \o f
    /\ q2.cursor = IF f = <<>> THEN q.cursor ELSE LastId(f)
    /\ q2.pc = IF d THEN "done" ELSE "reading"

\* What may be delivered: events beyond the cursor, run_end only as the last.
Deliverable(q, f, d) ==
    /\ f \in Seq(Event) /\ d \in BOOLEAN /\ Increase(f)
    /\ \A i \in 1..Len(f) : f[i].id > q.cursor /\ (f[i].end => i = Len(f) /\ d)

\* The reader of a Redis stream finds deliverable events.
LEMMA RedisDeliverable ==
    ASSUME NEW q \in Reader, NEW s \in Seq(Event), Increase(s),
           NEW b, b = Beyond(s, q.cursor), NEW f, f = ToTheEnd(b)
    PROVE  Deliverable(q, f, Ended(f))
<1>1. q.cursor \in Nat
  BY DEF Reader
<1>2. b = Beyond(s, q.cursor)
  OBVIOUS
<1>3. b \in Seq(Event)
  BY <1>1, <1>2, BeyondFacts
<1>4. PICK k \in 0..Len(s) :
          /\ Len(b) = Len(s) - k
          /\ \A i \in 1..k : s[i].id <= q.cursor
          /\ \A i \in 1..Len(b) : b[i] = s[k + i] /\ s[k + i].id > q.cursor
  BY <1>1, <1>2, BeyondFacts, Zenon
<1>5. /\ f \in Seq(Event) /\ Len(f) <= Len(b)
      /\ \A i \in 1..Len(f) : f[i] = b[i] /\ (b[i].end => i = Len(f))
  BY <1>2, <1>3, ToTheEndFacts
<1>6. PICK n \in Nat, m \in Nat : n = Len(s) /\ m = Len(f)
  BY <1>5
<1>7. \A i \in 1..m : f[i] = s[k + i] /\ k + i \in 1..n /\ f[i].id > q.cursor
  BY <1>4, <1>5, <1>6
<1>8. Increase(f)
  <2> SUFFICES ASSUME NEW i \in 1..m, NEW j \in 1..m, i < j PROVE f[i].id < f[j].id
    BY <1>5, <1>6 DEF Increase
  <2>1. k + i < k + j /\ k + i \in DOMAIN s /\ k + j \in DOMAIN s
    BY <1>6, <1>7
  <2>2. s[k + i].id < s[k + j].id
    BY <2>1 DEF Increase
  <2> QED
    BY <2>2, <1>7
<1>9. \A i \in 1..m : f[i].end => i = m
  BY <1>5, <1>6
<1>10. m \in 1..m /\ f[m].end => Ended(f)
  <2> SUFFICES ASSUME m \in 1..m, f[m].end PROVE Ended(f)
    OBVIOUS
  <2>1. f # <<>>
    BY <1>6
  <2> QED
    BY <2>1, <1>5, <1>6, LastFacts
<1>11. \A i \in 1..m : f[i].end => Ended(f)
  <2> SUFFICES ASSUME NEW i \in 1..m, f[i].end PROVE Ended(f)
    OBVIOUS
  <2>1. i = m
    BY <1>9
  <2> QED
    BY <2>1, <1>10
<1>12. Ended(f) \in BOOLEAN
  BY <1>5, LastFacts
<1> QED
  BY <1>5, <1>6, <1>7, <1>8, <1>9, <1>11, <1>12 DEF Deliverable

\* So does the reader of a buffered one.
LEMMA BufferDeliverable ==
    ASSUME NEW q \in Reader, NEW s \in Stream, Increase(s.events),
           \A i \in DOMAIN s.events : s.events[i].end => i = Len(s.events),
           s.terminal <=> Ended(s.events),
           NEW f, f = Beyond(s.events, q.cursor)
    PROVE  Deliverable(q, f, s.terminal)
<1>1. q.cursor \in Nat /\ s.events \in Seq(Event) /\ s.terminal \in BOOLEAN
  BY DEF Reader, Stream
<1>2. PICK z : z = s.events
  OBVIOUS
<1>3. f \in Seq(Event)
  BY <1>1, BeyondFacts
<1>4. PICK k \in 0..Len(z) :
          /\ Len(f) = Len(z) - k
          /\ \A i \in 1..k : z[i].id <= q.cursor
          /\ \A i \in 1..Len(f) : f[i] = z[k + i] /\ z[k + i].id > q.cursor
  <2>1. Increase(z) /\ z \in Seq(Event) /\ f = Beyond(z, q.cursor)
    BY <1>1, <1>2
  <2> QED
    BY <2>1, <1>1, BeyondFacts, Zenon
<1>6. PICK n \in Nat, m \in Nat : n = Len(z) /\ m = Len(f)
  BY <1>1, <1>2, <1>3
<1>5. DOMAIN z = 1..n /\ DOMAIN f = 1..m
  BY <1>1, <1>2, <1>3, <1>6
<1>7. \A i \in 1..m : f[i] = z[k + i] /\ k + i \in 1..n /\ f[i].id > q.cursor
  BY <1>4, <1>6
<1>8. Increase(f)
  <2> SUFFICES ASSUME NEW i \in 1..m, NEW j \in 1..m, i < j PROVE f[i].id < f[j].id
    BY <1>5 DEF Increase
  <2>1. k + i < k + j /\ k + i \in DOMAIN z /\ k + j \in DOMAIN z
    BY <1>5, <1>7
  <2>2. z[k + i].id < z[k + j].id
    BY <2>1, <1>2 DEF Increase
  <2> QED
    BY <2>2, <1>7
<1>9. ASSUME NEW i \in 1..m, f[i].end
      PROVE  i = m /\ s.terminal
  <2>1. z[k + i].end /\ k + i \in DOMAIN z
    BY <1>5, <1>7, <1>9
  <2>2. k + i = n
    BY <2>1, <1>2, <1>6
  <2>3. i = m
    BY <2>2, <1>4, <1>6
  <2>4. z # <<>> /\ z[n].end
    BY <2>1, <2>2, <1>5
  <2>5. Ended(z)
    BY <2>4, <1>1, <1>2, <1>6, LastFacts
  <2> QED
    BY <2>3, <2>5, <1>2
<1> QED
  BY <1>1, <1>3, <1>6, <1>7, <1>8, <1>9 DEF Deliverable

\* A reader without a gap that reads on in a stream without a gap.
LEMMA GaplessStep ==
    ASSUME NEW q \in Reader, GotOK(q), Gapless(q),
           NEW s \in Seq(Event), \A i \in DOMAIN s : s[i].id = i,
           NEW f \in Seq(Event), NEW k \in Nat, k + Len(f) <= Len(s),
           \A i \in 1..k : s[i].id <= q.cursor,
           \A i \in 1..Len(f) : f[i] = s[k + i] /\ s[k + i].id > q.cursor,
           NEW q2, q2.got = q.got \o f, q2.after = q.after
    PROVE  Gapless(q2)
<1>1. q.got \in Seq(Event) /\ q.cursor \in Nat /\ q.after \in Nat
  BY DEF Reader
<1>2. PICK n \in Nat, m \in Nat, l \in Nat, c \in Nat, a \in Nat :
          n = Len(q.got) /\ m = Len(f) /\ l = Len(s) /\ c = q.cursor /\ a = q.after
  BY <1>1
<1>3. PICK g : g = q2.got
  OBVIOUS
<1>4. /\ g \in Seq(Event) /\ DOMAIN g = 1..(n + m)
      /\ \A i \in 1..(n + m) : g[i] = IF i <= n THEN q.got[i] ELSE f[i - n]
  BY <1>1, <1>2, <1>3, ConcatProperties
<1>5. \A i \in 1..n : q.got[i].id = a + i
  BY <1>1, <1>2 DEF Gapless
<1>6. c = a + n
  <2>1. CASE n = 0
    <3>1. q.got = <<>>
      BY <2>1, <1>1, <1>2
    <3> QED
      BY <3>1, <2>1, <1>2 DEF GotOK
  <2>2. CASE n # 0
    <3>1. q.got # <<>> /\ n \in 1..n
      BY <2>2, <1>1, <1>2
    <3>2. c = q.got[n].id
      BY <3>1, <1>2 DEF GotOK, Last
    <3> QED
      BY <3>1, <3>2, <1>5
  <2> QED
    BY <2>1, <2>2
<1>7. \A i \in 1..m : k + i \in 1..l /\ f[i].id = k + i /\ k + i > c
  <2> TAKE i \in 1..m
  <2>1. k + i \in 1..l
    BY <1>2
  <2>2. s[k + i].id = k + i
    BY <2>1, <1>2
  <2> QED
    BY <2>1, <2>2, <1>2
<1>8. ASSUME m # 0 PROVE k = c
  <2>1. k + 1 > c
    BY <1>7, <1>8
  <2>2. k # 0 => k <= c
    <3> SUFFICES ASSUME k # 0 PROVE k <= c
      OBVIOUS
    <3>1. k \in 1..k /\ k \in 1..l
      BY <1>2
    <3>2. s[k].id = k /\ s[k].id <= c
      BY <3>1, <1>2
    <3> QED
      BY <3>2
  <2> QED
    BY <2>1, <2>2
<1>9. ASSUME NEW i \in 1..(n + m)
      PROVE  g[i].id = a + i
  <2>1. CASE i <= n
    BY <2>1, <1>4, <1>5
  <2>2. CASE ~(i <= n)
    <3>1. i - n \in 1..m /\ g[i] = f[i - n]
      BY <2>2, <1>4
    <3>2. f[i - n].id = k + (i - n) /\ m # 0
      BY <3>1, <1>7
    <3> QED
      BY <3>1, <3>2, <1>6, <1>8
  <2> QED
    BY <2>1, <2>2
<1> QED
  BY <1>2, <1>3, <1>4, <1>9 DEF Gapless

\* A reader of Redis stays without a gap, and below the end.
LEMMA RedisRead ==
    ASSUME NEW q \in Reader, q.pc = "reading", ReaderOK(q),
           NEW s \in Seq(Event), Increase(s), FromRedis(q, s),
           \A i \in DOMAIN s : s[i].id = i /\ (s[i].end => i = Len(s)),
           NEW b, b = Beyond(s, q.cursor), NEW f, f = ToTheEnd(b),
           NEW q2 \in Reader, Delivered(q, q2, f, Ended(f))
    PROVE  FromRedis(q2, s)
<1>1. q.cursor \in Nat
  BY DEF Reader
<1>3. b \in Seq(Event)
  BY <1>1, BeyondFacts
<1>4. PICK k \in 0..Len(s) :
          /\ Len(b) = Len(s) - k
          /\ \A i \in 1..k : s[i].id <= q.cursor
          /\ \A i \in 1..Len(b) : b[i] = s[k + i] /\ s[k + i].id > q.cursor
  <2>1. b = Beyond(s, q.cursor)
    OBVIOUS
  <2> QED
    BY <1>1, <2>1, BeyondFacts, Zenon
<1>5. /\ f \in Seq(Event) /\ Len(f) <= Len(b)
      /\ \A i \in 1..Len(f) : f[i] = b[i] /\ (b[i].end => i = Len(f))
      /\ Len(f) = Len(b) \/ (f # <<>> /\ f[Len(f)].end)
  BY <1>3, ToTheEndFacts
<1>6. PICK n \in Nat, m \in Nat : n = Len(s) /\ m = Len(f)
  BY <1>5
<1>7. \A i \in 1..m : f[i] = s[k + i] /\ s[k + i].id > q.cursor /\ k + i \in 1..n
  BY <1>4, <1>5, <1>6
<1>8. Gapless(q2)
  <2>1. k \in Nat /\ k + Len(f) <= Len(s)
    BY <1>4, <1>5, <1>6
  <2>2. GotOK(q) /\ Gapless(q)
    BY DEF ReaderOK, FromRedis
  <2>3. q2.got = q.got \o f /\ q2.after = q.after
    BY DEF Delivered
  <2>4. \A i \in 1..Len(f) : f[i] = s[k + i] /\ s[k + i].id > q.cursor
    BY <1>6, <1>7
  <2>5. \A i \in DOMAIN s : s[i].id = i
    OBVIOUS
  <2>6. f \in Seq(Event) /\ \A i \in 1..k : s[i].id <= q.cursor
    BY <1>4, <1>5
  <2> QED
    BY <2>1, <2>2, <2>3, <2>4, <2>5, <2>6, GaplessStep, Zenon
<1>9. ASSUME q2.pc = "reading"
      PROVE  BelowTheEnd(q2, LastId(s), Ended(s))
  <2>1. ~Ended(f)
    BY <1>9 DEF Delivered
  <2>2. BelowTheEnd(q, LastId(s), Ended(s))
    BY DEF FromRedis
  <2>3. CASE f = <<>>
    <3>1. q2.cursor = q.cursor
      BY <2>3 DEF Delivered
    <3> QED
      BY <3>1, <2>2 DEF BelowTheEnd
  <2>4. CASE f # <<>>
    <3>1. m \in 1..m /\ LastId(f) = f[m].id /\ ~f[m].end
      BY <2>1, <2>4, <1>5, <1>6, LastFacts
    <3>2. q2.cursor = f[m].id
      BY <3>1, <2>4 DEF Delivered
    <3>3. k + m \in 1..n /\ f[m] = s[k + m]
      BY <3>1, <1>7
    <3>4. s[k + m].id = k + m
      BY <3>3, <1>6
    <3>5. m = n - k
      BY <3>1, <1>4, <1>5, <1>6
    <3>6. s # <<>> /\ n \in 1..n /\ k + m = n
      BY <3>3, <3>5, <1>4, <1>6
    <3>7. LastId(s) = n /\ ~Ended(s)
      BY <3>1, <3>3, <3>4, <3>6, <1>6, LastFacts
    <3> QED
      BY <3>2, <3>3, <3>4, <3>6, <3>7 DEF BelowTheEnd
  <2> QED
    BY <2>3, <2>4
<1> QED
  BY <1>8, <1>9 DEF FromRedis

\* A reader of a buffer that suffices stays without a gap and below the end, and
\* one that comes to the end has run_end.
LEMMA BufferRead ==
    ASSUME NEW q \in Reader, q.pc = "reading", ReaderOK(q), BufferSuffices,
           NEW p \in Produced, FromBuffer(q, p),
           NEW s \in Stream, StreamOK(s, p),
           NEW z, z = s.events,
           NEW f, f = Beyond(z, q.cursor),
           NEW q2 \in Reader, Delivered(q, q2, f, s.terminal),
           f # <<>> => q2.got # <<>> /\ Last(q2.got) = f[Len(f)],
           f = <<>> => q2.got = q.got
    PROVE  /\ p.last <= MaxEvents => Gapless(q2)
           /\ q2.pc = "reading" /\ q2.got # <<>> => BelowTheEnd(q2, p.last, p.ended)
           /\ q2.pc = "done" /\ q2.got # <<>> => Last(q2.got).end
<1>1. q.cursor \in Nat /\ z \in Seq(Event)
  BY DEF Reader, Stream
<1>2. PICK l \in Nat : p.last = l
  <2>1. MaxId \in Nat
    BY StoreAssumption
  <2> QED
    BY <2>1 DEF Produced
<1>3. /\ Increase(z) /\ Newest(z, p)
      /\ \A i \in DOMAIN z : z[i].id = l - Len(z) + i
      /\ z # <<>> => z[Len(z)].id = l /\ (z[Len(z)].end <=> p.ended)
      /\ s.terminal <=> p.ended
      /\ p.ended => z # <<>>
      /\ Full(z, p)
  BY <1>1, <1>2, NewestFacts DEF StreamOK
<1>4. f \in Seq(Event)
  BY <1>1, <1>3, BeyondFacts
<1>5. PICK k \in 0..Len(z) :
          /\ Len(f) = Len(z) - k
          /\ \A i \in 1..k : z[i].id <= q.cursor
          /\ \A i \in 1..Len(f) : f[i] = z[k + i] /\ z[k + i].id > q.cursor
  <2>1. z \in Seq(Event) /\ Increase(z) /\ q.cursor \in Nat /\ f = Beyond(z, q.cursor)
    BY <1>1, <1>3
  <2> QED
    BY <2>1, BeyondFacts, ZenonT(60)
<1>6. PICK n \in Nat, m \in Nat : n = Len(z) /\ m = Len(f)
  BY <1>1, <1>4
<1>7. q2.got = q.got \o f /\ q2.after = q.after
  BY DEF Delivered
<1>8. ASSUME l <= MaxEvents PROVE Gapless(q2)
  <2>1. MaxEvents \in Nat
    BY StoreAssumption
  <2>2. n = l
    BY <1>2, <1>3, <1>6, <1>8, <2>1 DEF Full, Smaller
  <2>3. \A i \in DOMAIN z : z[i].id = i
    <3> TAKE i \in DOMAIN z
    <3>1. i \in Nat /\ z[i].id = l - n + i
      BY <1>1, <1>3, <1>6
    <3> QED
      BY <3>1, <2>2
  <2>4. GotOK(q) /\ Gapless(q)
    BY <1>2, <1>8 DEF ReaderOK, FromBuffer
  <2>5. k \in Nat /\ k + Len(f) <= Len(z)
    BY <1>5, <1>6
  <2> QED
    BY <1>1, <1>4, <1>5, <1>7, <2>3, <2>4, <2>5, GaplessStep
<1>9. f # <<>> => m \in 1..m /\ LastId(f) = f[m].id /\ f[m] = z[n] /\ z # <<>>
  <2> SUFFICES ASSUME f # <<>> PROVE m \in 1..m /\ LastId(f) = f[m].id /\ f[m] = z[n] /\ z # <<>>
    OBVIOUS
  <2>1. m \in 1..m /\ LastId(f) = f[m].id
    BY <1>4, <1>6, LastFacts
  <2>2. k + m = n
    BY <1>5, <1>6
  <2>3. z # <<>>
    BY <2>1, <2>2, <1>6
  <2> QED
    BY <2>1, <2>2, <2>3, <1>5, <1>6
<1>10. ASSUME q2.pc = "reading", q2.got # <<>> PROVE BelowTheEnd(q2, l, p.ended)
  <2>1. ~p.ended
    BY <1>3, <1>10 DEF Delivered
  <2>2. CASE f = <<>>
    <3>1. q2.cursor = q.cursor /\ q.got # <<>>
      BY <2>2, <1>10 DEF Delivered
    <3> QED
      BY <3>1, <2>1, <1>2 DEF FromBuffer, BelowTheEnd
  <2>3. CASE f # <<>>
    <3>1. q2.cursor = f[m].id
      BY <2>3, <1>9 DEF Delivered
    <3>2. f[m].id = l
      BY <2>3, <1>3, <1>6, <1>9
    <3> QED
      BY <3>1, <3>2, <2>1 DEF BelowTheEnd
  <2> QED
    BY <2>2, <2>3
<1>11. ASSUME q2.pc = "done", q2.got # <<>> PROVE Last(q2.got).end
  <2>1. p.ended
    BY <1>3, <1>11 DEF Delivered
  <2>2. CASE f = <<>>
    <3>1. q.got # <<>>
      BY <2>2, <1>11
    <3>2. q.cursor < l
      BY <3>1, <2>1, <1>2 DEF FromBuffer, BelowTheEnd
    <3>3. k = n /\ n \in 1..n
      <4>1. m = 0
        BY <2>2, <1>6
      <4>2. z # <<>>
        BY <2>1, <1>3
      <4> QED
        BY <4>1, <4>2, <1>1, <1>5, <1>6
    <3>4. z[n].id = l /\ z[n].id <= q.cursor
      BY <3>3, <2>1, <1>3, <1>5, <1>6
    <3> QED
      BY <3>2, <3>4, <1>1
  <2>3. CASE f # <<>>
    BY <2>3, <2>1, <1>3, <1>6, <1>9
  <2> QED
    BY <2>2, <2>3
<1> QED
  BY <1>2, <1>8, <1>10, <1>11

-----------------------------------------------------------------------------
\* What a full buffer evicts: a finished stream if there is one.
LEMMA VictimFacts ==
    ASSUME Shape, Len(order) >= MaxStreams
    PROVE  /\ Victim \in Range(order) /\ Victim \in Runs
           /\ (\E v \in Range(order) : streams[v].terminal) => streams[Victim].terminal
<1> DEFINE T == {i \in 1..Len(order) : streams[order[i]].terminal}
<1>1. order \in Seq(Runs) /\ MaxStreams \in Nat \ {0}
  BY StoreAssumption DEF Shape
<1>2. /\ Len(order) \in Nat /\ DOMAIN order = 1..Len(order) /\ 1 \in 1..Len(order)
      /\ \A i \in 1..Len(order) : order[i] \in Runs
  BY <1>1
<1>3. CASE T = {}
  <2>1. Victim = Head(order)
    BY <1>3 DEF Victim, SelectInSeq
  <2>2. Head(order) = order[1]
    BY <1>1, <1>2
  <2>3. ~ \E v \in Range(order) : streams[v].terminal
    BY <1>2, <1>3 DEF Range
  <2> QED
    BY <2>1, <2>2, <2>3, <1>2 DEF Range
<1>4. CASE T # {}
  <2>1. PICK k : k = Min(T)
    OBVIOUS
  <2>2. k \in T
    <3>1. T \subseteq Nat
      BY <1>2
    <3> HIDE DEF T
    <3> QED BY <3>1, <2>1, <1>4, MinIsLeast
  <2>3. k \in 1..Len(order) /\ streams[order[k]].terminal /\ k # 0
    BY <2>2
  <2>4. Victim = order[k]
    BY <1>4, <2>1, <2>3 DEF Victim, SelectInSeq
  <2> QED
    BY <2>3, <2>4, <1>2 DEF Range
<1> QED
  BY <1>3, <1>4

\* The buffer's order after a stream has been opened.
LEMMA OpenFacts ==
    ASSUME Shape, Bounded(order), NEW r \in Runs, OpenStream(r)
    PROVE  /\ order' \in Seq(Runs) /\ Bounded(order)'
           /\ Evicts(r) => /\ Victim \in Range(order) /\ Victim \in Runs /\ Victim # r
                           /\ Range(order') = (Range(order) \ {Victim}) \cup {r}
           /\ ~Evicts(r) => Range(order') = Range(order) \cup {r}
<1>1. order \in Seq(Runs) /\ MaxStreams \in Nat \ {0} /\ Len(order) \in Nat
  BY StoreAssumption DEF Shape
<1>2. IsInjective(order) /\ Len(order) <= MaxStreams
  BY DEF Bounded
<1>3. PICK u : u = RemoveFirst(order, IF Evicts(r) THEN Victim ELSE r)
  OBVIOUS
<1>4. PICK w : w = order' /\ w = Append(u, r)
  BY <1>3 DEF OpenStream
<1>5. CASE Evicts(r)
  <2>1. r \notin Range(order) /\ Len(order) >= MaxStreams
    BY <1>5 DEF Evicts, Buffered
  <2>2. Victim \in Range(order) /\ Victim \in Runs
    BY <2>1, VictimFacts
  <2>3. u = RemoveFirst(order, Victim)
    BY <1>3, <1>5
  <2>4. u \in Seq(Runs) /\ IsInjective(u) /\ Range(u) = Range(order) \ {Victim}
        /\ Len(u) = Len(order) - 1
    BY <2>2, <2>3, <1>1, <1>2, RemoveDistinct
  <2>5. r \notin Range(u)
    BY <2>1, <2>4
  <2>6. w \in Seq(Runs) /\ IsInjective(w) /\ Len(w) = Len(u) + 1
        /\ Range(w) = Range(u) \cup {r}
    BY <2>4, <2>5, <1>4, AppendDistinct
  <2> QED
    BY <2>1, <2>2, <2>4, <2>6, <1>1, <1>2, <1>4, <1>5 DEF Bounded
<1>6. CASE ~Evicts(r)
  <2>1. r \in Range(order) \/ Len(order) < MaxStreams
    BY <1>1, <1>6 DEF Evicts, Buffered
  <2>3. u = RemoveFirst(order, r)
    BY <1>3, <1>6
  <2>4. u \in Seq(Runs) /\ IsInjective(u) /\ Range(u) = Range(order) \ {r}
        /\ Len(u) = IF r \in Range(order) THEN Len(order) - 1 ELSE Len(order)
    BY <2>3, <1>1, <1>2, RemoveDistinct
  <2>5. r \notin Range(u)
    BY <2>4
  <2>6. w \in Seq(Runs) /\ IsInjective(w) /\ Len(w) = Len(u) + 1
        /\ Range(w) = Range(u) \cup {r}
    BY <2>4, <2>5, <1>4, AppendDistinct
  <2> QED
    BY <2>1, <2>4, <2>6, <1>1, <1>2, <1>4, <1>6 DEF Bounded
<1> QED
  BY <1>5, <1>6

\* A buffer that suffices evicts finished streams only: if all its streams were
\* live, so many runs would publish already that the next one had to wait.
LEMMA VictimFinished ==
    ASSUME StoreInv, NEW r \in Runs, Evicts(r), BufferSuffices,
           r \in Live \/ Cardinality(Live) < MaxLive
    PROVE  streams[Victim].terminal
<1>1. /\ order \in Seq(Runs) /\ {MaxStreams, MaxLive} \subseteq Nat \ {0} /\ Len(order) \in Nat
      /\ MaxLive <= MaxStreams
  BY StoreAssumption DEF StoreInv, Shape, BufferSuffices
<1>2. ~Buffered(r) /\ Len(order) >= MaxStreams
  BY DEF Evicts
<1>3. r \notin Live /\ Cardinality(Live) < MaxLive
  BY <1>2 DEF StoreInv, RunOK
<1>4. SUFFICES ASSUME \A v \in Range(order) : ~streams[v].terminal
               PROVE  FALSE
  BY <1>2, VictimFacts DEF StoreInv
<1>5. \A i \in 1..Len(order) : order[i] \in Live
  <2> TAKE i \in 1..Len(order)
  <2>1. order[i] \in Runs /\ order[i] \in Range(order)
    BY <1>1 DEF Range
  <2>2. StreamOK(streams[order[i]], produced[order[i]])
    BY <2>1 DEF StoreInv, RunOK, Buffered
  <2>3. produced[order[i]].last > 0 /\ ~produced[order[i]].ended
    BY <2>1, <2>2, <1>4 DEF StreamOK
  <2> QED
    BY <2>1, <2>3 DEF Live
<1>6. order \in [1..Len(order) -> Live]
  BY <1>1, <1>5
<1>7. IsFiniteSet(Live) /\ Cardinality(Live) \in Nat
  <2>1. IsFiniteSet(Live)
    BY DEF StoreInv
  <2> QED
    BY <2>1, FS_CardinalityType, Zenon
<1>8. IsFiniteSet(1..Len(order)) /\ Cardinality(1..Len(order)) = Len(order)
  <2>1. \A n \in Nat : IsFiniteSet(1..n) /\ Cardinality(1..n) = n
    BY FS_Interval
  <2> QED
    BY <1>1, <2>1
<1>9. Cardinality(Live) < Cardinality(1..Len(order))
  BY <1>1, <1>2, <1>3, <1>7, <1>8
<1>10. PICK i \in 1..Len(order), j \in 1..Len(order) : i # j /\ order[i] = order[j]
  BY <1>6, <1>7, <1>8, <1>9, FS_PigeonHole
<1> QED
  BY <1>1, <1>10 DEF StoreInv, Bounded, IsInjective

\* A buffered stream increases, and is terminal when its last event is run_end.
LEMMA StreamFacts ==
    ASSUME NEW p \in Produced, NEW s \in Stream, StreamOK(s, p)
    PROVE  /\ Increase(s.events)
           /\ \A i \in DOMAIN s.events : s.events[i].end => i = Len(s.events)
           /\ s.terminal <=> Ended(s.events)
<1>1. s.events \in Seq(Event) /\ s.terminal \in BOOLEAN
  BY DEF Stream
<1>2. Newest(s.events, p) /\ (s.terminal <=> p.ended) /\ (p.ended => s.events # <<>>)
  BY DEF StreamOK
<1>3. /\ Increase(s.events)
      /\ \A i \in DOMAIN s.events : s.events[i].end => i = Len(s.events)
      /\ s.events # <<>> => (s.events[Len(s.events)].end <=> p.ended)
  BY <1>1, <1>2, NewestFacts
<1>4. s.events = <<>> => ~Ended(s.events)
  BY DEF Ended
<1>5. s.events # <<>> => (Ended(s.events) <=> s.events[Len(s.events)].end)
  BY <1>1, LastFacts
<1>6. s.terminal <=> Ended(s.events)
  BY <1>2, <1>3, <1>4, <1>5
<1> QED
  BY <1>3, <1>6

\* The types of a run's records, and the empty stream.
LEMMA RunTypes ==
    ASSUME Shape, NEW r \in Runs
    PROVE  /\ primary[r] \in Seq(Event) /\ streams[r] \in Stream /\ produced[r] \in Produced
           /\ streams[r].events \in Seq(Event)
           /\ pending[r] # None => pending[r] \in Event
  BY DEF Shape, Stream

\* The empty stream.
LEMMA NoStreamFacts ==
    NoStream \in Stream /\ NoStream.events = <<>> /\ NoStream.terminal = FALSE
<1>1. <<>> \in Seq(Event)
  OBVIOUS
<1> QED
  BY <1>1 DEF NoStream, Stream

\* An evicted stream of a buffer that suffices is a finished one.
EvictsFinished(r) == BufferSuffices /\ Evicts(r) => streams[Victim].terminal

\* The buffer after a stream has been opened: the others are as before, but for
\* the one that was evicted.
LEMMA OpeningOK ==
    ASSUME StoreInv, NEW r \in Runs, OpenStream(r), EvictsFinished(r),
           NEW opened, opened = Opened(r)
    PROVE  /\ opened \in [Runs -> Stream] /\ opened[r] = streams[r] /\ r \in Range(order')
           /\ \A v \in Runs \ {r} :
                /\ v \in Range(order') => Buffered(v) /\ opened[v] = streams[v]
                /\ v \notin Range(order') =>
                      opened[v] = NoStream /\ (BufferSuffices => v \notin Live)
<1>1. Shape /\ Bounded(order) /\ \A v \in Runs : RunOK(v)
  BY DEF StoreInv
<1>2. streams \in [Runs -> Stream]
  BY <1>1 DEF Shape
<1>3. CASE Evicts(r)
  <2>1. /\ Victim \in Range(order) /\ Victim \in Runs /\ Victim # r
        /\ Range(order') = (Range(order) \ {Victim}) \cup {r}
    BY <1>1, <1>3, OpenFacts
  <2>2. opened = [streams EXCEPT ![Victim] = NoStream]
    BY <1>3 DEF Opened
  <2>3. opened \in [Runs -> Stream] /\ opened[Victim] = NoStream
        /\ \A v \in Runs \ {Victim} : opened[v] = streams[v]
    BY <1>2, <2>1, <2>2, NoStreamFacts
  <2>4. BufferSuffices => Victim \notin Live
    <3> SUFFICES ASSUME BufferSuffices PROVE Victim \notin Live
      OBVIOUS
    <3>1. streams[Victim].terminal
      BY <1>3 DEF EvictsFinished
    <3>2. produced[Victim].ended
      BY <3>1, <2>1, <1>1 DEF RunOK, Buffered, StreamOK
    <3> QED
      BY <3>2 DEF Live
  <2>5. ASSUME NEW v \in Runs \ {r}
        PROVE  /\ v \in Range(order') => Buffered(v) /\ opened[v] = streams[v]
               /\ v \notin Range(order') =>
                     opened[v] = NoStream /\ (BufferSuffices => v \notin Live)
    <3>1. CASE v = Victim
      BY <3>1, <2>1, <2>3, <2>4
    <3>2. CASE v # Victim
      <4>1. opened[v] = streams[v] /\ (v \in Range(order') <=> v \in Range(order))
        BY <3>2, <2>1, <2>3
      <4> QED
        BY <4>1, <1>1 DEF RunOK, Buffered
    <3> QED
      BY <3>1, <3>2
  <2> QED
    BY <2>1, <2>3, <2>5
<1>4. CASE ~Evicts(r)
  <2>1. Range(order') = Range(order) \cup {r}
    BY <1>1, <1>4, OpenFacts
  <2>2. opened = streams
    BY <1>4 DEF Opened
  <2> QED
    BY <1>1, <1>2, <2>1, <2>2 DEF RunOK, Buffered
<1> QED
  BY <1>3, <1>4

\* The readers after a stream has been opened: those of the evicted one keep it.
LEMMA OrphanStep ==
    ASSUME StoreInv, NEW r \in Runs, OpenStream(r), EvictsFinished(r),
           NEW x \in Readers, NEW q, q = readers[x], NEW q2, q2 = Orphaned(r)[x]
    PROVE  /\ q2 \in Reader /\ ReaderOK(q2)
           /\ q2.run = q.run /\ q2.pc = q.pc
           /\ q2.source = "primary" => q2 = q
           /\ q2.source = "local" => q2.run \in Range(order')
           /\ q2.source \in {"local", "orphan"} =>
                 q2.run \in Runs /\ FromBuffer(q2, produced[q2.run])
<1>1. Shape /\ Bounded(order) /\ (\A v \in Runs : RunOK(v)) /\ FollowsOK(q)
  BY DEF StoreInv
<1>2. q \in Reader
  BY <1>1 DEF Shape
<1>3. ReaderOK(q) /\ (q.source # "none" => q.run \in Runs)
  BY <1>1, <1>2 DEF FollowsOK, ReaderOK, Reader
<1>4. CASE ~(Evicts(r) /\ q.source = "local" /\ q.run = Victim)
  <2>1. q2 = q
    BY <1>4 DEF Orphaned
  <2>2. q.source = "local" => q.run \in Range(order')
    <3> SUFFICES ASSUME q.source = "local" PROVE q.run \in Range(order')
      OBVIOUS
    <3>1. q.run \in Range(order)
      BY <1>1 DEF FollowsOK, Buffered
    <3> QED
      BY <3>1, <1>1, <1>4, OpenFacts
  <2>3. q.source \in {"local", "orphan"} => q.run \in Runs /\ FromBuffer(q, produced[q.run])
    BY <1>1, <1>3 DEF FollowsOK
  <2> QED
    BY <2>1, <2>2, <2>3, <1>2, <1>3
<1>5. CASE Evicts(r) /\ q.source = "local" /\ q.run = Victim
  <2>1. PICK s : s = streams[Victim]
    OBVIOUS
  <2>2. PICK p : p = produced[Victim]
    OBVIOUS
  <2>3. Victim \in Range(order) /\ Victim \in Runs
    BY <1>1, <1>5, OpenFacts
  <2>4. s \in Stream /\ p \in Produced /\ StreamOK(s, p)
    BY <1>1, <2>1, <2>2, <2>3 DEF Shape, RunOK, Buffered
  <2>5. q2 = [q EXCEPT !.source = "orphan", !.orphan = s]
    BY <1>5, <2>1 DEF Orphaned
  <2>6. q2 = [pc |-> q.pc, run |-> q.run, source |-> "orphan", after |-> q.after,
              cursor |-> q.cursor, got |-> q.got, orphan |-> s]
    BY <1>2, <2>5 DEF Reader
  <2>7. q2 \in Reader
    BY <1>2, <2>4, <2>6 DEF Reader
  <2>8. /\ q2.pc = q.pc /\ q2.run = q.run /\ q2.source = "orphan" /\ q2.after = q.after
        /\ q2.cursor = q.cursor /\ q2.got = q.got /\ q2.orphan = s
    BY <2>6
  <2>9. ReaderOK(q2)
    <3>1. GotOK(q2)
      BY <2>8, <1>3 DEF GotOK, ReaderOK
    <3> QED
      BY <3>1, <2>8, <1>3, <1>5 DEF ReaderOK
  <2>10. OrphanOK(s, p)
    <3>1. BufferSuffices => p.ended
      BY <1>5, <2>1, <2>4 DEF EvictsFinished, StreamOK
    <3> QED
      BY <3>1, <2>4, StreamFacts DEF OrphanOK
  <2>11. FromBuffer(q, p)
    BY <1>1, <1>5, <2>2 DEF FollowsOK
  <2>12. FromBuffer(q2, p)
    <3>1. Gapless(q2) <=> Gapless(q)
      BY <2>8 DEF Gapless
    <3>2. BelowTheEnd(q2, p.last, p.ended) <=> BelowTheEnd(q, p.last, p.ended)
      BY <2>8 DEF BelowTheEnd
    <3> QED
      BY <3>1, <3>2, <2>8, <2>10, <2>11 DEF FromBuffer
  <2> QED
    BY <1>5, <2>2, <2>3, <2>7, <2>8, <2>9, <2>12
<1> QED
  BY <1>4, <1>5

-----------------------------------------------------------------------------
\* The old stream of a replay.
LEMMA OldStreamFacts ==
    ASSUME Replayed # {}
    PROVE  /\ OldStream \in Seq(Event) /\ Increase(OldStream) /\ Len(OldStream) = 2
           /\ \A i \in 1..2 : OldStream[i].id = i /\ (OldStream[i].end => i = 2)
<1>1. 1 \in 1..MaxId /\ 2 \in 1..MaxId
  BY StoreAssumption
<1>2. [id |-> 1, end |-> FALSE] \in Event /\ [id |-> 2, end |-> TRUE] \in Event
  BY <1>1 DEF Event
<1>3. OldStream \in Seq(Event) /\ Len(OldStream) = 2
  BY <1>2 DEF OldStream
<1>4. OldStream[1] = [id |-> 1, end |-> FALSE] /\ OldStream[2] = [id |-> 2, end |-> TRUE]
  BY DEF OldStream
<1>5. \A i \in 1..2 : OldStream[i].id = i /\ (OldStream[i].end => i = 2)
  BY <1>4
<1>6. Increase(OldStream)
  BY <1>3, <1>5 DEF Increase
<1> QED
  BY <1>3, <1>5, <1>6

\* The invariant holds at first.
LEMMA InitInv ==
    Init => StoreInv
<1> SUFFICES ASSUME Init PROVE StoreInv
  OBVIOUS
<1> USE DEF Init
<1>1. <<>> \in Seq(Runs) /\ <<>> \in Seq(Event) /\ MaxId \in Nat /\ MaxStreams \in Nat
      /\ 0 \in 0..MaxId /\ MaxLive \in Nat
  BY StoreAssumption
<1>2. NoReader \in Reader
  BY <1>1, NoStreamFacts DEF NoReader, Reader
<1>3. [last |-> 0, ended |-> FALSE] \in Produced
  BY <1>1 DEF Produced
<1>4. \A r \in Runs : primary[r] \in Seq(Event)
  BY <1>1, OldStreamFacts
<1>5. primary \in [Runs -> Seq(Event)]
  BY <1>4
<1>6. Shape
  BY <1>1, <1>2, <1>3, <1>5, NoStreamFacts, StoreAssumption DEF Shape
<1>7. Bounded(order) /\ Bounded(degraded) /\ Range(order) = {} /\ Range(degraded) = {}
  BY <1>1 DEF Bounded, IsInjective, Range
<1>8. Live = {}
  BY DEF Live
<1>9. IsFiniteSet(Live) /\ Cardinality(Live) <= MaxLive
  BY <1>1, <1>8, FS_EmptySet
<1>10. ASSUME NEW r \in Runs PROVE RunOK(r)
  <2>1. produced[r].last = 0 /\ produced[r].ended = FALSE /\ pending[r] = None
        /\ streams[r] = NoStream /\ r \notin Live
    BY <1>8
  <2>2. Increase(primary[r])
    BY OldStreamFacts DEF Increase
  <2>3. RedisOK(primary[r], produced[r], pending[r], r \in Replayed)
    <3>1. CASE r \in Replayed
      <4>1. primary[r] = OldStream /\ Replayed # {}
        BY <3>1
      <4>2. /\ OldStream \in Seq(Event) /\ Len(OldStream) = 2
            /\ \A i \in 1..2 : OldStream[i].id = i /\ (OldStream[i].end => i = 2)
        BY <4>1, OldStreamFacts
      <4>3. \A i \in DOMAIN OldStream : OldStream[i].id = i
                                      /\ (OldStream[i].end => i = Len(OldStream))
        <5>1. DOMAIN OldStream = 1..2
          BY <4>2
        <5> QED
          BY <4>2, <5>1, Zenon
      <4>4. (r \in Replayed) = TRUE
        BY <3>1
      <4> HIDE DEF Init
      <4> QED
        BY <2>1, <4>1, <4>3, <4>4, Zenon DEF RedisOK
    <3>2. CASE r \notin Replayed
      <4>1. primary[r] = <<>>
        BY <3>2
      <4> QED
        BY <2>1, <3>2, <4>1 DEF RedisOK
    <3> QED
      BY <3>1, <3>2
  <2> QED
    BY <1>7, <2>1, <2>2, <2>3 DEF RunOK, ProducerOK, Buffered
<1>11. ASSUME NEW x \in Readers PROVE FollowsOK(readers[x])
  <2>1. readers[x] = NoReader
    OBVIOUS
  <2>2. NoReader.pc = "idle" /\ NoReader.source = "none" /\ NoReader.got = <<>>
        /\ NoReader.cursor = NoReader.after
    BY DEF NoReader
  <2> QED
    BY <2>1, <2>2 DEF FollowsOK, ReaderOK, GotOK
<1> QED
  BY <1>6, <1>7, <1>9, <1>10, <1>11 DEF StoreInv

\* A reader of the buffer is not disturbed by an event that is handed over.
LEMMA FromBufferGrows ==
    ASSUME NEW q \in Reader, NEW p \in Produced, ~p.ended, FromBuffer(q, p),
           NEW p2, p2.last = p.last + 1
    PROVE  FromBuffer(q, p2)
<1>1. q.cursor \in Nat
  BY DEF Reader
<1>2. PICK l \in Nat : p.last = l
  <2>1. MaxId \in Nat
    BY StoreAssumption
  <2> QED
    BY <2>1 DEF Produced
<1>3. MaxEvents \in Nat
  BY StoreAssumption
<1>4. q.source = "orphan" => OrphanOK(q.orphan, p2)
  BY DEF FromBuffer, OrphanOK
<1>5. ASSUME BufferSuffices, p2.last <= MaxEvents PROVE Gapless(q)
  BY <1>2, <1>3, <1>5 DEF FromBuffer
<1>6. ASSUME BufferSuffices, q.pc = "reading", q.got # <<>>
      PROVE  BelowTheEnd(q, p2.last, p2.ended)
  <2>1. q.cursor <= l
    BY <1>2, <1>6 DEF FromBuffer, BelowTheEnd
  <2> QED
    BY <1>1, <1>2, <2>1 DEF BelowTheEnd
<1> QED
  BY <1>4, <1>5, <1>6 DEF FromBuffer

\* The live runs after a producer has handed over an event are not too many.
LEMMA PublishLive ==
    ASSUME StoreInv, NEW r \in Runs, NEW b \in BOOLEAN,
           r \in Live \/ Cardinality(Live) < MaxLive,
           NEW n \in Nat,
           produced' = [produced EXCEPT ![r] = [last |-> n + 1, ended |-> b]]
    PROVE  IsFiniteSet(Live') /\ Cardinality(Live') <= MaxLive
<1>1. produced \in [Runs -> Produced] /\ IsFiniteSet(Live) /\ Cardinality(Live) <= MaxLive
  BY DEF StoreInv, Shape
<1>2. MaxLive \in Nat /\ Cardinality(Live) \in Nat
  BY <1>1, FS_CardinalityType, StoreAssumption
<1>3. \A v \in Runs \ {r} : produced'[v] = produced[v]
  BY <1>1
<1>4. produced'[r].last = n + 1 /\ produced'[r].ended = b
  BY <1>1
<1>5. CASE b
  <2>1. Live' \subseteq Live
    BY <1>3, <1>4, <1>5 DEF Live
  <2>2. IsFiniteSet(Live') /\ Cardinality(Live') <= Cardinality(Live)
    BY <1>1, <2>1, FS_Subset, Zenon
  <2>3. Cardinality(Live') \in Nat
    BY <2>2, FS_CardinalityType
  <2> QED
    BY <1>1, <1>2, <2>2, <2>3
<1>6. CASE ~b
  <2>1. Live' = Live \cup {r}
    <3>1. n + 1 > 0
      OBVIOUS
    <3> QED
      BY <1>3, <1>4, <1>6, <3>1 DEF Live
  <2>2. IsFiniteSet(Live \cup {r})
        /\ Cardinality(Live \cup {r}) = IF r \in Live THEN Cardinality(Live)
                                                     ELSE Cardinality(Live) + 1
    BY <1>1, FS_AddElement, Zenon
  <2> QED
    BY <1>1, <1>2, <2>1, <2>2
<1> QED
  BY <1>5, <1>6

\* The readers remain readers when each of them does.
LEMMA OrphanedReaders ==
    ASSUME NEW r, NEW g, g = Orphaned(r), \A x \in Readers : g[x] \in Reader
    PROVE  g \in [Readers -> Reader]
<1> DEFINE h(x) == IF Evicts(r) /\ readers[x].source = "local" /\ readers[x].run = Victim
                   THEN [readers[x] EXCEPT !.source = "orphan", !.orphan = streams[Victim]]
                   ELSE readers[x]
<1>1. g = [x \in Readers |-> h(x)]
  BY Zenon DEF Orphaned
<1> HIDE DEF h
<1>2. \A x \in Readers : h(x) \in Reader
  BY <1>1, Zenon
<1>3. [x \in Readers |-> h(x)] \in [Readers -> Reader]
  BY <1>2, Zenon
<1> QED
  BY <1>1, <1>3, Zenon

\* Publish keeps the invariant.
LEMMA PublishInv ==
    ASSUME StoreInv, NEW r \in Runs, NEW b \in BOOLEAN, Publish(r, b)
    PROVE  StoreInv'
<1>1. Shape /\ Bounded(order) /\ Bounded(degraded) /\ \A v \in Runs : RunOK(v)
  BY DEF StoreInv
<1>2. PICK p : p = produced[r]
  OBVIOUS
<1>3. PICK e : e = [id |-> p.last + 1, end |-> b]
  OBVIOUS
<1>4. PICK p2 : p2 = [last |-> p.last + 1, ended |-> b]
  OBVIOUS
<1>5. p \in Produced /\ p.last \in Nat
  <2>1. MaxId \in Nat
    BY StoreAssumption
  <2> QED
    BY <1>1, <1>2, <2>1 DEF Shape, Produced
<1>6. /\ pending[r] = None /\ ~p.ended /\ p.last + 1 <= MaxId
      /\ r \in Live \/ Cardinality(Live) < MaxLive
      /\ produced' = [produced EXCEPT ![r] = p2]
      /\ pending' = [pending EXCEPT ![r] = e]
      /\ OpenStream(r)
      /\ streams' = [Opened(r) EXCEPT ![r] = WithEvent(@, e)]
      /\ readers' = Orphaned(r)
      /\ UNCHANGED <<primary, degraded, budget, failed>>
  BY <1>2, <1>3, <1>4 DEF Publish
<1>7. /\ p2 \in Produced /\ e \in Event /\ e # None /\ e = EventOf(p2, p.last + 1)
      /\ p2.last = p.last + 1 /\ p2.ended = b
  BY <1>3, <1>4, <1>5, <1>6, NextEvent
<1>8. EvictsFinished(r)
  BY <1>6, VictimFinished DEF EvictsFinished
<1>9. PICK opened : opened = Opened(r)
  OBVIOUS
<1>10. /\ opened \in [Runs -> Stream] /\ opened[r] = streams[r] /\ r \in Range(order')
       /\ \A v \in Runs \ {r} :
            /\ v \in Range(order') => Buffered(v) /\ opened[v] = streams[v]
            /\ v \notin Range(order') =>
                  opened[v] = NoStream /\ (BufferSuffices => v \notin Live)
  BY <1>6, <1>8, <1>9, OpeningOK
<1>11. PICK s : s = streams[r]
  OBVIOUS
<1>12. PICK w : w = WithEvent(s, e)
  OBVIOUS
<1>13. /\ s \in Stream /\ ~s.terminal /\ Newest(s.events, p) /\ Len(s.events) <= MaxEvents
       /\ BufferSuffices => Full(s.events, p)
  <2>1. s \in Stream
    BY <1>1, <1>11 DEF Shape
  <2>2. CASE Buffered(r)
    BY <1>1, <1>2, <1>6, <1>11, <2>1, <2>2 DEF RunOK, StreamOK
  <2>3. CASE ~Buffered(r)
    <3>1. s = NoStream /\ (BufferSuffices => r \notin Live)
      BY <1>1, <1>11, <2>3 DEF RunOK
    <3>2. s.events = <<>> /\ ~s.terminal
      BY <3>1, NoStreamFacts
    <3>3. BufferSuffices => p.last = 0
      BY <3>1, <1>2, <1>5, <1>6 DEF Live
    <3>4. MaxEvents \in Nat /\ Len(<<>>) = 0
      BY StoreAssumption
    <3>5. Newest(s.events, p)
      BY <3>2, <1>5 DEF Newest
    <3>6. BufferSuffices => Full(s.events, p)
      BY <3>2, <3>3, <3>4 DEF Full, Smaller
    <3> QED
      BY <2>1, <3>2, <3>4, <3>5, <3>6
  <2> QED
    BY <2>2, <2>3
<1>14. w \in Stream /\ StreamOK(w, p2)
  BY <1>3, <1>4, <1>5, <1>6, <1>12, <1>13, WithEventOK
<1>15. /\ streams' \in [Runs -> Stream] /\ streams'[r] = w
       /\ \A v \in Runs \ {r} : streams'[v] = opened[v]
  BY <1>6, <1>9, <1>10, <1>11, <1>12, <1>14
<1>16. /\ produced' \in [Runs -> Produced] /\ produced'[r] = p2
       /\ \A v \in Runs \ {r} : produced'[v] = produced[v]
  BY <1>1, <1>6, <1>7 DEF Shape
<1>17. /\ pending' \in [Runs -> Event \cup {None}] /\ pending'[r] = e
       /\ \A v \in Runs \ {r} : pending'[v] = pending[v]
  BY <1>1, <1>6, <1>7 DEF Shape
<1>18. order' \in Seq(Runs) /\ Bounded(order)'
  BY <1>1, <1>6, OpenFacts
<1>19. \A x \in Readers :
          /\ readers'[x] \in Reader /\ ReaderOK(readers'[x])
          /\ readers'[x].run = readers[x].run /\ readers'[x].pc = readers[x].pc
          /\ readers'[x].source = "primary" => readers'[x] = readers[x]
          /\ readers'[x].source = "local" => readers'[x].run \in Range(order')
          /\ readers'[x].source \in {"local", "orphan"} =>
                readers'[x].run \in Runs /\ FromBuffer(readers'[x], produced[readers'[x].run])
  <2> TAKE x \in Readers
  <2>1. PICK q : q = readers[x]
    OBVIOUS
  <2>2. PICK q2 : q2 = Orphaned(r)[x]
    OBVIOUS
  <2>3. /\ q2 \in Reader /\ ReaderOK(q2)
        /\ q2.run = q.run /\ q2.pc = q.pc
        /\ q2.source = "primary" => q2 = q
        /\ q2.source = "local" => q2.run \in Range(order')
        /\ q2.source \in {"local", "orphan"} =>
              q2.run \in Runs /\ FromBuffer(q2, produced[q2.run])
    BY <1>6, <1>8, <2>1, <2>2, OrphanStep
  <2> QED
    BY <1>6, <2>1, <2>2, <2>3
<1>20. readers' \in [Readers -> Reader]
  <2>1. readers' = Orphaned(r) /\ \A x \in Readers : readers'[x] \in Reader
    BY <1>6, <1>19
  <2> QED
    BY <2>1, OrphanedReaders, Zenon
<1>21. Shape'
  BY <1>1, <1>6, <1>15, <1>16, <1>17, <1>18, <1>20 DEF Shape
<1>22. IsFiniteSet(Live') /\ Cardinality(Live') <= MaxLive
  BY <1>4, <1>5, <1>6, PublishLive
<1>23. ASSUME NEW v \in Runs PROVE RunOK(v)'
  <2>1. CASE v = r
    <3>1. ProducerOK(p2, e)
      <4>1. p2.last > 0
        BY <1>5, <1>7
      <4> QED
        BY <1>7, <4>1 DEF ProducerOK
    <3>2. r \notin failed => RedisOK(primary[r], p2, e, r \in Replayed)
      <4> SUFFICES ASSUME r \notin failed PROVE RedisOK(primary[r], p2, e, r \in Replayed)
        OBVIOUS
      <4>1. PICK z : z = primary[r]
        OBVIOUS
      <4>2. PICK o : o = (r \in Replayed)
        OBVIOUS
      <4>3. z \in Seq(Event) /\ o \in BOOLEAN /\ RedisOK(z, p, None, o)
        BY <1>1, <1>2, <1>6, <4>1, <4>2 DEF Shape, RunOK
      <4>4. RedisOK(z, p2, e, o)
        BY <1>3, <1>4, <1>5, <1>6, <4>3, RedisAwaits
      <4> QED
        BY <4>1, <4>2, <4>4
    <3>3. p2.last > 0 /\ (r \in Range(degraded) => r \in failed) /\ Increase(primary[r])
      BY <1>1, <1>5, <1>7 DEF RunOK
    <3>4. /\ produced'[r] = p2 /\ pending'[r] = e /\ streams'[r] = w /\ primary' = primary
          /\ degraded' = degraded /\ failed' = failed /\ r \in Range(order')
      BY <1>6, <1>10, <1>15, <1>16, <1>17
    <3> QED
      BY <2>1, <3>1, <3>2, <3>3, <3>4, <1>14 DEF RunOK, Buffered
  <2>2. CASE v # r
    <3>1. /\ produced'[v] = produced[v] /\ pending'[v] = pending[v] /\ primary' = primary
          /\ degraded' = degraded /\ failed' = failed
      BY <1>6, <1>16, <1>17, <2>2
    <3>2. v \in Range(order') => StreamOK(streams'[v], produced[v])
      BY <1>1, <1>10, <1>15, <2>2 DEF RunOK
    <3>3. v \notin Range(order') => streams'[v] = NoStream /\ (BufferSuffices => v \notin Live')
      <4>1. v \in Live' <=> v \in Live
        BY <3>1 DEF Live
      <4> QED
        BY <4>1, <1>10, <1>15, <2>2
    <3>4. RunOK(v)
      BY <1>1
    <3> QED
      BY <3>1, <3>2, <3>3, <3>4 DEF RunOK, Buffered
  <2> QED
    BY <2>1, <2>2
<1>24. ASSUME NEW x \in Readers PROVE FollowsOK(readers[x])'
  <2>1. PICK q2 : q2 = readers'[x]
    OBVIOUS
  <2>2. /\ q2 \in Reader /\ ReaderOK(q2)
        /\ q2.source = "local" => q2.run \in Range(order')
        /\ q2.source \in {"local", "orphan"} =>
              q2.run \in Runs /\ FromBuffer(q2, produced[q2.run])
    BY <1>19, <2>1
  <2>3. q2.source = "primary" /\ q2.run \notin failed' => FromRedis(q2, primary'[q2.run])
    <3>1. FollowsOK(readers[x])
      BY DEF StoreInv
    <3>2. q2.source = "primary" => q2 = readers[x]
      BY <1>19, <2>1
    <3> QED
      BY <3>1, <3>2, <1>6 DEF FollowsOK
  <2>4. q2.source \in {"local", "orphan"} => FromBuffer(q2, produced'[q2.run])
    <3> SUFFICES ASSUME q2.source \in {"local", "orphan"}
                 PROVE  FromBuffer(q2, produced'[q2.run])
      OBVIOUS
    <3>1. q2.run \in Runs /\ FromBuffer(q2, produced[q2.run])
      BY <2>2
    <3>2. CASE q2.run = r
      <4>1. FromBuffer(q2, p) /\ p2.last = p.last + 1
        BY <3>1, <3>2, <1>2, <1>7
      <4>2. FromBuffer(q2, p2)
        BY <4>1, <2>2, <1>5, <1>6, FromBufferGrows
      <4> QED
        BY <4>2, <3>2, <1>16
    <3>3. CASE q2.run # r
      BY <3>1, <3>3, <1>16
    <3> QED
      BY <3>2, <3>3
  <2> QED
    BY <2>1, <2>2, <2>3, <2>4, Zenon DEF FollowsOK, Buffered
<1> QED
  <2>1. Bounded(degraded)'
    BY <1>1, <1>6
  <2> QED
    BY <2>1, <1>18, <1>21, <1>22, <1>23, <1>24 DEF StoreInv

\* What a run is tied to: nothing changes for a run of which no variable changes.
LEMMA SameRun ==
    ASSUME StoreInv, NEW v \in Runs,
           primary'[v] = primary[v], streams'[v] = streams[v],
           produced'[v] = produced[v], pending'[v] = pending[v],
           v \in Range(order') <=> v \in Range(order),
           v \in Range(degraded') => v \in failed',
           v \in failed' <=> v \in failed
    PROVE  RunOK(v)'
<1>1. RunOK(v)
  BY DEF StoreInv
<1>2. v \in Live' <=> v \in Live
  BY DEF Live
<1> QED
  BY <1>1, <1>2 DEF RunOK, Buffered

\* A stream that takes the awaited event has no run_end yet.
LEMMA RedisOpen ==
    ASSUME NEW p \in Produced, NEW s \in Seq(Event), NEW replayed \in BOOLEAN,
           NEW e \in Event, e # None, ProducerOK(p, e), RedisOK(s, p, e, replayed),
           LastId(s) < e.id
    PROVE  ~Ended(s)
<1>1. PICK l \in Nat : p.last = l
  <2>1. MaxId \in Nat
    BY StoreAssumption
  <2> QED
    BY <2>1 DEF Produced
<1>2. e.id = l /\ l > 0
  BY <1>1 DEF ProducerOK, EventOf
<1>3. ~replayed
  <2> SUFFICES ASSUME replayed PROVE FALSE
    OBVIOUS
  <2>1. s = OldStream /\ l = 1
    BY <1>1, <1>2 DEF RedisOK
  <2>2. LastId(s) = 2
    BY <2>1 DEF LastId, OldStream, Last
  <2> QED
    BY <1>2, <2>1, <2>2
<1>4. Len(s) = l - 1 /\ \A i \in DOMAIN s : s[i] = EventOf(p, i)
  BY <1>1, <1>3 DEF RedisOK
<1>5. CASE s = <<>>
  BY <1>5 DEF Ended
<1>6. CASE s # <<>>
  <2>1. Len(s) \in Nat \ {0} /\ (Ended(s) <=> s[Len(s)].end) /\ DOMAIN s = 1..Len(s)
    BY <1>6, LastFacts
  <2>2. s[l - 1] = [id |-> l - 1, end |-> p.ended /\ l - 1 = l]
    BY <1>1, <1>4, <2>1 DEF EventOf
  <2>3. \A a, c : s[l - 1] = [id |-> a, end |-> c] => s[l - 1].end = c
    OBVIOUS
  <2>4. s[l - 1].end = (p.ended /\ l - 1 = l)
    BY <2>2, <2>3, Zenon
  <2>5. l - 1 # l
    BY <1>1
  <2>6. s[Len(s)] = s[l - 1]
    BY <1>4
  <2> QED
    BY <2>1, <2>4, <2>5, <2>6, Zenon
<1> QED
  BY <1>5, <1>6

\* A reader of Redis is not disturbed by an event that is added.
LEMMA FromRedisGrows ==
    ASSUME NEW q \in Reader, NEW s \in Seq(Event), FromRedis(q, s), ~Ended(s),
           NEW e \in Event, LastId(s) < e.id,
           NEW u, LastId(u) = e.id
    PROVE  FromRedis(q, u)
<1>1. q.cursor \in Nat /\ e.id \in Nat /\ LastId(s) \in Nat
  BY EventFacts, LastFacts DEF Reader
<1>2. ASSUME q.pc = "reading" PROVE BelowTheEnd(q, LastId(u), Ended(u))
  <2>1. q.cursor <= LastId(s)
    BY <1>2 DEF FromRedis, BelowTheEnd
  <2>2. q.cursor < LastId(u)
    BY <1>1, <2>1
  <2> QED
    BY <1>1, <2>2 DEF BelowTheEnd
<1> QED
  BY <1>2 DEF FromRedis

\* PublicationSucceeds keeps the invariant.
LEMMA PublicationSucceedsInv ==
    ASSUME StoreInv, NEW r \in Runs, PublicationSucceeds(r)
    PROVE  StoreInv'
<1>1. Shape /\ \A v \in Runs : RunOK(v)
  BY DEF StoreInv
<1>2. PICK s : s = primary[r]
  OBVIOUS
<1>3. PICK e : e = pending[r]
  OBVIOUS
<1>4. PICK p : p = produced[r]
  OBVIOUS
<1>5. PICK u : u = Append(s, e)
  OBVIOUS
<1>6. /\ e # None /\ LastId(s) < e.id
      /\ primary' = [primary EXCEPT ![r] = u]
      /\ pending' = [pending EXCEPT ![r] = None]
      /\ UNCHANGED <<streams, order, degraded, produced, readers, budget, failed>>
  BY <1>2, <1>3, <1>5 DEF PublicationSucceeds, Accepts, Accepted
<1>7. s \in Seq(Event) /\ e \in Event /\ p \in Produced /\ Increase(s) /\ ProducerOK(p, e)
  BY <1>1, <1>2, <1>3, <1>4, <1>6 DEF Shape, RunOK
<1>8. /\ u \in Seq(Event) /\ Increase(u) /\ u # <<>>
      /\ LastId(u) = e.id /\ (Ended(u) <=> e.end)
  BY <1>5, <1>6, <1>7, AppendIncreases
<1>9. /\ primary' \in [Runs -> Seq(Event)] /\ primary'[r] = u
      /\ \A v \in Runs \ {r} : primary'[v] = primary[v]
  BY <1>1, <1>6, <1>8 DEF Shape
<1>10. /\ pending' \in [Runs -> Event \cup {None}] /\ pending'[r] = None
       /\ \A v \in Runs \ {r} : pending'[v] = pending[v]
  BY <1>1, <1>6 DEF Shape
<1>11. Shape'
  BY <1>1, <1>6, <1>9, <1>10 DEF Shape
<1>12. ASSUME NEW v \in Runs PROVE RunOK(v)'
  <2>1. CASE v = r
    <3>1. r \notin failed => RedisOK(u, p, None, r \in Replayed)
      <4> SUFFICES ASSUME r \notin failed PROVE RedisOK(u, p, None, r \in Replayed)
        OBVIOUS
      <4>1. PICK o : o = (r \in Replayed)
        OBVIOUS
      <4>2. o \in BOOLEAN /\ RedisOK(s, p, e, o)
        BY <1>1, <1>2, <1>3, <1>4, <4>1 DEF RunOK
      <4>3. RedisOK(u, p, None, o)
        BY <1>5, <1>6, <1>7, <4>2, RedisTakes
      <4> QED
        BY <4>1, <4>3
    <3>2. ProducerOK(p, None)
      BY <1>7 DEF ProducerOK
    <3>3. /\ produced'[r] = p /\ pending'[r] = None /\ primary'[r] = u
          /\ streams' = streams /\ order' = order /\ degraded' = degraded /\ failed' = failed
          /\ Live' = Live
      BY <1>4, <1>6, <1>9, <1>10 DEF Live
    <3>4. RunOK(r)
      BY <1>1
    <3> QED
      BY <2>1, <3>1, <3>2, <3>3, <3>4, <1>4, <1>8 DEF RunOK, Buffered
  <2>2. CASE v # r
    <3>1. v \in Range(degraded) => v \in failed
      BY <1>1 DEF RunOK
    <3> QED
      BY <2>2, <3>1, <1>6, <1>9, <1>10, SameRun
  <2> QED
    BY <2>1, <2>2
<1>13. ASSUME NEW x \in Readers PROVE FollowsOK(readers[x])'
  <2>1. PICK q : q = readers[x]
    OBVIOUS
  <2>2. FollowsOK(q) /\ q \in Reader
    BY <1>1, <2>1 DEF StoreInv, Shape
  <2>3. q.source = "primary" /\ q.run \notin failed => FromRedis(q, primary'[q.run])
    <3> SUFFICES ASSUME q.source = "primary", q.run \notin failed
                 PROVE  FromRedis(q, primary'[q.run])
      OBVIOUS
    <3>1. q.run \in Runs /\ FromRedis(q, primary[q.run])
      BY <2>2 DEF FollowsOK, ReaderOK
    <3>2. CASE q.run = r
      <4>1. FromRedis(q, s)
        BY <3>1, <3>2, <1>2
      <4>2. ~Ended(s)
        <5>1. PICK o : o = (r \in Replayed)
          OBVIOUS
        <5>2. o \in BOOLEAN /\ RedisOK(s, p, e, o)
          BY <1>1, <1>2, <1>3, <1>4, <3>2, <5>1 DEF RunOK
        <5> QED
          BY <1>6, <1>7, <5>2, RedisOpen
      <4>3. FromRedis(q, u)
        BY <1>6, <1>7, <1>8, <2>2, <4>1, <4>2, FromRedisGrows
      <4> QED
        BY <3>2, <4>3, <1>9
    <3>3. CASE q.run # r
      BY <3>1, <3>3, <1>9
    <3> QED
      BY <3>2, <3>3
  <2> QED
    BY <1>6, <2>1, <2>2, <2>3 DEF FollowsOK, Buffered
<1> QED
  <2>1. Live' = Live /\ Bounded(order)' /\ Bounded(degraded)'
    BY <1>6 DEF StoreInv, Live
  <2> QED
    BY <2>1, <1>11, <1>12, <1>13 DEF StoreInv

\* _mark_degraded keeps the runs distinct and within the limit.
LEMMA MarkDegradedOK ==
    ASSUME degraded \in Seq(Runs), Bounded(degraded), NEW r \in Runs, MarkDegraded(r)
    PROVE  /\ degraded' \in Seq(Runs) /\ Bounded(degraded)'
           /\ Range(degraded') \subseteq Range(degraded) \cup {r}
<1>1. PICK a : a = RemoveFirst(degraded, r)
  OBVIOUS
<1>2. PICK m : m = Append(a, r)
  OBVIOUS
<1>3. PICK w : w = degraded'
  OBVIOUS
<1>4. w = IF Len(m) > MaxStreams THEN Tail(m) ELSE m
  BY <1>1, <1>2, <1>3 DEF MarkDegraded
<1>5. /\ a \in Seq(Runs) /\ IsInjective(a) /\ Range(a) = Range(degraded) \ {r}
      /\ Len(a) = IF r \in Range(degraded) THEN Len(degraded) - 1 ELSE Len(degraded)
  BY <1>1, RemoveDistinct DEF Bounded
<1>6. /\ m \in Seq(Runs) /\ IsInjective(m) /\ Len(m) = Len(a) + 1
      /\ Range(m) = Range(a) \cup {r}
  BY <1>2, <1>5, AppendDistinct
<1>7. MaxStreams \in Nat /\ Len(degraded) \in Nat /\ Len(degraded) <= MaxStreams
      /\ Len(a) \in Nat
  BY <1>5, StoreAssumption DEF Bounded
<1>8. /\ w \in Seq(Runs) /\ IsInjective(w) /\ Len(w) <= MaxStreams
      /\ Range(w) \subseteq Range(degraded) \cup {r}
  <2>1. CASE Len(m) > MaxStreams
    <3>1. w = Tail(m) /\ m # <<>>
      BY <1>4, <1>6, <1>7, <2>1
    <3>2. /\ Tail(m) \in Seq(Runs) /\ IsInjective(Tail(m)) /\ Len(Tail(m)) = Len(m) - 1
          /\ Range(Tail(m)) \subseteq Range(m)
      BY <1>6, <3>1, TailDistinct
    <3> QED
      BY <1>5, <1>6, <1>7, <3>1, <3>2
  <2>2. CASE ~(Len(m) > MaxStreams)
    BY <1>4, <1>5, <1>6, <1>7, <2>2
  <2> QED
    BY <2>1, <2>2
<1> QED
  BY <1>3, <1>8 DEF Bounded

\* PublicationFails keeps the invariant.
LEMMA PublicationFailsInv ==
    ASSUME StoreInv, NEW r \in Runs, PublicationFails(r)
    PROVE  StoreInv'
<1>1. Shape /\ Bounded(degraded) /\ \A v \in Runs : RunOK(v)
  BY DEF StoreInv
<1>2. PICK s : s = primary[r]
  OBVIOUS
<1>3. PICK e : e = pending[r]
  OBVIOUS
<1>4. PICK p : p = produced[r]
  OBVIOUS
<1>5. /\ e # None /\ pending' = [pending EXCEPT ![r] = None]
      /\ MarkDegraded(r) /\ failed' = failed \cup {r}
      /\ UNCHANGED <<streams, order, produced, readers>>
  BY <1>3 DEF PublicationFails, MarkDegraded
<1>6. s \in Seq(Event) /\ e \in Event /\ p \in Produced /\ Increase(s) /\ ProducerOK(p, e)
  BY <1>1, <1>2, <1>3, <1>4, <1>5 DEF Shape, RunOK
<1>7. budget' \in Nat
  BY <1>1 DEF Shape, PublicationFails
<1>8. PICK u : /\ u \in Seq(Event) /\ Increase(u)
               /\ primary' = [primary EXCEPT ![r] = u]
  <2>1. CASE primary' = primary
    <3>1. primary' = [primary EXCEPT ![r] = s]
      BY <1>1, <1>2, <2>1 DEF Shape
    <3> QED
      BY <1>6, <3>1
  <2>2. CASE primary' # primary
    <3>1. Accepts(r) /\ primary' = Accepted(r)
      BY <2>2 DEF PublicationFails, Accepted
    <3>2. LastId(s) < e.id /\ primary' = [primary EXCEPT ![r] = Append(s, e)]
      BY <1>2, <1>3, <3>1 DEF Accepts, Accepted
    <3>3. Append(s, e) \in Seq(Event) /\ Increase(Append(s, e))
      BY <1>6, <3>2, AppendIncreases
    <3> QED
      BY <3>2, <3>3
  <2> QED
    BY <2>1, <2>2
<1>9. /\ primary' \in [Runs -> Seq(Event)] /\ primary'[r] = u
      /\ \A v \in Runs \ {r} : primary'[v] = primary[v]
  BY <1>1, <1>8 DEF Shape
<1>10. /\ pending' \in [Runs -> Event \cup {None}] /\ pending'[r] = None
       /\ \A v \in Runs \ {r} : pending'[v] = pending[v]
  BY <1>1, <1>5 DEF Shape
<1>11. /\ degraded' \in Seq(Runs) /\ Bounded(degraded)'
       /\ Range(degraded') \subseteq Range(degraded) \cup {r}
  BY <1>1, <1>5, MarkDegradedOK DEF Shape
<1>12. Shape'
  BY <1>1, <1>5, <1>7, <1>9, <1>10, <1>11 DEF Shape
<1>13. ASSUME NEW v \in Runs PROVE RunOK(v)'
  <2>1. v \in Range(degraded') => v \in failed'
    BY <1>1, <1>5, <1>11 DEF RunOK
  <2>2. CASE v = r
    <3>1. ProducerOK(p, None) /\ p.last > 0
      BY <1>5, <1>6 DEF ProducerOK
    <3>2. /\ produced'[r] = p /\ pending'[r] = None /\ primary'[r] = u /\ r \in failed'
          /\ streams' = streams /\ order' = order /\ Live' = Live
      BY <1>4, <1>5, <1>9, <1>10 DEF Live
    <3>3. RunOK(r)
      BY <1>1
    <3> QED
      BY <2>1, <2>2, <3>1, <3>2, <3>3, <1>4, <1>8 DEF RunOK, Buffered
  <2>3. CASE v # r
    BY <2>1, <2>3, <1>5, <1>9, <1>10, SameRun
  <2> QED
    BY <2>2, <2>3
<1>14. ASSUME NEW x \in Readers PROVE FollowsOK(readers[x])'
  <2>1. PICK q : q = readers[x]
    OBVIOUS
  <2>2. FollowsOK(q) /\ q \in Reader
    BY <1>1, <2>1 DEF StoreInv, Shape
  <2>3. q.source = "primary" /\ q.run \notin failed' => FromRedis(q, primary'[q.run])
    BY <2>2, <1>5, <1>9 DEF FollowsOK, ReaderOK
  <2> QED
    BY <1>5, <2>1, <2>2, <2>3 DEF FollowsOK, Buffered
<1> QED
  <2>1. Live' = Live /\ Bounded(order)'
    BY <1>5 DEF StoreInv, Live
  <2> QED
    BY <2>1, <1>11, <1>12, <1>13, <1>14 DEF StoreInv

\* Expire keeps the invariant.
LEMMA ExpireInv ==
    ASSUME StoreInv, NEW r \in Runs, Expire(r)
    PROVE  StoreInv'
<1>1. Shape /\ \A v \in Runs : RunOK(v)
  BY DEF StoreInv
<1>2. PICK p : p = produced[r]
  OBVIOUS
<1>3. /\ p.ended /\ pending[r] = None
      /\ \A x \in Readers : readers[x].pc = "reading" => readers[x].run # r
      /\ primary' = [primary EXCEPT ![r] = <<>>]
      /\ UNCHANGED <<streams, order, degraded, produced, pending, readers, budget, failed>>
  BY <1>2 DEF Expire
<1>4. /\ primary' \in [Runs -> Seq(Event)] /\ primary'[r] = <<>>
      /\ \A v \in Runs \ {r} : primary'[v] = primary[v]
  <2>1. <<>> \in Seq(Event)
    OBVIOUS
  <2> QED
    BY <1>1, <1>3, <2>1 DEF Shape
<1>5. Shape'
  BY <1>1, <1>3, <1>4 DEF Shape
<1>6. ASSUME NEW v \in Runs PROVE RunOK(v)'
  <2>1. CASE v = r
    <3>1. r \notin failed => RedisOK(<<>>, p, None, r \in Replayed)
      <4> SUFFICES ASSUME r \notin failed PROVE RedisOK(<<>>, p, None, r \in Replayed)
        OBVIOUS
      <4>1. RedisOK(primary[r], p, None, r \in Replayed) /\ ProducerOK(p, None)
        BY <1>1, <1>2, <1>3 DEF RunOK
      <4>2. r \notin Replayed
        <5>1. p.last > 0
          BY <1>3, <4>1 DEF ProducerOK
        <5>2. p.last # 0
          BY <5>1, <1>1, <1>2, StoreAssumption DEF Shape, Produced
        <5> QED
          BY <4>1, <5>2 DEF RedisOK
      <4> QED
        BY <1>3, <4>2 DEF RedisOK
    <3>2. Increase(<<>>)
      BY DEF Increase
    <3>3. /\ produced'[r] = p /\ pending'[r] = None /\ primary'[r] = <<>>
          /\ streams' = streams /\ order' = order /\ degraded' = degraded /\ failed' = failed
          /\ Live' = Live
      BY <1>2, <1>3, <1>4 DEF Live
    <3>4. RunOK(r)
      BY <1>1
    <3> QED
      BY <2>1, <3>1, <3>2, <3>3, <3>4, <1>2, <1>3 DEF RunOK, Buffered
  <2>2. CASE v # r
    <3>1. v \in Range(degraded) => v \in failed
      BY <1>1 DEF RunOK
    <3> QED
      BY <2>2, <3>1, <1>3, <1>4, SameRun
  <2> QED
    BY <2>1, <2>2
<1>7. ASSUME NEW x \in Readers PROVE FollowsOK(readers[x])'
  <2>1. PICK q : q = readers[x]
    OBVIOUS
  <2>2. FollowsOK(q) /\ q \in Reader
    BY <1>1, <2>1 DEF StoreInv, Shape
  <2>3. q.source = "primary" /\ q.run \notin failed => FromRedis(q, primary'[q.run])
    <3> SUFFICES ASSUME q.source = "primary", q.run \notin failed
                 PROVE  FromRedis(q, primary'[q.run])
      OBVIOUS
    <3>1. q.run \in Runs /\ FromRedis(q, primary[q.run])
      BY <2>2 DEF FollowsOK, ReaderOK
    <3>2. CASE q.run = r
      BY <3>1, <3>2, <1>3, <2>1 DEF FromRedis
    <3>3. CASE q.run # r
      BY <3>1, <3>3, <1>4
    <3> QED
      BY <3>2, <3>3
  <2> QED
    BY <1>3, <2>1, <2>2, <2>3 DEF FollowsOK, Buffered
<1> QED
  <2>1. Live' = Live /\ Bounded(order)' /\ Bounded(degraded)'
    BY <1>3 DEF StoreInv, Live
  <2> QED
    BY <2>1, <1>5, <1>6, <1>7 DEF StoreInv

\* The reader record that Attach makes.
Attached(r, a, z, o) ==
    [pc |-> z, run |-> r, source |-> o, after |-> a, cursor |-> a, got |-> <<>>,
     orphan |-> NoStream]

\* A reader that has been sent nothing is in order.
LEMMA AttachedOK ==
    ASSUME NEW r \in Runs, NEW a \in Nat, NEW z \in {"reading", "done"},
           NEW o \in {"primary", "local"},
           NEW q, q = Attached(r, a, z, o)
    PROVE  /\ q \in Reader /\ ReaderOK(q) /\ Gapless(q)
           /\ q.run = r /\ q.pc = z /\ q.source = o /\ q.cursor = a /\ q.got = <<>>
<1>1. /\ q.run = r /\ q.pc = z /\ q.source = o /\ q.after = a /\ q.cursor = a
      /\ q.got = <<>> /\ q.orphan = NoStream
  BY DEF Attached
<1>2. <<>> \in Seq(Event) /\ DOMAIN <<>> = {}
  OBVIOUS
<1>3. q \in Reader
  BY <1>2, NoStreamFacts DEF Reader, Attached
<1>4. GotOK(q) /\ Gapless(q)
  BY <1>1, <1>2 DEF GotOK, Gapless
<1>5. ReaderOK(q)
  BY <1>1, <1>4 DEF ReaderOK
<1> QED
  BY <1>1, <1>3, <1>4, <1>5

\* Attach to the buffer keeps the invariant.
LEMMA AttachLocalInv ==
    ASSUME StoreInv, NEW x \in Readers, NEW r \in Runs, NEW a \in Nat,
           r \in Range(degraded), produced[r].ended => Latest(r) # <<>>,
           OpenStream(r), streams' = Opened(r),
           readers' = [Orphaned(r) EXCEPT ![x] = Attached(r, a, "reading", "local")],
           UNCHANGED <<primary, degraded, produced, pending, budget, failed>>
    PROVE  StoreInv'
<1>1. Shape /\ Bounded(order) /\ Bounded(degraded) /\ \A v \in Runs : RunOK(v)
  BY DEF StoreInv
<1>2. produced[r].last > 0 /\ r \in failed /\ produced[r].last \in Nat
  <2>1. MaxId \in Nat
    BY StoreAssumption
  <2> QED
    BY <1>1, <2>1 DEF RunOK, Shape, Produced
<1>3. ~Buffered(r) => ~produced[r].ended
  BY DEF Latest
<1>4. ~Buffered(r) => ~BufferSuffices
  BY <1>1, <1>2, <1>3 DEF RunOK, Live
<1>5. EvictsFinished(r)
  BY <1>4 DEF EvictsFinished, Evicts
<1>6. PICK opened : opened = Opened(r)
  OBVIOUS
<1>7. /\ opened \in [Runs -> Stream] /\ opened[r] = streams[r] /\ r \in Range(order')
      /\ \A v \in Runs \ {r} :
           /\ v \in Range(order') => Buffered(v) /\ opened[v] = streams[v]
           /\ v \notin Range(order') =>
                 opened[v] = NoStream /\ (BufferSuffices => v \notin Live)
  BY <1>5, <1>6, OpeningOK
<1>8. order' \in Seq(Runs) /\ Bounded(order)'
  BY <1>1, OpenFacts
<1>9. ASSUME NEW y \in Readers PROVE readers'[y] \in Reader /\ FollowsOK(readers[y])'
  <2>1. PICK q2 : q2 = readers'[y]
    OBVIOUS
  <2>2. CASE y = x
    <3>1. q2 = Attached(r, a, "reading", "local")
      BY <2>1, <2>2 DEF Orphaned
    <3>2. /\ q2 \in Reader /\ ReaderOK(q2) /\ Gapless(q2)
          /\ q2.run = r /\ q2.pc = "reading" /\ q2.source = "local" /\ q2.got = <<>>
      BY <3>1, AttachedOK
    <3>3. FromBuffer(q2, produced'[q2.run])
      BY <3>2 DEF FromBuffer
    <3>4. FollowsOK(readers[y])'
      BY <2>1, <3>2, <3>3, <1>7 DEF FollowsOK, Buffered
    <3> QED
      BY <2>1, <3>2, <3>4
  <2>3. CASE y # x
    <3>1. q2 = Orphaned(r)[y]
      BY <2>1, <2>3 DEF Orphaned
    <3>2. PICK q : q = readers[y]
      OBVIOUS
    <3>3. /\ q2 \in Reader /\ ReaderOK(q2)
          /\ q2.source = "primary" => q2 = q
          /\ q2.source = "local" => q2.run \in Range(order')
          /\ q2.source \in {"local", "orphan"} =>
                q2.run \in Runs /\ FromBuffer(q2, produced[q2.run])
      BY <1>5, <3>1, <3>2, OrphanStep
    <3>4. q2.source = "primary" /\ q2.run \notin failed => FromRedis(q2, primary[q2.run])
      <4>1. FollowsOK(q)
        BY <3>2 DEF StoreInv
      <4> QED
        BY <4>1, <3>3 DEF FollowsOK
    <3>5. FollowsOK(readers[y])'
      BY <2>1, <3>3, <3>4 DEF FollowsOK, Buffered
    <3> QED
      BY <2>1, <3>3, <3>5
  <2> QED
    BY <2>2, <2>3
<1>10. readers' \in [Readers -> Reader]
  <2>1. PICK g : g = readers'
    OBVIOUS
  <2>2. \A y \in Readers : g[y] \in Reader
    BY <1>9, <2>1
  <2>3. PICK h : h = Orphaned(r)
    OBVIOUS
  <2>4. DOMAIN h = Readers
    BY <2>3, Zenon DEF Orphaned
  <2>5. g = [y \in Readers |-> g[y]]
    BY <2>1, <2>3, <2>4
  <2> QED
    BY <2>1, <2>2, <2>5
<1>11. Shape'
  BY <1>1, <1>6, <1>7, <1>8, <1>10 DEF Shape
<1>12. ASSUME NEW v \in Runs PROVE RunOK(v)'
  <2>1. RunOK(v) /\ (v \in Live' <=> v \in Live)
    BY <1>1 DEF Live
  <2>2. v \in Range(order') => StreamOK(streams'[v], produced[v])
    <3>1. CASE v # r
      BY <2>1, <3>1, <1>6, <1>7 DEF RunOK
    <3>2. CASE v = r /\ Buffered(r)
      BY <2>1, <3>2, <1>6, <1>7 DEF RunOK
    <3>3. CASE v = r /\ ~Buffered(r)
      <4>1. streams'[v] = NoStream /\ ~produced[v].ended
        BY <2>1, <3>3, <1>3, <1>6, <1>7 DEF RunOK
      <4>2. Len(<<>>) = 0 /\ MaxEvents \in Nat
        BY StoreAssumption
      <4>3. Newest(<<>>, produced[v])
        BY <3>3, <1>2, <4>2 DEF Newest
      <4> QED
        BY <3>3, <4>1, <4>2, <4>3, <1>2, <1>4, NoStreamFacts DEF StreamOK
    <3> QED
      BY <3>1, <3>2, <3>3
  <2>3. v \notin Range(order') => streams'[v] = NoStream /\ (BufferSuffices => v \notin Live')
    BY <2>1, <1>6, <1>7
  <2> QED
    BY <2>1, <2>2, <2>3 DEF RunOK, Buffered
<1> QED
  <2>1. Live' = Live /\ Bounded(degraded)'
    BY <1>1 DEF Live
  <2>2. IsFiniteSet(Live') /\ Cardinality(Live') <= MaxLive
    BY <2>1 DEF StoreInv
  <2> QED
    BY <2>1, <2>2, <1>8, <1>9, <1>11, <1>12 DEF StoreInv

\* Attach to Redis keeps the invariant; the buffered stream may be made the most
\* recently used one.
LEMMA AttachPrimaryInv ==
    ASSUME StoreInv, NEW x \in Readers, NEW r \in Runs, NEW a \in Nat,
           r \notin Range(degraded), produced[r].ended => Latest(r) # <<>>,
           a <= LastId(primary[r]) \/ r \in failed,
           NEW z \in {"reading", "done"},
           z = "reading" => ~(Ended(primary[r]) /\ LastId(primary[r]) <= a),
           readers' = [readers EXCEPT ![x] = Attached(r, a, z, "primary")],
           order' = IF produced[r].ended /\ primary[r] = <<>>
                    THEN Append(RemoveFirst(order, r), r) ELSE order,
           UNCHANGED <<primary, streams, degraded, produced, pending, budget, failed>>
    PROVE  StoreInv'
<1>1. Shape /\ Bounded(order) /\ Bounded(degraded) /\ \A v \in Runs : RunOK(v)
  BY DEF StoreInv
<1>2. order' \in Seq(Runs) /\ Bounded(order)' /\ Range(order') = Range(order)
  <2>1. CASE produced[r].ended /\ primary[r] = <<>>
    <3>1. r \in Range(order)
      BY <2>1 DEF Latest, Buffered
    <3>2. PICK b : b = RemoveFirst(order, r)
      OBVIOUS
    <3>3. PICK w : w = Append(b, r)
      OBVIOUS
    <3>4. /\ b \in Seq(Runs) /\ IsInjective(b) /\ Range(b) = Range(order) \ {r}
          /\ Len(b) = Len(order) - 1
      BY <1>1, <3>1, <3>2, RemoveDistinct DEF Bounded, Shape
    <3>5. /\ w \in Seq(Runs) /\ IsInjective(w) /\ Len(w) = Len(b) + 1
          /\ Range(w) = Range(b) \cup {r}
      BY <3>3, <3>4, AppendDistinct
    <3>6. Len(w) <= MaxStreams /\ Range(w) = Range(order)
      <4>1. Len(order) \in Nat /\ Len(order) <= MaxStreams
        BY <1>1 DEF Bounded, Shape
      <4> QED
        BY <4>1, <3>1, <3>4, <3>5
    <3>7. order' = w
      BY <2>1, <3>2, <3>3
    <3> QED
      BY <3>5, <3>6, <3>7 DEF Bounded
  <2>2. CASE ~(produced[r].ended /\ primary[r] = <<>>)
    BY <1>1, <2>2 DEF Shape, Bounded
  <2> QED
    BY <2>1, <2>2
<1>3. PICK s : s = primary[r]
  OBVIOUS
<1>4. s \in Seq(Event) /\ LastId(s) \in Nat /\ Ended(s) \in BOOLEAN
  BY <1>1, <1>3, LastFacts DEF Shape
<1>6. ASSUME NEW y \in Readers PROVE readers'[y] \in Reader /\ FollowsOK(readers[y])'
  <2>1. PICK q2 : q2 = readers'[y]
    OBVIOUS
  <2>2. CASE y = x
    <3>1. q2 = Attached(r, a, z, "primary")
      BY <2>1, <2>2, <1>1 DEF Shape
    <3>2. /\ q2 \in Reader /\ ReaderOK(q2) /\ Gapless(q2)
          /\ q2.run = r /\ q2.pc = z /\ q2.source = "primary" /\ q2.cursor = a
      BY <3>1, AttachedOK
    <3>3. r \notin failed => FromRedis(q2, s)
      <4> SUFFICES ASSUME r \notin failed, q2.pc = "reading"
                   PROVE  BelowTheEnd(q2, LastId(s), Ended(s))
        BY <3>2 DEF FromRedis
      <4>1. a <= LastId(s)
        BY <1>3
      <4>2. ~(Ended(s) /\ LastId(s) <= a)
        BY <1>3, <3>2
      <4> QED
        BY <4>1, <4>2, <3>2, <1>4 DEF BelowTheEnd
    <3>4. FollowsOK(readers[y])'
      BY <2>1, <3>2, <3>3, <1>3 DEF FollowsOK
    <3> QED
      BY <2>1, <3>2, <3>4
  <2>3. CASE y # x
    <3>1. q2 = readers[y]
      BY <2>1, <2>3, <1>1 DEF Shape
    <3>2. q2 \in Reader /\ FollowsOK(q2)
      BY <3>1, <1>1 DEF Shape, StoreInv
    <3>3. FollowsOK(readers[y])'
      BY <2>1, <3>2, <1>2 DEF FollowsOK, Buffered
    <3> QED
      BY <2>1, <3>2, <3>3
  <2> QED
    BY <2>2, <2>3
<1>7. Shape'
  <2>1. readers' \in [Readers -> Reader]
    <3>1. \A y \in Readers : readers'[y] \in Reader
      BY <1>6
    <3>2. readers' = [y \in Readers |-> readers'[y]]
      BY <1>1 DEF Shape
    <3> QED
      BY <3>1, <3>2
  <2> QED
    BY <2>1, <1>1, <1>2 DEF Shape
<1>8. ASSUME NEW v \in Runs PROVE RunOK(v)'
  <2>1. v \in Range(degraded) => v \in failed
    BY <1>1 DEF RunOK
  <2> QED
    BY <2>1, <1>2, SameRun
<1> QED
  <2>1. Live' = Live /\ Bounded(degraded)'
    BY <1>1 DEF Live
  <2>2. IsFiniteSet(Live') /\ Cardinality(Live') <= MaxLive
    BY <2>1 DEF StoreInv
  <2> QED
    BY <2>1, <2>2, <1>2, <1>6, <1>7, <1>8 DEF StoreInv

\* Attach keeps the invariant.
LEMMA AttachInv ==
    ASSUME StoreInv, NEW x \in Readers, NEW r \in Runs, NEW a \in 0..MaxId, Attach(x, r, a)
    PROVE  StoreInv'
<1>1. a \in Nat
  BY StoreAssumption
<1>2. PICK reader : reader = [NoReader EXCEPT !.pc = "reading", !.run = r, !.after = a,
                                              !.cursor = a]
  OBVIOUS
<1>3. /\ a <= LastId(primary[r]) \/ r \in failed
      /\ produced[r].ended => Latest(r) # <<>>
      /\ UNCHANGED <<primary, degraded, produced, pending, budget, failed>>
  BY DEF Attach
<1>4. reader = Attached(r, a, "reading", "none")
  BY <1>2 DEF NoReader, Attached
<1>5. CASE r \in Range(degraded)
  <2>1. /\ OpenStream(r) /\ streams' = Opened(r)
        /\ readers' = [Orphaned(r) EXCEPT ![x] = [reader EXCEPT !.source = "local"]]
    BY <1>2, <1>5, Zenon DEF Attach
  <2>2. [reader EXCEPT !.source = "local"] = Attached(r, a, "reading", "local")
    BY <1>4 DEF Attached
  <2>3. readers' = [Orphaned(r) EXCEPT ![x] = Attached(r, a, "reading", "local")]
    BY <2>1, <2>2, Zenon
  <2> QED
    BY <1>1, <1>3, <1>5, <2>1, <2>3, AttachLocalInv
<1>6. CASE r \notin Range(degraded)
  <2>1. PICK z : z = IF Ended(primary[r]) /\ LastId(primary[r]) <= a
                     THEN "done" ELSE "reading"
    OBVIOUS
  <2>2. /\ readers' = [readers EXCEPT ![x] = [reader EXCEPT !.source = "primary", !.pc = z]]
        /\ order' = IF produced[r].ended /\ primary[r] = <<>>
                    THEN Append(RemoveFirst(order, r), r) ELSE order
        /\ UNCHANGED streams
    <3>1. /\ readers' = [readers EXCEPT ![x] =
                [reader EXCEPT !.source = "primary",
                    !.pc = IF Ended(primary[r]) /\ LastId(primary[r]) <= a
                           THEN "done" ELSE "reading"]]
          /\ order' = IF produced[r].ended /\ primary[r] = <<>>
                      THEN Append(RemoveFirst(order, r), r) ELSE order
          /\ UNCHANGED streams
      BY <1>2, <1>6, Zenon DEF Attach
    <3> QED
      BY <2>1, <3>1, Zenon
  <2>3. [reader EXCEPT !.source = "primary", !.pc = z] = Attached(r, a, z, "primary")
    <3>1. PICK b : b = [reader EXCEPT !.source = "primary"]
      OBVIOUS
    <3>2. b = Attached(r, a, "reading", "primary")
      BY <1>4, <3>1 DEF Attached
    <3>3. [b EXCEPT !.pc = z] = Attached(r, a, z, "primary")
      BY <3>2 DEF Attached
    <3> QED
      BY <3>1, <3>3, Zenon
  <2>4. readers' = [readers EXCEPT ![x] = Attached(r, a, z, "primary")]
    BY <2>2, <2>3, Zenon
  <2> QED
    <3>1. /\ z \in {"reading", "done"}
          /\ z = "reading" => ~(Ended(primary[r]) /\ LastId(primary[r]) <= a)
      BY <2>1
    <3> QED
      BY <1>1, <1>3, <1>6, <2>2, <2>4, <3>1, AttachPrimaryInv
<1> QED
  BY <1>5, <1>6

\* A reader's new record, when three of its fields are replaced.
LEMMA ReadersUpdate ==
    ASSUME NEW f \in [Readers -> Reader], NEW x \in Readers, NEW g, NEW c, NEW z,
           NEW h, h = [f EXCEPT ![x].got = g, ![x].cursor = c, ![x].pc = z],
           NEW q, q = f[x]
    PROVE  h = [f EXCEPT ![x] = [q EXCEPT !.got = g, !.cursor = c, !.pc = z]]
<1>1. PICK f1 : f1 = [f EXCEPT ![x].got = g]
  OBVIOUS
<1>2. PICK f2 : f2 = [f1 EXCEPT ![x].cursor = c]
  OBVIOUS
<1>3. h = [f2 EXCEPT ![x].pc = z]
  BY <1>1, <1>2, Zenon
<1>4. PICK q1 : q1 = [q EXCEPT !.got = g]
  OBVIOUS
<1>5. PICK q2 : q2 = [q1 EXCEPT !.cursor = c]
  OBVIOUS
<1>6. PICK q3 : q3 = [q2 EXCEPT !.pc = z]
  OBVIOUS
<1>7. f1 = [f EXCEPT ![x] = q1]
  BY <1>1, <1>4
<1>8. f2 = [f EXCEPT ![x] = q2]
  BY <1>2, <1>5, <1>7
<1>9. h = [f EXCEPT ![x] = q3]
  BY <1>3, <1>6, <1>8
<1> QED
  BY <1>4, <1>5, <1>6, <1>9, Zenon

\* What a reader finds is deliverable.
LEMMA FoundDeliverable ==
    ASSUME StoreInv, NEW x \in Readers, readers[x].pc = "reading",
           NEW q, q = readers[x]
    PROVE  Deliverable(q, Found(x), Finished(x))
<1>1. q \in Reader /\ FollowsOK(q) /\ q.run \in Runs /\ q.source \in {"primary", "local", "orphan"}
  <2>1. q \in Reader /\ FollowsOK(q)
    BY DEF StoreInv, Shape
  <2> QED
    BY <2>1 DEF FollowsOK, ReaderOK, Reader
<1>2. PICK r \in Runs : r = q.run
  BY <1>1
<1>3. RunOK(r) /\ primary[r] \in Seq(Event) /\ streams[r] \in Stream /\ produced[r] \in Produced
  BY DEF StoreInv, Shape
<1>4. CASE q.source = "primary"
  <2>1. PICK s : s = primary[r]
    OBVIOUS
  <2>2. PICK b : b = Beyond(s, q.cursor)
    OBVIOUS
  <2>3. PICK f : f = ToTheEnd(b)
    OBVIOUS
  <2>4. s \in Seq(Event) /\ Increase(s)
    BY <1>3, <2>1 DEF RunOK
  <2>5. Deliverable(q, f, Ended(f))
    BY <1>1, <2>2, <2>3, <2>4, RedisDeliverable
  <2>6. Found(x) = f /\ Finished(x) = Ended(f)
    BY <1>2, <1>4, <2>1, <2>2, <2>3 DEF Found, Finished
  <2> QED
    BY <2>5, <2>6, Zenon
<1>5. CASE q.source # "primary"
  <2>1. PICK s : s = Followed(x)
    OBVIOUS
  <2>2. PICK f : f = Beyond(s.events, q.cursor)
    OBVIOUS
  <2>3. /\ s \in Stream /\ Increase(s.events)
        /\ \A i \in DOMAIN s.events : s.events[i].end => i = Len(s.events)
        /\ s.terminal <=> Ended(s.events)
    <3>1. CASE q.source = "orphan"
      <4>1. s = q.orphan
        BY <2>1, <3>1 DEF Followed
      <4>2. OrphanOK(s, produced[q.run])
        BY <1>1, <3>1, <4>1 DEF FollowsOK, FromBuffer
      <4> QED
        BY <1>1, <4>1, <4>2 DEF OrphanOK, Reader
    <3>2. CASE q.source = "local"
      <4>1. s = streams[r]
        BY <1>2, <2>1, <3>2 DEF Followed
      <4>2. StreamOK(s, produced[r])
        BY <1>1, <1>2, <1>3, <3>2, <4>1 DEF FollowsOK, RunOK
      <4> QED
        BY <1>3, <4>1, <4>2, StreamFacts
    <3> QED
      BY <1>1, <1>5, <3>1, <3>2
  <2>4. Deliverable(q, f, s.terminal)
    BY <1>1, <2>2, <2>3, BufferDeliverable
  <2>5. Found(x) = f /\ Finished(x) = s.terminal
    BY <1>5, <2>1, <2>2 DEF Found, Finished
  <2> QED
    BY <2>4, <2>5, Zenon
<1> QED
  BY <1>4, <1>5

\* Read changes the one reader, by what it finds.
LEMMA ReadFacts ==
    ASSUME StoreInv, NEW x \in Readers, Read(x),
           NEW q, q = readers[x], NEW f, f = Found(x), NEW d, d = Finished(x)
    PROVE  /\ q \in Reader /\ q.pc = "reading" /\ FollowsOK(q)
           /\ Deliverable(q, f, d)
           /\ \E q2 \in Reader : /\ Delivered(q, q2, f, d)
                                 /\ readers' = [readers EXCEPT ![x] = q2]
<1>1. readers \in [Readers -> Reader] /\ q \in Reader /\ q.pc = "reading" /\ FollowsOK(q)
  BY DEF StoreInv, Shape, Read
<1>2. Deliverable(q, f, d)
  BY <1>1, FoundDeliverable
<1>3. PICK g : g = q.got \o f
  OBVIOUS
<1>4. PICK c : c = IF f = <<>> THEN q.cursor ELSE LastId(f)
  OBVIOUS
<1>5. PICK z : z = IF d THEN "done" ELSE "reading"
  OBVIOUS
<1>6. g \in Seq(Event) /\ c \in Nat /\ z \in {"idle", "reading", "done"}
  <2>1. f \in Seq(Event)
    BY <1>2 DEF Deliverable
  <2>2. LastId(f) \in Nat
    BY <2>1, LastFacts
  <2> QED
    BY <1>1, <1>3, <1>4, <1>5, <2>1, <2>2 DEF Reader
<1>7. PICK h : h = readers'
  OBVIOUS
<1>8. h = [readers EXCEPT ![x].got = g, ![x].cursor = c, ![x].pc = z]
  <2>1. readers' = [readers EXCEPT
             ![x].got = @ \o f,
             ![x].cursor = IF f = <<>> THEN @ ELSE LastId(f),
             ![x].pc = IF d THEN "done" ELSE "reading"]
    BY Zenon DEF Read
  <2>2. PICK f1 : f1 = [readers EXCEPT ![x].got = g]
    OBVIOUS
  <2>3. f1 = [readers EXCEPT ![x].got = @ \o f]
    BY <1>3, <2>2, Zenon
  <2>4. f1[x].cursor = q.cursor
    BY <1>1, <2>2 DEF Reader
  <2>5. PICK f2 : f2 = [f1 EXCEPT ![x].cursor = c]
    OBVIOUS
  <2>6. f2 = [f1 EXCEPT ![x].cursor = IF f = <<>> THEN @ ELSE LastId(f)]
    BY <1>4, <2>4, <2>5
  <2>7. h = [f2 EXCEPT ![x].pc = z]
    BY <1>5, <1>7, <2>1, <2>3, <2>6, Zenon
  <2> QED
    BY <2>2, <2>5, <2>7, Zenon
<1>9. PICK q2 : q2 = [q EXCEPT !.got = g, !.cursor = c, !.pc = z]
  OBVIOUS
<1>10. h = [readers EXCEPT ![x] = q2]
  BY <1>1, <1>8, <1>9, ReadersUpdate
<1>11. /\ q2 \in Reader /\ q2.run = q.run /\ q2.source = q.source /\ q2.after = q.after
       /\ q2.orphan = q.orphan /\ q2.got = g /\ q2.cursor = c /\ q2.pc = z
  <2>1. q2 = [pc |-> z, run |-> q.run, source |-> q.source, after |-> q.after,
              cursor |-> c, got |-> g, orphan |-> q.orphan]
    BY <1>1, <1>9 DEF Reader
  <2> QED
    BY <1>1, <1>6, <2>1, ReaderUpdate
<1>12. Delivered(q, q2, f, d)
  BY <1>3, <1>4, <1>5, <1>11 DEF Delivered
<1> QED
  BY <1>1, <1>2, <1>7, <1>10, <1>11, <1>12

\* A reader of Redis that reads is in order.
LEMMA ReadPrimary ==
    ASSUME StoreInv, NEW x \in Readers,
           NEW q \in Reader, q = readers[x], q.pc = "reading", FollowsOK(q), q.source = "primary",
           NEW f, f = Found(x), NEW d, d = Finished(x), Deliverable(q, f, d),
           NEW q2 \in Reader, Delivered(q, q2, f, d),
           f # <<>> => q2.got # <<>> /\ Last(q2.got) = f[Len(f)]
    PROVE  /\ q2.pc = "done" /\ q2.got # <<>> => Last(q2.got).end
           /\ q2.run \notin failed => FromRedis(q2, primary[q2.run])
<1>1. PICK r : r = q.run
  OBVIOUS
<1>2. q2.run = r /\ r \in Runs
  BY <1>1 DEF Delivered, FollowsOK, ReaderOK
<1>3. PICK s : s = primary[r]
  OBVIOUS
<1>4. s \in Seq(Event) /\ RunOK(r) /\ Increase(s)
  BY <1>2, <1>3 DEF StoreInv, Shape, RunOK
<1>5. PICK b : b = Beyond(s, q.cursor)
  OBVIOUS
<1>6. f = ToTheEnd(b) /\ d = Ended(f)
  BY <1>1, <1>3, <1>5 DEF Found, Finished
<1>7. ASSUME q2.pc = "done" PROVE Last(q2.got).end
  <2>1. Ended(f)
    BY <1>6, <1>7 DEF Delivered
  <2>2. f \in Seq(Event) /\ f # <<>>
    BY <2>1 DEF Deliverable, Ended
  <2>3. f[Len(f)].end
    BY <2>1, <2>2, LastFacts
  <2> QED
    BY <2>2, <2>3
<1>8. ASSUME r \notin failed PROVE FromRedis(q2, s)
  <2>1. FromRedis(q, s) /\ ReaderOK(q)
    BY <1>1, <1>3, <1>8 DEF FollowsOK
  <2>2. \A i \in DOMAIN s : s[i].id = i /\ (s[i].end => i = Len(s))
    BY <1>3, <1>4, <1>8 DEF RunOK, RedisOK
  <2>3. Delivered(q, q2, f, Ended(f))
    BY <1>6, Zenon
  <2> QED
    BY <1>4, <1>5, <1>6, <2>1, <2>2, <2>3, RedisRead
<1> QED
  BY <1>2, <1>3, <1>7, <1>8

\* A reader of the buffer that reads is in order.
LEMMA ReadBuffer ==
    ASSUME StoreInv, NEW x \in Readers,
           NEW q \in Reader, q = readers[x], q.pc = "reading", FollowsOK(q),
           q.source # "primary",
           NEW f, f = Found(x), NEW d, d = Finished(x), Deliverable(q, f, d),
           NEW q2 \in Reader, Delivered(q, q2, f, d),
           f # <<>> => q2.got # <<>> /\ Last(q2.got) = f[Len(f)],
           f = <<>> => q2.got = q.got
    PROVE  /\ q2.pc = "done" /\ q2.got # <<>> /\ BufferSuffices => Last(q2.got).end
           /\ FromBuffer(q2, produced[q2.run])
<1>1. PICK r : r = q.run
  OBVIOUS
<1>2. q2.run = r /\ r \in Runs /\ q.source \in {"local", "orphan"} /\ ReaderOK(q)
      /\ q2.source = q.source /\ q2.orphan = q.orphan
  BY <1>1 DEF Delivered, FollowsOK, ReaderOK, Reader
<1>3. PICK p : p = produced[r]
  OBVIOUS
<1>4. p \in Produced /\ RunOK(r) /\ FromBuffer(q, p) /\ streams[r] \in Stream
  BY <1>1, <1>2, <1>3 DEF StoreInv, Shape, FollowsOK
<1>5. PICK s : s = Followed(x)
  OBVIOUS
<1>6. PICK z : z = s.events
  OBVIOUS
<1>7. f = Beyond(z, q.cursor) /\ d = s.terminal
  BY <1>5, <1>6 DEF Found, Finished
<1>8. ASSUME BufferSuffices PROVE s \in Stream /\ StreamOK(s, p)
  <2>1. CASE q.source = "orphan"
    <3>1. s = q.orphan
      BY <1>5, <2>1 DEF Followed
    <3> QED
      BY <3>1, <1>4, <1>8, <2>1 DEF FromBuffer, OrphanOK, Reader
  <2>2. CASE q.source = "local"
    <3>1. s = streams[r]
      BY <1>1, <1>5, <2>2 DEF Followed
    <3>2. Buffered(r)
      BY <1>1, <2>2 DEF FollowsOK
    <3> QED
      BY <3>1, <3>2, <1>3, <1>4 DEF RunOK
  <2> QED
    BY <1>2, <2>1, <2>2
<1>9. ASSUME BufferSuffices
      PROVE  /\ p.last <= MaxEvents => Gapless(q2)
             /\ q2.pc = "reading" /\ q2.got # <<>> => BelowTheEnd(q2, p.last, p.ended)
             /\ q2.pc = "done" /\ q2.got # <<>> => Last(q2.got).end
  <2>1. s \in Stream /\ StreamOK(s, p)
    BY <1>8, <1>9
  <2>2. Delivered(q, q2, f, s.terminal)
    BY <1>7, Zenon
  <2> QED
    BY <1>2, <1>4, <1>6, <1>7, <1>9, <2>1, <2>2, BufferRead
<1>10. FromBuffer(q2, p)
  BY <1>2, <1>4, <1>9 DEF FromBuffer
<1> QED
  BY <1>2, <1>3, <1>9, <1>10

\* Read keeps the invariant.
LEMMA ReadInv ==
    ASSUME StoreInv, NEW x \in Readers, Read(x)
    PROVE  StoreInv'
<1>1. Shape /\ Bounded(order) /\ Bounded(degraded) /\ \A v \in Runs : RunOK(v)
  BY DEF StoreInv
<1>2. UNCHANGED <<primary, streams, order, degraded, produced, pending, budget, failed>>
  BY DEF Read
<1>3. PICK q : q = readers[x]
  OBVIOUS
<1>4. PICK f : f = Found(x)
  OBVIOUS
<1>5. PICK d : d = Finished(x)
  OBVIOUS
<1>6. q \in Reader /\ q.pc = "reading" /\ FollowsOK(q) /\ Deliverable(q, f, d)
  BY <1>3, <1>4, <1>5, ReadFacts
<1>7. PICK q2 \in Reader : /\ Delivered(q, q2, f, d)
                           /\ readers' = [readers EXCEPT ![x] = q2]
  BY <1>3, <1>4, <1>5, ReadFacts
<1>8. /\ GotOK(q2)
      /\ f # <<>> => q2.got # <<>> /\ Last(q2.got) = f[Len(f)]
      /\ f = <<>> => q2.got = q.got
  <2>1. ReaderOK(q)
    BY <1>6 DEF FollowsOK
  <2>2. /\ f \in Seq(Event) /\ d \in BOOLEAN /\ Increase(f)
        /\ \A i \in 1..Len(f) : f[i].id > q.cursor /\ (f[i].end => i = Len(f) /\ d)
    BY <1>6 DEF Deliverable
  <2>3. /\ q2.after = q.after /\ q2.got = q.got \o f
        /\ q2.cursor = IF f = <<>> THEN q.cursor ELSE LastId(f)
        /\ q2.pc = IF d THEN "done" ELSE "reading"
    BY <1>7 DEF Delivered
  <2> QED
    BY <1>6, <2>1, <2>2, <2>3, DeliveryOK
<1>9. q2.run = q.run /\ q2.source = q.source /\ q2.pc # "idle" /\ q.run \in Runs
      /\ q.source # "none"
  BY <1>6, <1>7 DEF Delivered, FollowsOK, ReaderOK
<1>10. FollowsOK(q2)
  <2>1. CASE q.source = "primary"
    <3>1. /\ q2.pc = "done" /\ q2.got # <<>> => Last(q2.got).end
          /\ q2.run \notin failed => FromRedis(q2, primary[q2.run])
      BY <1>3, <1>4, <1>5, <1>6, <1>7, <1>8, <2>1, ReadPrimary
    <3>2. ReaderOK(q2)
      BY <3>1, <1>8, <1>9 DEF ReaderOK
    <3> QED
      BY <3>1, <3>2, <1>9, <2>1 DEF FollowsOK
  <2>2. CASE q.source # "primary"
    <3>1. /\ q2.pc = "done" /\ q2.got # <<>> /\ BufferSuffices => Last(q2.got).end
          /\ FromBuffer(q2, produced[q2.run])
      BY <1>3, <1>4, <1>5, <1>6, <1>7, <1>8, <2>2, ReadBuffer
    <3>2. ReaderOK(q2)
      BY <3>1, <1>8, <1>9, <2>2 DEF ReaderOK
    <3>3. q2.source = "local" => Buffered(q2.run)
      BY <1>6, <1>9 DEF FollowsOK
    <3> QED
      BY <3>1, <3>2, <3>3, <1>9, <2>2 DEF FollowsOK
  <2> QED
    BY <2>1, <2>2
<1>11. ASSUME NEW y \in Readers PROVE readers'[y] \in Reader /\ FollowsOK(readers[y])'
  <2>1. PICK u : u = readers'[y]
    OBVIOUS
  <2>2. u \in Reader /\ FollowsOK(u)
    <3>1. CASE y = x
      BY <2>1, <3>1, <1>1, <1>7, <1>10 DEF Shape
    <3>2. CASE y # x
      <4>1. u = readers[y]
        BY <2>1, <3>2, <1>1, <1>7 DEF Shape
      <4> QED
        BY <4>1 DEF StoreInv, Shape
    <3> QED
      BY <3>1, <3>2
  <2> QED
    BY <2>1, <2>2, <1>2 DEF FollowsOK, Buffered
<1>12. Shape'
  <2>1. readers' \in [Readers -> Reader]
    BY <1>1, <1>7 DEF Shape
  <2> QED
    BY <2>1, <1>1, <1>2 DEF Shape
<1>13. ASSUME NEW v \in Runs PROVE RunOK(v)'
  <2>1. v \in Range(degraded) => v \in failed
    BY <1>1 DEF RunOK
  <2> QED
    BY <2>1, <1>2, SameRun
<1> QED
  <2>1. Live' = Live /\ Bounded(order)' /\ Bounded(degraded)'
    BY <1>1, <1>2 DEF Live
  <2>2. IsFiniteSet(Live') /\ Cardinality(Live') <= MaxLive
    BY <2>1 DEF StoreInv
  <2> QED
    BY <2>1, <2>2, <1>11, <1>12, <1>13 DEF StoreInv

-----------------------------------------------------------------------------
\* Every step keeps the invariant.
LEMMA NextInv ==
    StoreInv /\ [Next]_vars => StoreInv'
<1> SUFFICES ASSUME StoreInv, [Next]_vars PROVE StoreInv'
  OBVIOUS
<1>1. ASSUME NEW r \in Runs, NEW end \in BOOLEAN, Publish(r, end) PROVE StoreInv'
  BY <1>1, PublishInv
<1>2. ASSUME NEW r \in Runs, PublicationSucceeds(r) PROVE StoreInv'
  BY <1>2, PublicationSucceedsInv
<1>3. ASSUME NEW r \in Runs, PublicationFails(r) PROVE StoreInv'
  BY <1>3, PublicationFailsInv
<1>4. ASSUME NEW r \in Runs, Expire(r) PROVE StoreInv'
  BY <1>4, ExpireInv
<1>5. ASSUME NEW x \in Readers, NEW r \in Runs, NEW after \in 0..MaxId, Attach(x, r, after)
      PROVE  StoreInv'
  BY <1>5, AttachInv
<1>6. ASSUME NEW x \in Readers, Read(x) PROVE StoreInv'
  BY <1>6, ReadInv
<1>7. ASSUME UNCHANGED vars PROVE StoreInv'
  BY <1>7 DEF vars, StoreInv, Shape, Bounded, Live, RunOK, Buffered, FollowsOK
<1> QED
  BY <1>1, <1>2, <1>3, <1>4, <1>5, <1>6, <1>7 DEF Next

\* What readers, buffer and Redis have of each run is always what StoreInv says.
THEOREM StoreInductive == Spec => []StoreInv
<1>1. Init => StoreInv
  BY InitInv
<1>2. StoreInv /\ [Next]_vars => StoreInv'
  BY NextInv
<1> QED
  BY <1>1, <1>2, PTL DEF Spec

\* A stream that has been published to its end shows run_end last.
LEMMA RedisEnds ==
    ASSUME NEW p \in Produced, NEW s \in Seq(Event), NEW replayed \in BOOLEAN,
           ProducerOK(p, None), RedisOK(s, p, None, replayed), p.ended, s # <<>>
    PROVE  Ended(s)
<1>1. PICK l \in Nat : p.last = l
  <2>1. MaxId \in Nat
    BY StoreAssumption
  <2> QED
    BY <2>1 DEF Produced
<1>2. ~replayed /\ l > 0
  <2>1. l > 0
    BY <1>1 DEF ProducerOK
  <2> QED
    BY <1>1, <2>1 DEF RedisOK
<1>3. Len(s) = l /\ \A i \in DOMAIN s : s[i] = EventOf(p, i)
  BY <1>1, <1>2 DEF RedisOK
<1>4. Len(s) \in Nat \ {0} /\ (Ended(s) <=> s[Len(s)].end) /\ DOMAIN s = 1..Len(s)
  BY LastFacts
<1>5. s[l] = [id |-> l, end |-> p.ended /\ l = l]
  BY <1>1, <1>3, <1>4 DEF EventOf
<1>6. \A a, c : s[l] = [id |-> a, end |-> c] => s[l].end = c
  OBVIOUS
<1>7. s[l].end = (p.ended /\ l = l)
  BY <1>5, <1>6, Zenon
<1>8. s[Len(s)] = s[l]
  BY <1>3
<1> QED
  BY <1>4, <1>7, <1>8, Zenon

\* The shapes, and the limits of the buffer.
LEMMA StoreInvType ==
    StoreInv => StoreTypeOK
<1> SUFFICES ASSUME StoreInv PROVE StoreTypeOK
  OBVIOUS
<1>1. Shape /\ Bounded(order) /\ Bounded(degraded) /\ \A r \in Runs : RunOK(r)
  BY DEF StoreInv
<1>2. ASSUME NEW r \in Runs
      PROVE  /\ \A e \in Range(primary[r]) \cup Range(streams[r].events) : e \in Event
             /\ Increase(primary[r]) /\ Increase(streams[r].events)
             /\ Len(streams[r].events) <= MaxEvents
             /\ ~Buffered(r) => streams[r] = NoStream
  <2>1. /\ primary[r] \in Seq(Event) /\ streams[r] \in Stream /\ streams[r].events \in Seq(Event)
        /\ produced[r] \in Produced /\ RunOK(r)
    BY <1>1, RunTypes
  <2>2. \A e \in Range(primary[r]) \cup Range(streams[r].events) : e \in Event
    BY <2>1 DEF Range
  <2>3. CASE Buffered(r)
    <3>1. StreamOK(streams[r], produced[r])
      BY <2>1, <2>3 DEF RunOK
    <3>2. Increase(streams[r].events) /\ Len(streams[r].events) <= MaxEvents
      BY <2>1, <3>1, StreamFacts DEF StreamOK
    <3> QED
      BY <2>1, <2>2, <2>3, <3>2 DEF RunOK
  <2>4. CASE ~Buffered(r)
    <3>1. streams[r] = NoStream
      BY <2>1, <2>4 DEF RunOK
    <3>2. streams[r].events = <<>>
      BY <3>1, NoStreamFacts
    <3>3. Increase(streams[r].events) /\ Len(streams[r].events) <= MaxEvents
      BY <3>2, StoreAssumption DEF Increase
    <3> QED
      BY <2>1, <2>2, <3>1, <3>3 DEF RunOK
  <2> QED
    BY <2>3, <2>4
<1>3. \A x \in Readers : /\ readers[x].pc \in {"idle", "reading", "done"}
                         /\ readers[x].source \in {"none", "primary", "local", "orphan"}
  BY <1>1 DEF Shape, Reader
<1> QED
  BY <1>1, <1>2, <1>3 DEF StoreTypeOK, Bounded, Event

\* A buffer that suffices has the newest events of every live run.
LEMMA StoreInvRetains ==
    StoreInv => LiveStreamsRetained
<1> SUFFICES ASSUME StoreInv, BufferSuffices, NEW r \in Live
             PROVE  /\ Buffered(r)
                    /\ LastId(streams[r].events) = produced[r].last
                    /\ Len(streams[r].events) = IF produced[r].last < MaxEvents
                                                THEN produced[r].last ELSE MaxEvents
  BY DEF LiveStreamsRetained
<1>1. r \in Runs /\ produced[r].last > 0
  BY DEF Live
<1>2. Shape /\ RunOK(r) /\ Buffered(r)
  BY <1>1 DEF StoreInv, RunOK
<1>3. PICK p : p = produced[r]
  OBVIOUS
<1>4. PICK s : s = streams[r].events
  OBVIOUS
<1>5. s \in Seq(Event) /\ p \in Produced
  BY <1>1, <1>2, <1>3, <1>4, RunTypes
<1>6. Newest(s, p) /\ Full(s, p) /\ p.last > 0
  BY <1>1, <1>2, <1>3, <1>4 DEF RunOK, StreamOK
<1>7. PICK l \in Nat : p.last = l
  <2>1. MaxId \in Nat
    BY StoreAssumption
  <2> QED
    BY <1>5, <2>1 DEF Produced
<1>8. Len(s) = (IF l < MaxEvents THEN l ELSE MaxEvents) /\ MaxEvents \in Nat \ {0}
  BY <1>6, <1>7, StoreAssumption DEF Full, Smaller
<1>9. s # <<>>
  BY <1>5, <1>6, <1>7, <1>8
<1>10. LastId(s) = s[Len(s)].id /\ s[Len(s)].id = p.last
  BY <1>5, <1>6, <1>9, LastFacts, NewestFacts
<1> QED
  BY <1>2, <1>3, <1>4, <1>7, <1>8, <1>10

\* Nobody who came to the end of a stream missed an event of it.
LEMMA StoreInvComplete ==
    StoreInv => FinishedReadersMissNothing
<1> SUFFICES ASSUME StoreInv, NEW x \in Readers, NEW q, q = readers[x],
                    q.pc = "done", q.source = "primary" => q.run \notin failed,
                    q.source # "primary" => BufferSuffices /\ produced[q.run].last <= MaxEvents
             PROVE  /\ \A i \in DOMAIN q.got : q.got[i].id = q.after + i
                    /\ q.got # <<>> => Last(q.got).end
  BY DEF FinishedReadersMissNothing
<1>1. q \in Reader /\ FollowsOK(q)
  BY DEF StoreInv, Shape
<1>2. ReaderOK(q) /\ q.source # "none"
  BY <1>1 DEF FollowsOK, ReaderOK
<1>3. CASE q.source = "primary"
  BY <1>1, <1>2, <1>3 DEF FollowsOK, FromRedis, Gapless, ReaderOK
<1>4. CASE q.source # "primary"
  <2>1. q.source \in {"local", "orphan"}
    BY <1>1, <1>2, <1>4 DEF Reader
  <2> QED
    BY <1>1, <1>2, <1>4, <2>1 DEF FollowsOK, FromBuffer, Gapless, ReaderOK
<1> QED
  BY <1>3, <1>4

\* Deliveries increase, and stop at run_end.
LEMMA StoreInvIncrease ==
    StoreInv => DeliveriesIncrease
  BY DEF StoreInv, FollowsOK, ReaderOK, GotOK, DeliveriesIncrease

\* latest() shows run_end once it has been published.
LEMMA StoreInvLatest ==
    StoreInv => LatestShowsTheEnd
<1> SUFFICES ASSUME StoreInv, NEW r \in Runs, produced[r].ended, pending[r] = None,
                    r \in failed => r \in Range(degraded), Latest(r) # <<>>
             PROVE  Ended(Latest(r))
  BY DEF LatestShowsTheEnd
<1>1. Shape /\ RunOK(r)
  BY DEF StoreInv
<1>2. /\ primary[r] \in Seq(Event) /\ streams[r] \in Stream /\ produced[r] \in Produced
      /\ ProducerOK(produced[r], None)
  BY <1>1, RunTypes DEF RunOK
<1>3. CASE r \in Range(degraded) \/ primary[r] = <<>>
  <2>1. Buffered(r) /\ Latest(r) = streams[r].events
    BY <1>3 DEF Latest
  <2>2. StreamOK(streams[r], produced[r])
    BY <1>1, <2>1 DEF RunOK
  <2>3. Ended(streams[r].events)
    BY <1>2, <2>2, StreamFacts DEF StreamOK
  <2> QED
    BY <2>1, <2>3
<1>4. CASE ~(r \in Range(degraded) \/ primary[r] = <<>>)
  <2>1. Latest(r) = primary[r] /\ primary[r] # <<>>
    BY <1>4 DEF Latest
  <2>2. PICK o : o = (r \in Replayed)
    OBVIOUS
  <2>3. o \in BOOLEAN /\ RedisOK(primary[r], produced[r], None, o)
    BY <1>1, <1>4, <2>2 DEF RunOK
  <2> QED
    BY <1>2, <2>1, <2>3, RedisEnds
<1> QED
  BY <1>3, <1>4

\* A reader below the end of a stream finds the rest of it.
LEMMA FindsTheRest ==
    ASSUME NEW s \in Seq(Event), Increase(s), NEW c \in Nat,
           NEW b, b = Beyond(s, c), NEW f, f = ToTheEnd(b)
    PROVE  s # <<>> /\ c < LastId(s) => f # <<>>
<1>1. c \in Nat
  OBVIOUS
<1>2. b = Beyond(s, c)
  OBVIOUS
<1>3. b \in Seq(Event)
  BY <1>1, <1>2, BeyondFacts
<1>4. PICK k \in 0..Len(s) :
          /\ Len(b) = Len(s) - k
          /\ \A i \in 1..k : s[i].id <= c
          /\ \A i \in 1..Len(b) : b[i] = s[k + i] /\ s[k + i].id > c
  BY <1>1, <1>2, BeyondFacts, Zenon
<1> SUFFICES ASSUME s # <<>>, c < LastId(s) PROVE f # <<>>
  OBVIOUS
<1>5. Len(s) \in Nat \ {0} /\ LastId(s) = s[Len(s)].id /\ s[Len(s)].id \in Nat
  BY LastFacts, EventFacts
<1>6. k # Len(s)
  BY <1>4, <1>5
<1>7. b # <<>>
  BY <1>3, <1>4, <1>5, <1>6
<1> QED
  BY <1>3, <1>7, ToTheEndFacts

\* Nobody waits below the end of a stream for events that are not coming.
LEMMA StoreInvReach ==
    StoreInv => ReadersReachTheEnd
<1> SUFFICES ASSUME StoreInv, NEW x \in Readers, NEW q, q = readers[x],
                    NEW r, r = q.run,
                    q.pc = "reading", produced[r].ended, pending[r] = None,
                    q.source = "primary" => r \notin failed /\ primary[r] # <<>>,
                    q.source = "orphan" => BufferSuffices
             PROVE  Found(x) # <<>> \/ Finished(x)
  BY DEF ReadersReachTheEnd
<1>1. Shape /\ q \in Reader /\ FollowsOK(q)
  BY DEF StoreInv, Shape
<1>2. r \in Runs /\ q.source \in {"primary", "local", "orphan"} /\ q.cursor \in Nat
  BY <1>1 DEF FollowsOK, ReaderOK, Reader
<1>3. /\ primary[r] \in Seq(Event) /\ streams[r] \in Stream /\ produced[r] \in Produced
      /\ RunOK(r)
  BY <1>1, <1>2, RunTypes DEF StoreInv
<1>4. CASE q.source = "local"
  <2>1. StreamOK(streams[r], produced[r])
    BY <1>1, <1>3, <1>4 DEF FollowsOK, RunOK
  <2>2. Finished(x) = streams[r].terminal
    BY <1>4 DEF Finished, Followed
  <2>3. streams[r].terminal
    BY <2>1 DEF StreamOK
  <2> QED
    BY <2>2, <2>3
<1>5. CASE q.source = "orphan"
  <2>1. StreamOK(q.orphan, produced[r])
    BY <1>1, <1>5 DEF FollowsOK, FromBuffer, OrphanOK
  <2>2. Finished(x) = q.orphan.terminal
    BY <1>5 DEF Finished, Followed
  <2>3. q.orphan.terminal
    BY <2>1 DEF StreamOK
  <2> QED
    BY <2>2, <2>3
<1>6. CASE q.source = "primary"
  <2>1. PICK s : s = primary[r]
    OBVIOUS
  <2>2. PICK b : b = Beyond(s, q.cursor)
    OBVIOUS
  <2>3. PICK f : f = ToTheEnd(b)
    OBVIOUS
  <2>4. s \in Seq(Event) /\ s # <<>> /\ Increase(s)
    BY <1>3, <1>6, <2>1 DEF RunOK
  <2>5. Ended(s)
    <3>1. PICK o : o = (r \in Replayed)
      OBVIOUS
    <3>2. o \in BOOLEAN /\ RedisOK(s, produced[r], None, o) /\ ProducerOK(produced[r], None)
      BY <1>3, <1>6, <2>1, <3>1 DEF RunOK
    <3> QED
      BY <1>3, <2>4, <3>2, RedisEnds
  <2>6. q.cursor < LastId(s)
    BY <1>1, <1>6, <2>1, <2>5 DEF FollowsOK, FromRedis, BelowTheEnd
  <2>7. f # <<>>
    BY <1>2, <2>2, <2>3, <2>4, <2>6, FindsTheRest
  <2>8. Found(x) = f
    BY <1>6, <2>1, <2>2, <2>3 DEF Found
  <2> QED
    BY <2>7, <2>8
<1> QED
  BY <1>2, <1>4, <1>5, <1>6

\* The replay buffer keeps to its limits, and as long as no more runs publish at
\* a time than it holds streams, never at the cost of a run that is live.
THEOREM BufferBounds == Spec => []BufferIsBounded
<1>1. StoreInv => BufferIsBounded
  BY StoreInvType, StoreInvRetains DEF BufferIsBounded
<1> QED
  BY <1>1, StoreInductive, PTL

\* Whatever failed, was evicted or expired: a reader gets each event at most once
\* and in order.  One that came to the end of its stream got them all, unless it
\* followed Redis for a run whose publications failed, or the buffer for a run
\* that outgrew it or with more live runs than it has streams.
THEOREM ReadersGetEverything == Spec => []ReadersMissNothing
<1>1. StoreInv => ReadersMissNothing
  BY StoreInvComplete, StoreInvIncrease DEF ReadersMissNothing
<1> QED
  BY <1>1, StoreInductive, PTL

\* Once run_end has been published, latest() shows it or nothing, unless the
\* degradation of its run was forgotten, and a reader that waits finds it, unless
\* it follows Redis for a run whose publications failed or whose stream had
\* expired, or lost its stream to an eviction from a buffer too small.
THEOREM EndIsFound == Spec => []EndIsNeverHidden
<1>1. StoreInv => EndIsNeverHidden
  BY StoreInvLatest, StoreInvReach DEF EndIsNeverHidden
<1> QED
  BY <1>1, StoreInductive, PTL
=============================================================================
