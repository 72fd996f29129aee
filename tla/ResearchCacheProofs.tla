------------------------- MODULE ResearchCacheProofs -------------------------
(***************************************************************************)
(* The result cache for any number of requests, queries and retentions:    *)
(* every hit is fresh and answers the question asked, a live reservation   *)
(* is its holder's, and no request leaves one behind.                      *)
(*                                                                         *)
(* The inductive invariant CacheInv says what each stored entry promises   *)
(* (RowOK, ExactOK: until when it may be served and to whom), what each    *)
(* request carries between its awaits (RequestOK), and how the fill locks  *)
(* and the requests that hold them agree (Kept, Owed).                     *)
(***************************************************************************)
EXTENDS ResearchCache, WellFoundedInduction, TLAPS

Entries == [payload : Payloads, expires : Int]
Results == [artifacts : SUBSET DOMAIN Retention, read : Nat]
Answereds == [payload : Payloads, at : Nat]
Pcs == {"idle", "get", "search", "promote", "acquire", "wait",
        "origin", "answer", "put", "release", "done"}
Record == [pc : Pcs, query : Queries \cup {None}, deadline : Nat \cup {None},
           lockUntil : Nat \cup {None}, result : Results \cup Entries \cup {None},
           hit : Hits \cup Answereds \cup {None}]

Shape ==
    /\ now \in 0..Horizon /\ faults \in 0..MaxFaults
    /\ exact \in [Keys -> Entries \cup {None}]
    /\ lock \in [Keys -> Locks \cup {None}]
    /\ rows \in [Keys -> Entries \cup {None}]
    /\ req \in [Requests -> Record]

\* Payload p may be served at time t, up to slack ticks late.
Within(p, t, slack) ==
    /\ \A a \in p.artifacts : t < p.read + Second * Retention[a] + slack
    /\ p.artifacts = {} => t < p.stored + Second * SourceFreeTtl + slack

\* Payload p answers query q.
Answered(q, p) ==
    \/ p.query = q
    \/ p.query.class = q.class /\ SemanticEligible(q) /\ SemanticEligible(p.query)

RowOK(e, k) ==
    /\ e \in Entries
    /\ e.payload.query.key = k /\ SemanticEligible(e.payload.query)
    /\ Within(e.payload, e.expires, Second)

\* A promoted copy may outlive its row by the rounding to whole seconds.
ExactOK(e, k) ==
    /\ e \in Entries /\ e.expires \in Nat
    /\ Within(e.payload, e.expires, 2 * Second - 1)
    /\ \A q \in Queries : q.key = k =>
          /\ Answered(q, e.payload)
          /\ q.relative => e.expires <= e.payload.stored + Second * RelativeTtl

HitOK(q, hit) ==
    /\ hit.payload.valid /\ hit.payload \in Payloads /\ hit.at \in Nat
    /\ Answered(q, hit.payload)
    /\ Within(hit.payload, hit.at, Slack)
    /\ q.relative => hit.at < hit.payload.stored + Second * RelativeTtl

\* What a request carries at time t.
Carries(x, t) ==
    /\ x.pc # "idle" => x.query \in Queries
    /\ x.pc \in {"search", "promote", "put"} => SemanticEligible(x.query)
    /\ x.pc = "promote" => /\ x.hit \in Hits /\ x.hit.at < x.hit.expires
                           /\ Answered(x.query, x.hit.payload)
                           /\ Within(x.hit.payload, x.hit.expires, Second)
    /\ x.pc = "answer" => x.result \in Results /\ x.result.read <= t
    /\ x.pc = "put" => RowOK(x.result, x.query.key)
    /\ x.pc = "done" /\ x.hit # None => HitOK(x.query, x.hit)

Turn(x, t, f) ==
    /\ x.lockUntil # None => /\ x.pc \in {"origin", "answer", "put", "release"}
                             /\ x.deadline = None
    /\ x.pc = "release" => x.lockUntil # None
    /\ x.pc = "wait" => x.deadline # None
    /\ x.pc = "acquire" => x.deadline = None
    /\ x.pc \in {"origin", "answer"} /\ x.lockUntil = None =>
          (x.deadline # None /\ t >= x.deadline) \/ f > 0

RequestOK(x, t, f) == Carries(x, t) /\ Turn(x, t, f)

\* A reservation that has not expired is in the lock.
Kept(r) ==
    req[r].lockUntil # None /\ now < req[r].lockUntil =>
        lock[Key(r)] = [token |-> r, expires |-> req[r].lockUntil]

\* A lock is live, and its holder's reservation unless a cache error hid it.
Owed(k) ==
    lock[k] # None => /\ lock[k].expires > now
                      /\ \/ /\ req[lock[k].token].lockUntil = lock[k].expires
                            /\ Key(lock[k].token) = k
                         \/ faults > 0

CacheInv ==
    /\ Shape
    /\ \A k \in Keys : /\ rows[k] # None => RowOK(rows[k], k)
                       /\ exact[k] # None => ExactOK(exact[k], k)
                       /\ Owed(k)
    /\ \A r \in Requests : RequestOK(req[r], now, faults) /\ Kept(r)

-----------------------------------------------------------------------------
\* Whole seconds of a number of ticks.
LEMMA DivBounds ==
    ASSUME NEW x \in Int, NEW d \in Nat \ {0}
    PROVE  x \div d \in Int /\ d * (x \div d) <= x /\ x < d * (x \div d) + d
<1>1. x \div d \in Int
  OBVIOUS
<1>2. d * (x \div d) <= x
  OBVIOUS
<1>3. x < d * (x \div d) + d
  OBVIOUS
<1> QED
  BY <1>1, <1>2, <1>3

\* A set of natural numbers that is not empty has a least element.
LEMMA LeastNatural ==
    ASSUME NEW T, T \subseteq Nat, T # {}
    PROVE  \E m \in T : \A y \in T : m <= y
<1> DEFINE R == OpToRel(<, Nat)
<1>1. IsWellFoundedOn(R, Nat)
  BY NatLessThanWellFounded
<1>2. \A y, z \in Nat : y < z => <<y, z>> \in R
  BY DEF OpToRel
<1> HIDE DEF R
<1>3. \E m \in T : \A y \in T : ~ (<<y, m>> \in R)
  BY <1>1, WFMin
<1>4. PICK m \in T : \A y \in T : ~ (<<y, m>> \in R)
  BY <1>3
<1>5. \A y \in T : m <= y
  <2> SUFFICES ASSUME NEW y \in T, ~ (m <= y) PROVE FALSE
    OBVIOUS
  <2>1. y \in Nat /\ m \in Nat /\ y < m
    OBVIOUS
  <2>2. <<y, m>> \in R
    BY <1>2, <2>1, Zenon
  <2> QED
    BY <1>4, <2>2, Zenon
<1> QED
  BY <1>5

\* A set of integers with a lower bound has a least element, and Min is it.
LEMMA MinIsLeast ==
    ASSUME NEW S, S \subseteq Int, S # {}, NEW b \in Int, \A x \in S : b <= x
    PROVE  Min(S) \in S /\ \A y \in S : Min(S) <= y
<1> DEFINE T == {x - b : x \in S}
<1>1. PICK s \in S : TRUE
  OBVIOUS
<1>2. s - b \in T
  OBVIOUS
<1>3. T \subseteq Nat
  OBVIOUS
<1>4. PICK m \in T : \A y \in T : m <= y
  <2> HIDE DEF T
  <2> QED BY <1>2, <1>3, LeastNatural
<1>5. PICK x \in S : m = x - b
  OBVIOUS
<1>6. \A y \in S : x <= y
  <2> TAKE y \in S
  <2>1. m <= y - b
    BY <1>4
  <2> QED
    BY <2>1, <1>5
<1> QED
  BY <1>6 DEF Min

\* The clock's second, and the times to live, are positive numbers.
LEMMA Seconds ==
    /\ SourceFreeTtl \in Nat /\ RelativeTtl \in Nat /\ FillLock \in Nat /\ FillWait \in Nat
    /\ Second \in Nat /\ Second >= 1 /\ FillLock >= 1 /\ SourceFreeTtl >= 1 /\ RelativeTtl >= 1
    /\ \A n \in Int : Second * n \in Int
    /\ \A a \in DOMAIN Retention : Retention[a] \in Nat
  BY CacheAssumption

\* A larger number of seconds is at least as many ticks.
LEMMA TimesMonotone ==
    ASSUME NEW d \in Nat, NEW x \in Int, NEW y \in Int, x <= y
    PROVE  d * x <= d * y
  OBVIOUS

\* What remains of a result's shortest retention, counted from its source.
LEMMA RemainingBounds ==
    ASSUME now \in Nat, NEW result, result.artifacts \subseteq DOMAIN Retention,
           result.read \in Nat, result.read <= now
    PROVE  /\ Remaining(result) \in Int
           /\ \A a \in result.artifacts :
                 now + Second * Remaining(result) < result.read + Second * Retention[a] + Second
           /\ result.artifacts = {} => Remaining(result) = SourceFreeTtl
<1> DEFINE age == (now - result.read) \div Second
           S == {Retention[a] - age : a \in result.artifacts}
<1>1. /\ age \in Int /\ Second * age <= now - result.read
      /\ now - result.read < Second * age + Second
  <2> DEFINE d == now - result.read
  <2>1. d \in Int /\ Second \in Nat \ {0}
    BY CacheAssumption
  <2> HIDE DEF d
  <2>2. /\ d \div Second \in Int /\ Second * (d \div Second) <= d
        /\ d < Second * (d \div Second) + Second
    BY <2>1, DivBounds
  <2> QED
    BY <2>2 DEF d
<1>2. CASE result.artifacts = {}
  BY <1>2, Seconds DEF Remaining
<1>3. CASE result.artifacts # {}
  <2>1. Remaining(result) = Min(S)
    BY <1>3 DEF Remaining
  <2>2. \A a \in result.artifacts : Retention[a] \in Nat
    BY Seconds
  <2> HIDE DEF age
  <2>3. S \subseteq Int /\ S # {} /\ -age \in Int /\ \A y \in S : -age <= y
    BY <1>1, <1>3, <2>2
  <2>4. Min(S) \in S /\ \A y \in S : Min(S) <= y
    <3> HIDE DEF S
    <3> QED
      BY <2>3, MinIsLeast
  <2>5. ASSUME NEW a \in result.artifacts
        PROVE  now + Second * Min(S) < result.read + Second * Retention[a] + Second
    <3>1. Min(S) \in Int /\ Min(S) <= Retention[a] - age
      BY <2>3, <2>4
    <3> HIDE DEF S
    <3> DEFINE m == Min(S)
               t == Retention[a]
    <3>2. m \in Int /\ t \in Nat /\ m <= t - age
      BY <2>2, <3>1
    <3> HIDE DEF m, t
    <3>3. Second * m <= Second * (t - age)
      BY <1>1, <3>2, Seconds, TimesMonotone
    <3>4. Second * (t - age) = Second * t - Second * age
      BY <1>1, <3>2, Seconds
    <3>5. now + Second * m < result.read + Second * t + Second
      BY <1>1, <3>2, <3>3, <3>4, Seconds
    <3> QED
      BY <3>5 DEF m, t
  <2> QED
    BY <1>3, <2>1, <2>3, <2>4, <2>5
<1> QED
  BY <1>2, <1>3

\* An entry that lives no longer than what remains is served within bounds.
LEMMA EntryWithin ==
    ASSUME now \in Nat, NEW p, p.artifacts \subseteq DOMAIN Retention, p.read \in Nat,
           p.read <= now, p.stored = now, NEW ttl \in Int, ttl <= Remaining(p)
    PROVE  Within(p, now + Second * ttl, Second)
<1> DEFINE rest == Remaining(p)
<1>1. /\ rest \in Int
      /\ \A a \in p.artifacts : now + Second * rest < p.read + Second * Retention[a] + Second
      /\ p.artifacts = {} => rest = SourceFreeTtl
  BY RemainingBounds
<1>2. ttl <= rest
  OBVIOUS
<1> HIDE DEF rest
<1>3. Second * ttl <= Second * rest /\ Second * ttl \in Int /\ Second * rest \in Int
  BY <1>1, <1>2, Seconds, TimesMonotone
<1>4. \A a \in p.artifacts : now + Second * ttl < p.read + Second * Retention[a] + Second
  <2> TAKE a \in p.artifacts
  <2>1. Second * Retention[a] \in Int
    BY Seconds
  <2>2. now + Second * rest < p.read + Second * Retention[a] + Second
    BY <1>1
  <2> DEFINE t == Second * Retention[a]
             u == Second * ttl
             v == Second * rest
  <2>3. t \in Int /\ u \in Int /\ v \in Int /\ u <= v /\ now + v < p.read + t + Second
    BY <1>3, <2>1, <2>2
  <2> HIDE DEF t, u, v
  <2>4. now + u < p.read + t + Second
    BY <2>3, Seconds
  <2> QED
    BY <2>4 DEF t, u
<1>5. p.artifacts = {} => now + Second * ttl < p.stored + Second * SourceFreeTtl + Second
  BY <1>1, <1>3, Seconds
<1> QED
  BY <1>4, <1>5 DEF Within

\* A later deadline with as much more slack.
LEMMA WithinLater ==
    ASSUME NEW p \in Payloads, NEW t \in Int, NEW u \in Int, NEW s \in Int, NEW v \in Int,
           Within(p, t, s), u - v <= t - s
    PROVE  Within(p, u, v)
<1>1. p.read \in Nat /\ p.stored \in Nat /\ p.artifacts \subseteq DOMAIN Retention
  BY DEF Payloads
<1>2. ASSUME NEW a \in p.artifacts PROVE u < p.read + Second * Retention[a] + v
  <2> DEFINE b == Second * Retention[a]
  <2>1. b \in Int /\ t < p.read + b + s
    BY <1>1, Seconds DEF Within
  <2> HIDE DEF b
  <2>2. u < p.read + b + v
    BY <1>1, <2>1
  <2> QED
    BY <2>2 DEF b
<1>3. p.artifacts = {} => u < p.stored + Second * SourceFreeTtl + v
  BY <1>1, Seconds DEF Within
<1> QED
  BY <1>2, <1>3 DEF Within

\* The time to live of a result that is stored.
LEMMA StoreTtlBounds ==
    ASSUME now \in Nat, NEW q \in Queries, NEW result, result.artifacts \subseteq DOMAIN Retention,
           result.read \in Nat, result.read <= now
    PROVE  /\ StoreTtl(q, result) \in Int /\ StoreTtl(q, result) <= Remaining(result)
           /\ q.relative => StoreTtl(q, result) <= RelativeTtl
<1> DEFINE rest == Remaining(result)
<1>1. rest \in Int
  BY RemainingBounds
<1> HIDE DEF rest
<1>2. \E b \in Int : b <= rest /\ b <= RelativeTtl
  BY <1>1, Seconds
<1>3. /\ Min({rest, RelativeTtl}) \in {rest, RelativeTtl}
      /\ \A y \in {rest, RelativeTtl} : Min({rest, RelativeTtl}) <= y
  <2> DEFINE S == {rest, RelativeTtl}
  <2>1. PICK b \in Int : b <= rest /\ b <= RelativeTtl
    BY <1>2
  <2>2. S \subseteq Int /\ S # {} /\ \A y \in S : b <= y
    BY <1>1, <2>1, Seconds
  <2> HIDE DEF S
  <2>3. Min(S) \in S /\ \A y \in S : Min(S) <= y
    BY <2>2, MinIsLeast
  <2> QED
    BY <2>3 DEF S
<1>4. StoreTtl(q, result) = IF q.relative THEN Min({rest, RelativeTtl}) ELSE rest
  BY DEF StoreTtl, rest
<1>5. CASE q.relative
  BY <1>1, <1>3, <1>4, <1>5, Seconds DEF rest
<1>6. CASE ~ q.relative
  BY <1>1, <1>4, <1>6 DEF rest
<1> QED
  BY <1>5, <1>6

-----------------------------------------------------------------------------
\* The stores hold good entries, whatever else the step does.
StoresOK(ex, ro) ==
    /\ ex \in [Keys -> Entries \cup {None}] /\ ro \in [Keys -> Entries \cup {None}]
    /\ \A k \in Keys : /\ ro[k] # None => RowOK(ro[k], k)
                       /\ ex[k] # None => ExactOK(ex[k], k)

\* One request goes on and the locks stay: the invariant is left to show of
\* what the request carries and of the stores.
LEMMA StepKeepsInv ==
    ASSUME CacheInv, NEW r \in Requests, NEW x \in Record, NEW f \in 0..MaxFaults,
           req' = [req EXCEPT ![r] = x], now' = now, faults' = f, f >= faults, lock' = lock,
           x.lockUntil = req[r].lockUntil, x.query = req[r].query \/ x.lockUntil = None,
           RequestOK(x, now, f), StoresOK(exact', rows')
    PROVE  CacheInv'
<1>1. /\ Shape
      /\ \A k \in Keys : Owed(k)
      /\ \A s \in Requests : Carries(req[s], now) /\ Turn(req[s], now, faults) /\ Kept(s)
  BY DEF CacheInv, RequestOK
<1>2. /\ req' \in [Requests -> Record] /\ req'[r] = x
      /\ \A s \in Requests : s # r => req'[s] = req[s]
  BY <1>1 DEF Shape
<1>3. faults \in Nat /\ MaxFaults \in Nat
  BY <1>1, CacheAssumption DEF Shape
<1>4. Shape'
  BY <1>1, <1>2 DEF Shape, StoresOK
<1>5. ASSUME NEW s \in Requests PROVE RequestOK(req[s], now, faults)'
  <2>1. CASE s = r
    BY <1>2, <2>1
  <2>2. CASE s # r
    <3>1. Carries(req[s], now) /\ Turn(req[s], now, f)
      BY <1>1, <1>3 DEF Turn
    <3> QED
      BY <1>2, <2>2, <3>1 DEF RequestOK
  <2> QED
    BY <2>1, <2>2
<1>6. ASSUME NEW s \in Requests PROVE Kept(s)'
  <2>1. CASE s = r
    BY <1>1, <1>2, <2>1 DEF Kept, Key
  <2>2. CASE s # r
    BY <1>1, <1>2, <2>2 DEF Kept, Key
  <2> QED
    BY <2>1, <2>2
<1>7. ASSUME NEW k \in Keys PROVE Owed(k)'
  <2>1. Owed(k)
    BY <1>1
  <2>2. CASE lock[k] = None
    BY <2>2 DEF Owed
  <2>3. CASE faults > 0
    BY <1>3, <2>1, <2>3 DEF Owed
  <2>4. CASE lock[k] # None /\ ~ (faults > 0)
    <3>1. lock[k] \in Locks
      BY <1>1, <2>4 DEF Shape
    <3> DEFINE h == lock[k].token
    <3>2. h \in Requests /\ lock[k].expires # None
      BY <3>1, NoneAssumption DEF Locks
    <3>3. req[h].lockUntil = lock[k].expires /\ req[h].query.key = k
      BY <2>1, <2>4 DEF Owed, Key
    <3>4. req'[h].lockUntil = lock[k].expires /\ req'[h].query.key = k
      BY <1>2, <3>2, <3>3
    <3> QED
      BY <2>1, <2>4, <3>4 DEF Owed, Key
  <2> QED
    BY <2>2, <2>3, <2>4
<1>8. \A k \in Keys : (rows[k] # None => RowOK(rows[k], k))' /\ (exact[k] # None => ExactOK(exact[k], k))'
  BY DEF StoresOK
<1> QED
  BY <1>4, <1>5, <1>6, <1>7, <1>8 DEF CacheInv

\* A cache operation works, or it is one of the faults.
LEMMA FaultStep ==
    ASSUME Shape, Works \/ Raises
    PROVE  faults' \in 0..MaxFaults /\ faults' >= faults /\ (Raises => faults' > 0)
  BY CacheAssumption DEF Shape, Works, Raises

\* The stores of the current state are good.
LEMMA StoresStay ==
    ASSUME CacheInv PROVE StoresOK(exact, rows)
  BY DEF CacheInv, Shape, StoresOK

-----------------------------------------------------------------------------
\* A request that begins.
LEMMA BeginStep ==
    ASSUME CacheInv, NEW r \in Requests, NEW q \in Queries, Begin(r, q)
    PROVE  CacheInv'
<1> DEFINE x == [Idle EXCEPT !.pc = "get", !.query = q]
<1>1. x \in Record /\ x.pc = "get" /\ x.query = q /\ x.lockUntil = None /\ x.deadline = None
  BY DEF Idle, Record, Pcs
<1>2. req' = [req EXCEPT ![r] = x] /\ now' = now /\ lock' = lock /\ faults' = faults
  BY DEF Begin
<1>3. req[r].pc \in {"idle", "done"} /\ exact' = exact /\ rows' = rows
  BY DEF Begin
<1> HIDE DEF x
<1>4. req[r].lockUntil = None
  BY <1>3 DEF CacheInv, RequestOK, Turn
<1>5. RequestOK(x, now, faults)
  BY <1>1 DEF RequestOK, Carries, Turn
<1>6. faults \in 0..MaxFaults /\ faults >= faults
  BY CacheAssumption DEF CacheInv, Shape
<1>7. StoresOK(exact', rows')
  BY <1>3, StoresStay
<1> QED
  BY <1>1, <1>2, <1>4, <1>5, <1>6, <1>7, StepKeepsInv

\* A lookup that is over without a hit.
LEMMA MissedStep ==
    ASSUME CacheInv, NEW r \in Requests, req[r].pc \in {"get", "search", "promote"},
           NEW f \in Nat, NEW hit, hit \in {req[r].hit, None}
    PROVE  LET x == [req[r] EXCEPT !.pc = Missed(r), !.hit = hit] IN
           /\ x \in Record /\ x.lockUntil = req[r].lockUntil /\ x.query = req[r].query
           /\ RequestOK(x, now, f)
<1> DEFINE x == [req[r] EXCEPT !.pc = Missed(r), !.hit = hit]
<1>1. req[r] \in Record /\ Carries(req[r], now) /\ Turn(req[r], now, faults)
  BY DEF CacheInv, Shape, RequestOK
<1>2. req[r].lockUntil = None /\ req[r].query \in Queries
  BY <1>1 DEF Turn, Carries
<1>3. Missed(r) \in {"acquire", "wait"} /\ (Missed(r) = "acquire" <=> req[r].deadline = None)
  BY DEF Missed
<1>4. /\ x \in Record /\ x.pc = Missed(r) /\ x.query = req[r].query
      /\ x.lockUntil = req[r].lockUntil /\ x.deadline = req[r].deadline
  BY <1>1, <1>3 DEF Record, Pcs
<1> HIDE DEF x
<1>5. RequestOK(x, now, f)
  BY <1>2, <1>3, <1>4 DEF RequestOK, Carries, Turn
<1> QED
  BY <1>4, <1>5 DEF x

\* A lookup that found a payload: a hit if it is valid, otherwise a miss.
LEMMA ResolvedStep ==
    ASSUME CacheInv, NEW r \in Requests, req[r].pc \in {"get", "promote"}, NEW f \in Nat,
           NEW p \in Payloads, NEW at \in Nat,
           p.valid => HitOK(req[r].query, [payload |-> p, at |-> at])
    PROVE  \E x \in Record :
              /\ Resolved(r, p, at) = [req EXCEPT ![r] = x]
              /\ x.lockUntil = req[r].lockUntil /\ x.query = req[r].query
              /\ RequestOK(x, now, f)
<1>1. req[r] \in Record /\ Carries(req[r], now) /\ Turn(req[r], now, faults)
  BY DEF CacheInv, Shape, RequestOK
<1>2. req[r].lockUntil = None /\ req[r].query \in Queries
  BY <1>1 DEF Turn, Carries
<1>3. CASE p.valid
  <2> DEFINE hit == [payload |-> p, at |-> at]
             x == Done(req[r].query, hit)
  <2>1. hit \in Answereds
    BY DEF Answereds
  <2> HIDE DEF hit
  <2>2. /\ x \in Record /\ x.pc = "done" /\ x.query = req[r].query /\ x.hit = hit
        /\ x.lockUntil = None /\ x.deadline = None
    BY <1>2, <2>1 DEF Done, Idle, Record, Pcs
  <2>3. Resolved(r, p, at) = [req EXCEPT ![r] = x]
    BY <1>3 DEF Resolved, hit
  <2> HIDE DEF x
  <2>4. HitOK(x.query, x.hit)
    BY <1>3, <2>2 DEF hit
  <2>5. RequestOK(x, now, f)
    BY <1>2, <2>2, <2>4 DEF RequestOK, Carries, Turn
  <2> QED
    BY <1>2, <2>2, <2>3, <2>5
<1>4. CASE ~ p.valid
  <2> DEFINE x == [req[r] EXCEPT !.pc = Missed(r), !.hit = None]
  <2>1. /\ x \in Record /\ x.lockUntil = req[r].lockUntil /\ x.query = req[r].query
        /\ RequestOK(x, now, f)
    BY MissedStep
  <2>2. Resolved(r, p, at) = [req EXCEPT ![r] = x]
    BY <1>4, <1>1 DEF Resolved, CacheInv, Shape
  <2> HIDE DEF x
  <2> QED
    BY <2>1, <2>2
<1> QED
  BY <1>3, <1>4

\* A live entry of the exact tier is a hit for the query of its key.
LEMMA ExactEntryIsHit ==
    ASSUME now \in Nat, NEW q \in Queries, NEW e, ExactOK(e, q.key), e.expires > now,
           e.payload.valid
    PROVE  HitOK(q, [payload |-> e.payload, at |-> now])
<1> DEFINE p == e.payload
<1>1. p \in Payloads /\ e.expires \in Nat /\ Within(p, e.expires, 2 * Second - 1) /\ p.stored \in Nat
  BY DEF ExactOK, Entries, Payloads
<1>2. Answered(q, p) /\ (q.relative => e.expires <= p.stored + Second * RelativeTtl)
  BY DEF ExactOK
<1>3. p.valid
  OBVIOUS
<1> HIDE DEF p
<1>4. Slack \in Int /\ now - Slack <= e.expires - (2 * Second - 1) /\ 2 * Second - 1 \in Int
  BY <1>1, Seconds DEF Slack
<1>5. Within(p, now, Slack)
  BY <1>1, <1>4, WithinLater
<1>6. q.relative => now < p.stored + Second * RelativeTtl
  BY <1>1, <1>2, Seconds
<1> DEFINE hit == [payload |-> p, at |-> now]
<1>7. hit.payload = p /\ hit.at = now
  OBVIOUS
<1> HIDE DEF hit
<1>8. HitOK(q, hit)
  BY <1>1, <1>2, <1>3, <1>5, <1>6, <1>7 DEF HitOK
<1> QED
  BY <1>8 DEF hit, p

\* Request r goes on with what it carries and its reservation.
Goes(r, f) ==
    \E x \in Record :
       /\ req' = [req EXCEPT ![r] = x]
       /\ x.lockUntil = req[r].lockUntil /\ x.query = req[r].query
       /\ RequestOK(x, now, f)

\* A request that goes on keeps the invariant.
LEMMA GoesKeepsInv ==
    ASSUME CacheInv, NEW r \in Requests, NEW f \in 0..MaxFaults, Goes(r, f), now' = now,
           faults' = f, f >= faults, lock' = lock, StoresOK(exact', rows')
    PROVE  CacheInv'
<1>1. PICK x \in Record :
         /\ req' = [req EXCEPT ![r] = x]
         /\ x.lockUntil = req[r].lockUntil /\ x.query = req[r].query
         /\ RequestOK(x, now, f)
  BY DEF Goes
<1> QED
  BY <1>1, StepKeepsInv

\* The exact lookup.
LEMMA ExactGetStep ==
    ASSUME CacheInv, NEW r \in Requests, ExactGet(r)
    PROVE  CacheInv'
<1>1. /\ Shape /\ req[r] \in Record /\ Carries(req[r], now) /\ Turn(req[r], now, faults)
      /\ \A k \in Keys : exact[k] # None => ExactOK(exact[k], k)
  BY DEF CacheInv, Shape, RequestOK
<1>2. /\ req[r].pc = "get" /\ now' = now /\ exact' = exact /\ lock' = lock /\ rows' = rows
      /\ Works \/ Raises
  BY DEF ExactGet, At
<1>3. PICK f \in 0..MaxFaults : faults' = f /\ f >= faults
  BY <1>1, <1>2, FaultStep
<1>4. f \in Nat /\ now \in Nat
  BY <1>1, <1>3, CacheAssumption DEF Shape
<1>5. req[r].query \in Queries /\ Key(r) \in Keys /\ req[r].lockUntil = None
  BY <1>1, <1>2 DEF Carries, Turn, Key, Keys
<1>6. Goes(r, f)
  <2>1. ASSUME Live(exact, Key(r)), req' = Resolved(r, exact[Key(r)].payload, now)
        PROVE  Goes(r, f)
    <3>1. ExactOK(exact[Key(r)], req[r].query.key) /\ exact[Key(r)].expires > now
      BY <1>1, <1>5, <2>1 DEF Live, Key
    <3> DEFINE p == exact[Key(r)].payload
    <3>2. p \in Payloads
      BY <3>1 DEF ExactOK, Entries
    <3>3. p.valid => HitOK(req[r].query, [payload |-> p, at |-> now])
      BY <1>4, <1>5, <3>1, ExactEntryIsHit
    <3>4. req' = Resolved(r, p, now)
      BY <2>1
    <3> HIDE DEF p
    <3> QED
      BY <1>2, <1>4, <3>2, <3>3, <3>4, ResolvedStep DEF Goes
  <2>2. ASSUME Goto(r, "search"), SemanticEligible(req[r].query) PROVE Goes(r, f)
    <3> DEFINE x == [req[r] EXCEPT !.pc = "search"]
    <3>1. req' = [req EXCEPT ![r] = x]
      BY <1>1, <2>2 DEF Goto, Shape
    <3>2. /\ x \in Record /\ x.pc = "search" /\ x.query = req[r].query
          /\ x.lockUntil = req[r].lockUntil
      BY <1>1 DEF Record, Pcs
    <3> HIDE DEF x
    <3>3. RequestOK(x, now, f)
      BY <1>5, <2>2, <3>2 DEF RequestOK, Carries, Turn
    <3> QED
      BY <3>1, <3>2, <3>3 DEF Goes
  <2>3. ASSUME Goto(r, Missed(r)) PROVE Goes(r, f)
    <3> DEFINE x == [req[r] EXCEPT !.pc = Missed(r), !.hit = req[r].hit]
    <3>1. req' = [req EXCEPT ![r] = x]
      BY <1>1, <2>3 DEF Goto, Shape, Record
    <3>2. /\ x \in Record /\ x.lockUntil = req[r].lockUntil /\ x.query = req[r].query
          /\ RequestOK(x, now, f)
      BY <1>2, <1>4, MissedStep
    <3> HIDE DEF x
    <3> QED
      BY <3>1, <3>2 DEF Goes
  <2>4. \/ Live(exact, Key(r)) /\ req' = Resolved(r, exact[Key(r)].payload, now)
        \/ Goto(r, "search") /\ SemanticEligible(req[r].query)
        \/ Goto(r, Missed(r))
    BY DEF ExactGet
  <2> QED
    BY <2>1, <2>2, <2>3, <2>4
<1>7. StoresOK(exact', rows')
  BY <1>2, StoresStay
<1> QED
  BY <1>2, <1>3, <1>6, <1>7, GoesKeepsInv

\* The semantic lookup.
LEMMA SemanticLookupStep ==
    ASSUME CacheInv, NEW r \in Requests, SemanticLookup(r)
    PROVE  CacheInv'
<1>1. /\ Shape /\ req[r] \in Record /\ Carries(req[r], now) /\ Turn(req[r], now, faults)
      /\ \A k \in Keys : rows[k] # None => RowOK(rows[k], k)
  BY DEF CacheInv, Shape, RequestOK
<1>2. /\ req[r].pc = "search" /\ now' = now /\ exact' = exact /\ lock' = lock /\ rows' = rows
      /\ Works \/ Raises
  BY DEF SemanticLookup, At
<1>3. PICK f \in 0..MaxFaults : faults' = f /\ f >= faults
  BY <1>1, <1>2, FaultStep
<1>4. f \in Nat /\ now \in Nat
  BY <1>1, <1>3, CacheAssumption DEF Shape
<1>5. req[r].query \in Queries /\ SemanticEligible(req[r].query) /\ req[r].lockUntil = None
  BY <1>1, <1>2 DEF Carries, Turn
<1>6. ASSUME NEW k \in Candidates(req[r].query),
             req' = [req EXCEPT ![r].pc = "promote",
                                ![r].hit = [payload |-> rows[k].payload, at |-> now,
                                            expires |-> rows[k].expires]]
      PROVE  Goes(r, f)
  <2> DEFINE p == rows[k].payload
             e == rows[k].expires
             hit == [payload |-> p, at |-> now, expires |-> e]
  <2>1. /\ k \in Keys /\ rows[k] # None /\ e > now /\ p.query.class = req[r].query.class
    BY DEF Candidates, Live
  <2>2. /\ p \in Payloads /\ e \in Int /\ SemanticEligible(p.query) /\ Within(p, e, Second)
    BY <1>1, <2>1 DEF RowOK, Entries
  <2>3. req' = [req EXCEPT ![r].pc = "promote", ![r].hit = hit]
    BY <1>6
  <2> HIDE DEF p, e
  <2>4. hit \in Hits /\ hit.payload = p /\ hit.at = now /\ hit.expires = e
    BY <1>4, <2>2 DEF Hits
  <2> HIDE DEF hit
  <2> DEFINE x == [req[r] EXCEPT !.pc = "promote", !.hit = hit]
  <2>5. /\ x \in Record /\ x.pc = "promote" /\ x.query = req[r].query /\ x.hit = hit
        /\ x.lockUntil = req[r].lockUntil
    BY <1>1, <2>4 DEF Record, Pcs
  <2>6. req' = [req EXCEPT ![r] = x]
    BY <1>1, <2>3 DEF Shape
  <2> HIDE DEF x
  <2>7. Answered(x.query, hit.payload)
    BY <1>5, <2>1, <2>2, <2>4, <2>5 DEF Answered
  <2>8. RequestOK(x, now, f)
    BY <1>5, <2>1, <2>2, <2>4, <2>5, <2>7 DEF RequestOK, Carries, Turn
  <2> QED
    BY <2>5, <2>6, <2>8 DEF Goes
<1>7. ASSUME Goto(r, Missed(r)) PROVE Goes(r, f)
  <2> DEFINE x == [req[r] EXCEPT !.pc = Missed(r), !.hit = req[r].hit]
  <2>1. req' = [req EXCEPT ![r] = x]
    BY <1>1, <1>7 DEF Goto, Shape, Record
  <2>2. /\ x \in Record /\ x.lockUntil = req[r].lockUntil /\ x.query = req[r].query
        /\ RequestOK(x, now, f)
    BY <1>2, <1>4, MissedStep
  <2> HIDE DEF x
  <2> QED
    BY <2>1, <2>2 DEF Goes
<1>8. Goes(r, f)
  BY <1>6, <1>7 DEF SemanticLookup
<1>9. StoresOK(exact', rows')
  BY <1>2, StoresStay
<1> QED
  BY <1>2, <1>3, <1>8, <1>9, GoesKeepsInv

\* The copy of a semantic hit lives less than a second longer than its row.
LEMMA PromotedOK ==
    ASSUME now \in Nat, NEW q \in Queries, SemanticEligible(q), NEW hit \in Hits,
           hit.expires > now, Answered(q, hit.payload), Within(hit.payload, hit.expires, Second)
    PROVE  ExactOK(Promoted(hit), q.key)
<1> DEFINE p == hit.payload
           t == hit.expires - now
           c == CeilSeconds(t)
           e == now + Second * c
<1>1. p \in Payloads /\ hit.expires \in Int /\ t \in Int /\ t > 0
  BY DEF Hits
<1>2. c \in Int /\ Second * c <= t + Second - 1 /\ Second * c >= t /\ Second * c \in Int
  <2> DEFINE d == t + Second - 1
  <2>1. d \in Int /\ Second \in Nat \ {0} /\ c = d \div Second
    BY <1>1, CacheAssumption DEF CeilSeconds
  <2>2. d = t + Second - 1
    OBVIOUS
  <2> HIDE DEF d, t, c
  <2>3. /\ d \div Second \in Int /\ Second * (d \div Second) <= d
        /\ d < Second * (d \div Second) + Second
    BY <2>1, DivBounds
  <2>4. c \in Int /\ Second * c <= d /\ d < Second * c + Second /\ Second * c \in Int
    BY <2>1, <2>3, Seconds
  <2> QED
    BY <1>1, <2>1, <2>2, <2>4
<1>3. Promoted(hit) = [payload |-> p, expires |-> e]
  BY DEF Promoted, Entry
<1>4. t = hit.expires - now /\ e = now + Second * c
  OBVIOUS
<1> DEFINE b == Second * c
<1>5. b \in Int /\ b <= t + Second - 1 /\ b >= t /\ e = now + b
  BY <1>2
<1> HIDE DEF t, c, e, b
<1>6. e \in Nat /\ e - (2 * Second - 1) <= hit.expires - Second
  BY <1>1, <1>4, <1>5, Seconds
<1>7. Within(p, e, 2 * Second - 1)
  <2>1. 2 * Second - 1 \in Int /\ Second \in Int /\ e \in Int
    BY <1>6, Seconds
  <2>2. Within(p, hit.expires, Second)
    OBVIOUS
  <2> HIDE DEF p
  <2> QED
    BY <1>1, <1>6, <2>1, <2>2, WithinLater
<1>8. ~ q.relative /\ \A j \in Queries : j.key = q.key => j = q
  BY KeysAssumption DEF SemanticEligible
<1> DEFINE copy == [payload |-> p, expires |-> e]
<1>9. copy \in Entries /\ copy.payload = p /\ copy.expires = e
  BY <1>1, <1>6 DEF Entries
<1>10. Answered(q, p)
  OBVIOUS
<1> HIDE DEF copy, p
<1>11. ExactOK(copy, q.key)
  BY <1>6, <1>7, <1>8, <1>9, <1>10 DEF ExactOK
<1> QED
  BY <1>3, <1>11 DEF copy

\* The copy of a semantic hit, and its return.
LEMMA PromoteStep ==
    ASSUME CacheInv, NEW r \in Requests, Promote(r)
    PROVE  CacheInv'
<1>1. /\ Shape /\ req[r] \in Record /\ Carries(req[r], now) /\ Turn(req[r], now, faults)
      /\ StoresOK(exact, rows)
  BY StoresStay DEF CacheInv, Shape, RequestOK
<1> DEFINE hit == req[r].hit
           q == req[r].query
<1>2. /\ req[r].pc = "promote" /\ now' = now /\ lock' = lock /\ rows' = rows
      /\ Works \/ Raises
      /\ \/ hit.expires > now /\ exact' = [exact EXCEPT ![Key(r)] = Promoted(hit)]
         \/ exact' = exact
      /\ req' = Resolved(r, hit.payload, hit.at)
  BY DEF Promote, At
<1>3. PICK f \in 0..MaxFaults : faults' = f /\ f >= faults
  BY <1>1, <1>2, FaultStep
<1>4. f \in Nat /\ now \in Nat
  BY <1>1, <1>3, CacheAssumption DEF Shape
<1>5. /\ q \in Queries /\ SemanticEligible(q) /\ hit \in Hits /\ hit.at < hit.expires
      /\ Answered(q, hit.payload) /\ Within(hit.payload, hit.expires, Second)
      /\ Key(r) = q.key /\ q.key \in Keys
  BY <1>1, <1>2 DEF Carries, Key, Keys
<1>6. /\ hit.payload \in Payloads /\ hit.at \in Nat /\ hit.expires \in Int
  BY <1>5 DEF Hits
<1> HIDE DEF hit
<1>7. StoresOK(exact', rows')
  <2>1. CASE exact' = exact
    BY <1>1, <1>2, <2>1
  <2>2. CASE hit.expires > now /\ exact' = [exact EXCEPT ![Key(r)] = Promoted(hit)]
    <3> DEFINE e == Promoted(hit)
    <3>1. ExactOK(e, q.key)
      BY <1>4, <1>5, <2>2, PromotedOK
    <3>2. e \in Entries /\ exact' = [exact EXCEPT ![q.key] = e]
      BY <1>5, <2>2, <3>1 DEF ExactOK
    <3> HIDE DEF e, q
    <3> QED
      BY <1>1, <1>2, <1>5, <3>1, <3>2 DEF StoresOK
  <2> QED
    BY <1>2, <2>1, <2>2
<1>8. Within(hit.payload, hit.at, Slack)
  <2>1. Slack \in Int /\ hit.at - Slack <= hit.expires - Second /\ Second \in Int /\ hit.at \in Int
    BY <1>5, <1>6, Seconds DEF Slack
  <2> QED
    BY <1>5, <1>6, <2>1, WithinLater
<1>9. ~ q.relative
  BY <1>5 DEF SemanticEligible
<1> DEFINE h == [payload |-> hit.payload, at |-> hit.at]
<1>10. h.payload = hit.payload /\ h.at = hit.at
  OBVIOUS
<1> HIDE DEF h
<1>11. hit.payload.valid => HitOK(q, h)
  BY <1>5, <1>6, <1>8, <1>9, <1>10 DEF HitOK
<1>12. \E x \in Record :
         /\ Resolved(r, hit.payload, hit.at) = [req EXCEPT ![r] = x]
         /\ x.lockUntil = req[r].lockUntil /\ x.query = req[r].query
         /\ RequestOK(x, now, f)
  <2> DEFINE p == hit.payload
             at == hit.at
  <2>1. p \in Payloads /\ at \in Nat /\ (p.valid => HitOK(req[r].query, [payload |-> p, at |-> at]))
    BY <1>6, <1>11 DEF h
  <2>2. \E x \in Record :
           /\ Resolved(r, p, at) = [req EXCEPT ![r] = x]
           /\ x.lockUntil = req[r].lockUntil /\ x.query = req[r].query
           /\ RequestOK(x, now, f)
    <3> HIDE DEF p, at
    <3> QED
      BY <1>2, <1>4, <2>1, ResolvedStep
  <2> QED
    BY <2>2
<1>13. Goes(r, f)
  BY <1>2, <1>12 DEF Goes
<1> QED
  BY <1>2, <1>3, <1>7, <1>13, GoesKeepsInv

-----------------------------------------------------------------------------
\* A waiter polls again or gives up at its deadline.
LEMMA WaitForFillStep ==
    ASSUME CacheInv, NEW r \in Requests, WaitForFill(r)
    PROVE  CacheInv'
<1>1. /\ Shape /\ req[r] \in Record /\ Carries(req[r], now) /\ Turn(req[r], now, faults)
  BY DEF CacheInv, Shape, RequestOK
<1> DEFINE to == IF now < req[r].deadline THEN "get" ELSE "origin"
           x == [req[r] EXCEPT !.pc = to]
<1>2. /\ req[r].pc = "wait" /\ Goto(r, to) /\ faults' = faults
      /\ now' = now /\ exact' = exact /\ lock' = lock /\ rows' = rows
  BY DEF WaitForFill, At
<1>3. req[r].deadline \in Nat /\ req[r].lockUntil = None /\ now \in Nat
  BY <1>1, <1>2, CacheAssumption DEF Turn, Record, Shape
<1>4. to \in {"get", "origin"} /\ (to = "origin" => now >= req[r].deadline)
  BY <1>3
<1> HIDE DEF to
<1>5. /\ x \in Record /\ x.pc = to /\ x.query = req[r].query
      /\ x.lockUntil = None /\ x.deadline = req[r].deadline
  BY <1>1, <1>3, <1>4 DEF Record, Pcs
<1>6. req' = [req EXCEPT ![r] = x]
  BY <1>1, <1>2 DEF Goto, Shape
<1> HIDE DEF x
<1>7. RequestOK(x, now, faults)
  BY <1>1, <1>2, <1>3, <1>4, <1>5, NoneAssumption DEF RequestOK, Carries, Turn
<1>8. Goes(r, faults)
  BY <1>3, <1>5, <1>6, <1>7 DEF Goes
<1>9. faults \in 0..MaxFaults /\ faults >= faults
  BY <1>1, CacheAssumption DEF Shape
<1>10. StoresOK(exact', rows')
  BY <1>2, StoresStay
<1> QED
  BY <1>2, <1>8, <1>9, <1>10, GoesKeepsInv

\* A request that ends goes to return its reservation if it has one.
LEMMA LeaveGoes ==
    ASSUME CacheInv, NEW r \in Requests, Leave(r), NEW f \in Nat,
           req[r].pc \in {"origin", "answer", "put"}
    PROVE  Goes(r, f)
<1>1. /\ Shape /\ req[r] \in Record /\ Carries(req[r], now) /\ Turn(req[r], now, faults)
      /\ req[r].query \in Queries
  BY DEF CacheInv, Shape, RequestOK, Carries
<1>2. CASE req[r].lockUntil # None
  <2> DEFINE x == [req[r] EXCEPT !.pc = "release", !.result = None]
  <2>1. req' = [req EXCEPT ![r] = x]
    BY <1>1, <1>2 DEF Leave, Shape
  <2>2. /\ x \in Record /\ x.pc = "release" /\ x.query = req[r].query
        /\ x.lockUntil = req[r].lockUntil /\ x.deadline = req[r].deadline
    BY <1>1 DEF Record, Pcs
  <2> HIDE DEF x
  <2>3. RequestOK(x, now, f)
    BY <1>1, <1>2, <2>2 DEF RequestOK, Carries, Turn
  <2> QED
    BY <2>1, <2>2, <2>3 DEF Goes
<1>3. CASE req[r].lockUntil = None
  <2> DEFINE x == Done(req[r].query, None)
  <2>1. req' = [req EXCEPT ![r] = x]
    BY <1>1, <1>3 DEF Leave, Shape
  <2>2. /\ x \in Record /\ x.pc = "done" /\ x.query = req[r].query /\ x.hit = None
        /\ x.lockUntil = None /\ x.deadline = None
    BY <1>1 DEF Done, Idle, Record, Pcs
  <2> HIDE DEF x
  <2>3. RequestOK(x, now, f)
    BY <1>1, <2>2 DEF RequestOK, Carries, Turn
  <2> QED
    BY <1>3, <2>1, <2>2, <2>3 DEF Goes
<1> QED
  BY <1>2, <1>3

\* The graph's tools read their sources.
LEMMA OriginReadsStep ==
    ASSUME CacheInv, NEW r \in Requests, NEW artifacts \in Answers, OriginReads(r, artifacts)
    PROVE  CacheInv'
<1>1. /\ Shape /\ req[r] \in Record /\ Carries(req[r], now) /\ Turn(req[r], now, faults)
  BY DEF CacheInv, Shape, RequestOK
<1> DEFINE result == [artifacts |-> artifacts, read |-> now]
           x == [req[r] EXCEPT !.pc = "answer", !.result = result]
<1>2. /\ req[r].pc = "origin" /\ faults' = faults
      /\ now' = now /\ exact' = exact /\ lock' = lock /\ rows' = rows
      /\ req' = [req EXCEPT ![r].pc = "answer", ![r].result = result]
  BY DEF OriginReads, At
<1>3. now \in Nat /\ faults \in 0..MaxFaults /\ faults >= faults
  BY <1>1, CacheAssumption DEF Shape
<1>4. result \in Results /\ result.read = now
  BY <1>3, CacheAssumption DEF Results
<1> HIDE DEF result
<1>5. /\ x \in Record /\ x.pc = "answer" /\ x.query = req[r].query /\ x.result = result
      /\ x.lockUntil = req[r].lockUntil /\ x.deadline = req[r].deadline
  BY <1>1, <1>4 DEF Record, Pcs
<1>6. req' = [req EXCEPT ![r] = x]
  BY <1>1, <1>2 DEF Shape
<1> HIDE DEF x
<1>7. RequestOK(x, now, faults)
  BY <1>1, <1>2, <1>3, <1>4, <1>5 DEF RequestOK, Carries, Turn
<1>8. Goes(r, faults)
  BY <1>5, <1>6, <1>7 DEF Goes
<1>9. StoresOK(exact', rows')
  BY <1>2, StoresStay
<1> QED
  BY <1>2, <1>3, <1>8, <1>9, GoesKeepsInv

\* An execution that ends without a result to store.
LEMMA OriginEndsStep ==
    ASSUME CacheInv, NEW r \in Requests, req[r].pc \in {"origin", "answer"}, Leave(r),
           UNCHANGED <<now, exact, lock, rows, faults, asked>>
    PROVE  CacheInv'
<1>1. faults \in 0..MaxFaults /\ faults >= faults /\ faults \in Nat
  BY CacheAssumption DEF CacheInv, Shape
<1>2. Goes(r, faults)
  BY <1>1, LeaveGoes
<1>3. StoresOK(exact', rows')
  BY StoresStay
<1> QED
  BY <1>1, <1>2, <1>3, GoesKeepsInv

\* An entry to store is good for both tiers.
LEMMA StoredOK ==
    ASSUME now \in Nat, NEW q \in Queries, NEW result \in Results, result.read <= now,
           StoreTtl(q, result) > 0
    PROVE  LET e == Entry(Payload(q, result.artifacts, result.read),
                          now + Second * StoreTtl(q, result))
           IN  ExactOK(e, q.key) /\ (SemanticEligible(q) => RowOK(e, q.key))
<1> DEFINE p == Payload(q, result.artifacts, result.read)
           ttl == StoreTtl(q, result)
           t == now + Second * ttl
           e == Entry(p, t)
<1>1. result.artifacts \subseteq DOMAIN Retention /\ result.read \in Nat
  BY DEF Results
<1>2. /\ ttl \in Int /\ ttl <= Remaining(result) /\ (q.relative => ttl <= RelativeTtl)
  BY <1>1, StoreTtlBounds
<1>3. /\ p \in Payloads /\ p.query = q /\ p.artifacts = result.artifacts
      /\ p.read = result.read /\ p.stored = now
  BY <1>1 DEF Payload, Payloads
<1>4. ttl > 0
  OBVIOUS
<1> HIDE DEF p, ttl
<1>5. Remaining(p) = Remaining(result)
  BY <1>3 DEF Remaining
<1>6. Within(p, t, Second)
  BY <1>1, <1>2, <1>3, <1>5, EntryWithin
<1>7. t \in Nat /\ Second * ttl \in Int /\ (q.relative => t <= p.stored + Second * RelativeTtl)
  <2>1. Second * 0 <= Second * ttl /\ Second * ttl \in Int
    BY <1>2, <1>4, Seconds, TimesMonotone
  <2>2. q.relative => Second * ttl <= Second * RelativeTtl
    BY <1>2, Seconds, TimesMonotone
  <2>3. Second * RelativeTtl \in Int
    BY Seconds
  <2> QED
    BY <1>3, <2>1, <2>2, <2>3, Seconds
<1> HIDE DEF t
<1>8. Within(p, t, 2 * Second - 1)
  <2>1. /\ t - (2 * Second - 1) <= t - Second /\ t \in Int
        /\ Second \in Int /\ 2 * Second - 1 \in Int
    BY <1>7, Seconds
  <2> QED
    BY <1>3, <1>6, <2>1, WithinLater
<1>9. e \in Entries /\ e.payload = p /\ e.expires = t
  BY <1>3, <1>7 DEF Entry, Entries
<1>10. Answered(q, p) /\ \A j \in Queries : j.key = q.key => j = q
  BY <1>3, KeysAssumption DEF Answered
<1> HIDE DEF e
<1>11. ExactOK(e, q.key)
  BY <1>7, <1>8, <1>9, <1>10 DEF ExactOK
<1>12. SemanticEligible(q) => RowOK(e, q.key)
  BY <1>3, <1>6, <1>9 DEF RowOK
<1> QED
  BY <1>11, <1>12 DEF e, p, t, ttl

\* A complete result is stored in the exact tier.
LEMMA StoreStep ==
    ASSUME CacheInv, NEW r \in Requests, Store(r)
    PROVE  CacheInv'
<1>1. /\ Shape /\ req[r] \in Record /\ Carries(req[r], now) /\ Turn(req[r], now, faults)
      /\ StoresOK(exact, rows)
  BY StoresStay DEF CacheInv, Shape, RequestOK
<1> DEFINE q == req[r].query
           result == req[r].result
           e == Entry(Payload(q, result.artifacts, result.read),
                      now + Second * StoreTtl(q, result))
<1>2. /\ req[r].pc = "answer" /\ now' = now /\ lock' = lock /\ rows' = rows
      /\ (Works \/ Raises) /\ StoreTtl(q, result) > 0
      /\ exact' = [exact EXCEPT ![q.key] = e] \/ exact' = exact
      /\ \/ SemanticEligible(q) /\ req' = [req EXCEPT ![r].pc = "put", ![r].result = e]
         \/ Leave(r)
  BY DEF Store, At
<1>3. PICK f \in 0..MaxFaults : faults' = f /\ f >= faults
  BY <1>1, <1>2, FaultStep
<1>4. f \in Nat /\ now \in Nat
  BY <1>1, <1>3, CacheAssumption DEF Shape
<1>5. /\ q \in Queries /\ q.key \in Keys /\ result \in Results /\ result.read <= now
  BY <1>1, <1>2 DEF Carries, Keys
<1>6. ExactOK(e, q.key) /\ (SemanticEligible(q) => RowOK(e, q.key))
  <2> HIDE DEF q, result
  <2> QED
    BY <1>2, <1>4, <1>5, StoredOK
<1>7. e \in Entries
  BY <1>6 DEF ExactOK
<1> HIDE DEF e, result
<1>8. StoresOK(exact', rows')
  <2> HIDE DEF q
  <2>1. CASE exact' = exact
    BY <1>1, <1>2, <2>1
  <2>2. CASE exact' = [exact EXCEPT ![q.key] = e]
    BY <1>1, <1>2, <1>5, <1>6, <1>7, <2>2 DEF StoresOK
  <2> QED
    BY <1>2, <2>1, <2>2
<1>9. Goes(r, f)
  <2>1. CASE Leave(r)
    BY <1>2, <1>4, <2>1, LeaveGoes
  <2>2. CASE SemanticEligible(q) /\ req' = [req EXCEPT ![r].pc = "put", ![r].result = e]
    <3> DEFINE x == [req[r] EXCEPT !.pc = "put", !.result = e]
    <3>1. req' = [req EXCEPT ![r] = x]
      BY <1>1, <2>2 DEF Shape
    <3>2. /\ x \in Record /\ x.pc = "put" /\ x.query = q /\ x.result = e
          /\ x.lockUntil = req[r].lockUntil /\ x.deadline = req[r].deadline
      BY <1>1, <1>7 DEF Record, Pcs
    <3> HIDE DEF x
    <3>3. RequestOK(x, now, f)
      BY <1>1, <1>2, <1>5, <1>6, <2>2, <3>2 DEF RequestOK, Carries, Turn
    <3> QED
      BY <3>1, <3>2, <3>3 DEF Goes
  <2> QED
    BY <1>2, <2>1, <2>2
<1> QED
  BY <1>2, <1>3, <1>8, <1>9, GoesKeepsInv

\* The stored entry becomes the semantic row.
LEMMA SemanticPutStep ==
    ASSUME CacheInv, NEW r \in Requests, SemanticPut(r)
    PROVE  CacheInv'
<1>1. /\ Shape /\ req[r] \in Record /\ Carries(req[r], now) /\ StoresOK(exact, rows)
  BY StoresStay DEF CacheInv, Shape, RequestOK
<1> DEFINE k == Key(r)
           e == req[r].result
<1>2. /\ req[r].pc = "put" /\ now' = now /\ lock' = lock /\ exact' = exact
      /\ (Works \/ Raises) /\ Leave(r)
      /\ rows' = [rows EXCEPT ![k] = e] \/ rows' = rows
  BY DEF SemanticPut, At
<1>3. PICK f \in 0..MaxFaults : faults' = f /\ f >= faults
  BY <1>1, <1>2, FaultStep
<1>4. f \in Nat
  BY <1>1, <1>3, CacheAssumption DEF Shape
<1>5. k \in Keys /\ RowOK(e, k) /\ e \in Entries
  BY <1>1, <1>2 DEF Carries, Key, Keys, RowOK
<1> HIDE DEF k, e
<1>6. StoresOK(exact', rows')
  <2>1. CASE rows' = rows
    BY <1>1, <1>2, <2>1
  <2>2. CASE rows' = [rows EXCEPT ![k] = e]
    BY <1>1, <1>2, <1>5, <2>2 DEF StoresOK
  <2> QED
    BY <1>2, <2>1, <2>2
<1>7. Goes(r, f)
  BY <1>2, <1>4, LeaveGoes
<1> QED
  BY <1>2, <1>3, <1>6, <1>7, GoesKeepsInv

-----------------------------------------------------------------------------
\* The locks and the requests after a request changed both.
LocksOK ==
    /\ lock' \in [Keys -> Locks \cup {None}]
    /\ \A k \in Keys : Owed(k)'
    /\ \A r \in Requests : Kept(r)'

\* One request goes on and a lock changes.
LEMMA LockStepKeepsInv ==
    ASSUME CacheInv, NEW r \in Requests, NEW x \in Record, NEW f \in 0..MaxFaults,
           req' = [req EXCEPT ![r] = x], now' = now, faults' = f, f >= faults,
           exact' = exact, rows' = rows, RequestOK(x, now, f), LocksOK
    PROVE  CacheInv'
<1>1. /\ Shape /\ StoresOK(exact, rows)
      /\ \A s \in Requests : Carries(req[s], now) /\ Turn(req[s], now, faults)
  BY StoresStay DEF CacheInv, RequestOK
<1>2. /\ req' \in [Requests -> Record] /\ req'[r] = x
      /\ \A s \in Requests : s # r => req'[s] = req[s]
  BY <1>1 DEF Shape
<1>3. faults \in Nat /\ MaxFaults \in Nat
  BY <1>1, CacheAssumption DEF Shape
<1>4. Shape'
  BY <1>1, <1>2 DEF Shape, LocksOK
<1>5. ASSUME NEW s \in Requests PROVE RequestOK(req[s], now, faults)'
  <2>1. CASE s = r
    BY <1>2, <2>1
  <2>2. CASE s # r
    <3>1. Carries(req[s], now) /\ Turn(req[s], now, f)
      BY <1>1, <1>3 DEF Turn
    <3> QED
      BY <1>2, <2>2, <3>1 DEF RequestOK
  <2> QED
    BY <2>1, <2>2
<1>6. \A k \in Keys : (rows[k] # None => RowOK(rows[k], k))' /\ (exact[k] # None => ExactOK(exact[k], k))'
  BY <1>1 DEF StoresOK
<1> QED
  BY <1>4, <1>5, <1>6 DEF CacheInv, LocksOK

\* A lock that nobody holds is set for a request that held none.
LEMMA LockIsSet ==
    ASSUME CacheInv, NEW r \in Requests, req[r].lockUntil = None, Key(r) \in Keys,
           NEW x \in Record, req' = [req EXCEPT ![r] = x], x.query = req[r].query,
           now' = now, NEW f \in Nat, faults' = f, f >= faults,
           ~ Live(lock, Key(r)), NEW u \in Nat, u > now,
           lock' = [lock EXCEPT ![Key(r)] = [token |-> r, expires |-> u]],
           x.lockUntil = u \/ (x.lockUntil = None /\ f > 0)
    PROVE  LocksOK
<1>1. /\ Shape /\ faults \in Nat /\ now \in Nat
      /\ \A k \in Keys : Owed(k)
      /\ \A s \in Requests : Kept(s)
  BY CacheAssumption DEF CacheInv, Shape
<1>2. /\ req' \in [Requests -> Record] /\ req'[r] = x
      /\ \A s \in Requests : s # r => req'[s] = req[s]
  BY <1>1 DEF Shape
<1> DEFINE new == [token |-> r, expires |-> u]
           j == Key(r)
<1>3. new \in Locks /\ new.token = r /\ new.expires = u
  BY DEF Locks
<1>4. lock' = [lock EXCEPT ![j] = new] /\ j \in Keys /\ j = req[r].query.key /\ ~ Live(lock, j)
  BY DEF Key
<1> HIDE DEF new, j
<1>5. /\ lock' \in [Keys -> Locks \cup {None}] /\ lock'[j] = new
      /\ \A k \in Keys : k # j => lock'[k] = lock[k]
  BY <1>1, <1>3, <1>4 DEF Shape
<1>6. ASSUME NEW k \in Keys PROVE Owed(k)'
  <2>1. CASE k = j
    <3>1. (req'[r].lockUntil = u /\ req'[r].query.key = j) \/ faults' > 0
      BY <1>2, <1>4
    <3> QED
      BY <1>3, <1>5, <2>1, <3>1 DEF Owed, Key
  <2>2. CASE k # j /\ lock[k] = None
    BY <1>5, <2>2 DEF Owed
  <2>3. CASE k # j /\ lock[k] # None
    <3> DEFINE h == lock[k].token
    <3>1. h \in Requests /\ lock[k].expires # None
      BY <1>1, <2>3, NoneAssumption DEF Shape, Locks
    <3>2. lock[k].expires > now /\ ((req[h].lockUntil = lock[k].expires /\ req[h].query.key = k) \/ faults > 0)
      BY <1>1, <2>3 DEF Owed, Key
    <3>3. (req'[h].lockUntil = lock[k].expires /\ req'[h].query.key = k) \/ faults' > 0
      BY <1>1, <1>2, <3>1, <3>2
    <3> QED
      BY <1>5, <2>3, <3>2, <3>3 DEF Owed, Key
  <2> QED
    BY <2>1, <2>2, <2>3
<1>7. ASSUME NEW s \in Requests PROVE Kept(s)'
  <2>1. CASE s = r
    BY <1>2, <1>4, <1>5, <2>1 DEF Kept, Key, new
  <2>2. CASE s # r /\ req[s].query.key # j
    <3>1. req[s].lockUntil # None => req[s].query.key \in Keys
      BY <1>1 DEF CacheInv, RequestOK, Carries, Turn, Keys
    <3> QED
      BY <1>1, <1>2, <1>5, <2>2, <3>1 DEF Kept, Key
  <2>3. CASE s # r /\ req[s].query.key = j
    <3>1. ~ (req[s].lockUntil # None /\ now < req[s].lockUntil)
      <4> SUFFICES ASSUME req[s].lockUntil # None /\ now < req[s].lockUntil PROVE FALSE
        OBVIOUS
      <4> DEFINE held == [token |-> s, expires |-> req[s].lockUntil]
      <4>1. lock[j] = held /\ held.expires = req[s].lockUntil
        BY <1>1, <2>3 DEF Kept, Key
      <4>2. req[s].lockUntil \in Nat
        BY <1>1 DEF Shape, Record
      <4>3. held \in Locks
        BY <4>2 DEF Locks
      <4> HIDE DEF held
      <4> QED
        BY <1>4, <4>1, <4>3, NoneAssumption DEF Live
    <3> QED
      BY <1>2, <2>3, <3>1 DEF Kept
  <2> QED
    BY <2>1, <2>2, <2>3
<1> QED
  BY <1>5, <1>6, <1>7 DEF LocksOK

\* The reservation of a fill: the lock is free, held or hidden by an error.
LEMMA AcquireFillStep ==
    ASSUME CacheInv, NEW r \in Requests, AcquireFill(r)
    PROVE  CacheInv'
<1>1. /\ Shape /\ req[r] \in Record /\ Carries(req[r], now) /\ Turn(req[r], now, faults)
  BY DEF CacheInv, Shape, RequestOK
<1> DEFINE u == now + Second * FillLock
           d == now + Second * FillWait
           L == [token |-> r, expires |-> u]
<1>2. /\ req[r].pc = "acquire" /\ now' = now /\ exact' = exact /\ rows' = rows
      /\ Works \/ Raises
  BY DEF AcquireFill, At
<1>3. PICK f \in 0..MaxFaults : faults' = f /\ f >= faults /\ (Raises => f > 0)
  BY <1>1, <1>2, FaultStep
<1>4. f \in Nat /\ now \in Nat
  BY <1>1, <1>3, CacheAssumption DEF Shape
<1>5. /\ req[r].query \in Queries /\ Key(r) \in Keys
      /\ req[r].lockUntil = None /\ req[r].deadline = None
  BY <1>1, <1>2 DEF Carries, Turn, Key, Keys
<1>6. u \in Nat /\ u > now /\ d \in Nat
  <2>1. Second * 1 <= Second * FillLock /\ Second * 0 <= Second * FillWait
    BY Seconds, TimesMonotone
  <2>2. Second * FillLock \in Int /\ Second * FillWait \in Int
    BY Seconds
  <2> QED
    BY <1>4, <2>1, <2>2, Seconds
<1>7. u # None /\ d # None
  BY <1>6, NoneAssumption
<1>8. \/ /\ ~ Live(lock, Key(r)) /\ lock' = [lock EXCEPT ![Key(r)] = L]
         /\ req' = [req EXCEPT ![r].pc = "origin", ![r].lockUntil = u]
      \/ /\ lock' = lock
         /\ req' = [req EXCEPT ![r].pc = "wait", ![r].deadline = d]
      \/ /\ f > 0 /\ Goto(r, "origin")
         /\ \/ lock' = lock
            \/ ~ Live(lock, Key(r)) /\ lock' = [lock EXCEPT ![Key(r)] = L]
  BY <1>3 DEF AcquireFill, Acquirable
<1> HIDE DEF u, d
<1>9. StoresOK(exact', rows')
  BY <1>2, StoresStay
<1> DEFINE own == [req[r] EXCEPT !.pc = "origin", !.lockUntil = u]
           blind == [req[r] EXCEPT !.pc = "origin"]
           later == [req[r] EXCEPT !.pc = "wait", !.deadline = d]
<1>10. CASE /\ ~ Live(lock, Key(r)) /\ lock' = [lock EXCEPT ![Key(r)] = L]
            /\ req' = [req EXCEPT ![r].pc = "origin", ![r].lockUntil = u]
  <2>1. /\ own \in Record /\ own.pc = "origin" /\ own.query = req[r].query
        /\ own.lockUntil = u /\ own.deadline = None
    BY <1>1, <1>5, <1>6 DEF Record, Pcs
  <2>2. req' = [req EXCEPT ![r] = own]
    BY <1>1, <1>10 DEF Shape
  <2> HIDE DEF own
  <2>3. RequestOK(own, now, f)
    BY <1>5, <1>7, <2>1 DEF RequestOK, Carries, Turn
  <2>4. LocksOK
    BY <1>2, <1>3, <1>4, <1>5, <1>6, <1>10, <2>1, <2>2, LockIsSet
  <2> QED
    BY <1>2, <1>3, <2>1, <2>2, <2>3, <2>4, LockStepKeepsInv
<1>11. CASE /\ lock' = lock
            /\ req' = [req EXCEPT ![r].pc = "wait", ![r].deadline = d]
  <2>1. /\ later \in Record /\ later.pc = "wait" /\ later.query = req[r].query
        /\ later.lockUntil = None /\ later.deadline = d
    BY <1>1, <1>5, <1>6 DEF Record, Pcs
  <2>2. req' = [req EXCEPT ![r] = later]
    BY <1>1, <1>11 DEF Shape
  <2> HIDE DEF later
  <2>3. RequestOK(later, now, f)
    BY <1>5, <1>7, <2>1 DEF RequestOK, Carries, Turn
  <2>4. Goes(r, f)
    BY <1>5, <2>1, <2>2, <2>3 DEF Goes
  <2> QED
    BY <1>2, <1>3, <1>9, <1>11, <2>4, GoesKeepsInv
<1>12. CASE /\ f > 0 /\ Goto(r, "origin")
            /\ \/ lock' = lock
               \/ ~ Live(lock, Key(r)) /\ lock' = [lock EXCEPT ![Key(r)] = L]
  <2>1. /\ blind \in Record /\ blind.pc = "origin" /\ blind.query = req[r].query
        /\ blind.lockUntil = None /\ blind.deadline = None
    BY <1>1, <1>5 DEF Record, Pcs
  <2>2. req' = [req EXCEPT ![r] = blind]
    BY <1>1, <1>12 DEF Shape, Goto
  <2> HIDE DEF blind
  <2>3. RequestOK(blind, now, f)
    BY <1>5, <1>12, <2>1 DEF RequestOK, Carries, Turn
  <2>4. CASE lock' = lock
    <3>1. Goes(r, f)
      BY <1>5, <2>1, <2>2, <2>3 DEF Goes
    <3> QED
      BY <1>2, <1>3, <1>9, <2>4, <3>1, GoesKeepsInv
  <2>5. CASE ~ Live(lock, Key(r)) /\ lock' = [lock EXCEPT ![Key(r)] = L]
    <3>1. LocksOK
      BY <1>2, <1>3, <1>4, <1>5, <1>6, <1>12, <2>1, <2>2, <2>5, LockIsSet
    <3> QED
      BY <1>2, <1>3, <2>1, <2>2, <2>3, <3>1, LockStepKeepsInv
  <2> QED
    BY <1>12, <2>4, <2>5
<1> QED
  BY <1>8, <1>10, <1>11, <1>12

\* A request returns its reservation, if it is still its own.
LEMMA ReleaseFillStep ==
    ASSUME CacheInv, NEW r \in Requests, ReleaseFill(r)
    PROVE  CacheInv'
<1>1. /\ Shape /\ req[r] \in Record /\ Carries(req[r], now) /\ Turn(req[r], now, faults)
      /\ \A k \in Keys : Owed(k)
      /\ \A s \in Requests : Kept(s)
  BY DEF CacheInv, Shape, RequestOK
<1> DEFINE x == Done(req[r].query, None)
           j == Key(r)
<1>2. /\ req[r].pc = "release" /\ now' = now /\ exact' = exact /\ rows' = rows
      /\ (Works \/ Raises) /\ req' = [req EXCEPT ![r] = x]
      /\ \/ lock' = IF Owns(r) THEN [lock EXCEPT ![j] = None] ELSE lock
         \/ Raises /\ lock' = lock
  <2>1. Done(req[r].query, None) = x
    OBVIOUS
  <2>2. req' = [req EXCEPT ![r] = x]
    BY <1>1 DEF ReleaseFill, Shape
  <2> QED
    BY <2>2 DEF ReleaseFill, At
<1>3. PICK f \in 0..MaxFaults : faults' = f /\ f >= faults /\ (Raises => f > 0)
  BY <1>1, <1>2, FaultStep
<1>4. f \in Nat /\ now \in Nat /\ faults \in Nat
  BY <1>1, <1>3, CacheAssumption DEF Shape
<1>5. req[r].query \in Queries /\ j \in Keys /\ j = req[r].query.key
  BY <1>1, <1>2 DEF Carries, Key, Keys
<1>6. /\ x \in Record /\ x.pc = "done" /\ x.query = req[r].query /\ x.hit = None
      /\ x.lockUntil = None /\ x.deadline = None
  BY <1>5 DEF Done, Idle, Record, Pcs
<1> HIDE DEF x, j
<1>7. RequestOK(x, now, f)
  BY <1>5, <1>6 DEF RequestOK, Carries, Turn
<1>8. /\ req' \in [Requests -> Record] /\ req'[r] = x
      /\ \A s \in Requests : s # r => req'[s] = req[s]
  BY <1>1, <1>2, <1>6 DEF Shape
<1>9. /\ lock' \in [Keys -> Locks \cup {None}]
      /\ \A k \in Keys : lock'[k] # None => lock'[k] = lock[k]
      /\ \A k \in Keys : lock'[k] # lock[k] => k = j /\ Owns(r)
      /\ f = 0 /\ Owns(r) => lock'[j] = None
  <2>1. CASE lock' = lock /\ ~ (f = 0 /\ Owns(r))
    BY <1>1, <2>1 DEF Shape
  <2>2. CASE Owns(r) /\ lock' = [lock EXCEPT ![j] = None]
    BY <1>1, <1>5, <2>2 DEF Shape
  <2> QED
    BY <1>2, <1>3, <1>4, <2>1, <2>2
<1>10. ASSUME NEW k \in Keys PROVE Owed(k)'
  <2>1. CASE lock'[k] = None
    BY <2>1 DEF Owed
  <2>2. CASE lock'[k] # None
    <3> DEFINE h == lock[k].token
    <3>1. lock'[k] = lock[k] /\ lock[k] # None
      BY <1>9, <2>2
    <3>2. h \in Requests /\ lock[k].expires # None
      BY <1>1, <3>1, NoneAssumption DEF Shape, Locks
    <3>3. lock[k].expires > now /\ ((req[h].lockUntil = lock[k].expires /\ req[h].query.key = k) \/ faults > 0)
      BY <1>1, <3>1 DEF Owed, Key
    <3>4. h = r /\ f = 0 => FALSE
      <4> SUFFICES ASSUME h = r, f = 0 PROVE FALSE
        OBVIOUS
      <4>1. k = j
        BY <1>3, <1>4, <1>5, <3>3
      <4>2. Owns(r)
        BY <1>5, <3>1, <3>3, <4>1 DEF Owns, Live, Key
      <4> QED
        BY <1>9, <2>2, <4>1, <4>2
    <3>5. (req'[h].lockUntil = lock[k].expires /\ req'[h].query.key = k) \/ faults' > 0
      BY <1>3, <1>4, <1>8, <3>2, <3>3, <3>4
    <3> QED
      BY <1>2, <3>1, <3>3, <3>5 DEF Owed, Key
  <2> QED
    BY <2>1, <2>2
<1>11. ASSUME NEW s \in Requests PROVE Kept(s)'
  <2>1. CASE s = r
    BY <1>6, <1>8, <2>1 DEF Kept
  <2>2. CASE s # r
    <3> SUFFICES ASSUME req[s].lockUntil # None, now < req[s].lockUntil
                 PROVE  lock'[Key(s)] = [token |-> s, expires |-> req[s].lockUntil]
      BY <1>2, <1>8, <2>2 DEF Kept, Key
    <3>1. lock[Key(s)] = [token |-> s, expires |-> req[s].lockUntil]
      BY <1>1 DEF Kept
    <3>2. Key(s) \in Keys
      BY DEF CacheInv, RequestOK, Carries, Turn, Key, Keys
    <3>3. lock[Key(s)].token = s
      BY <3>1
    <3>4. ~ (Key(s) = j /\ Owns(r))
      BY <1>5, <2>2, <3>3 DEF Owns, Key
    <3> QED
      BY <1>9, <3>1, <3>2, <3>4
  <2> QED
    BY <2>1, <2>2
<1>12. LocksOK
  BY <1>9, <1>10, <1>11 DEF LocksOK
<1> QED
  BY <1>2, <1>3, <1>6, <1>7, <1>12, LockStepKeepsInv

-----------------------------------------------------------------------------
\* What a sweep leaves was there.
LEMMA SweptBounds ==
    ASSUME NEW store
    PROVE  \A k \in Keys : /\ Swept(store)[k] # None => Swept(store)[k] = store[k] /\ store[k].expires > now + 1
                           /\ store[k] # None /\ store[k].expires > now + 1 => Swept(store)[k] = store[k]
  BY DEF Swept

\* A sweep keeps the stores' shapes.
LEMMA SweptShape ==
    ASSUME NEW S, NEW store \in [Keys -> S \cup {None}]
    PROVE  Swept(store) \in [Keys -> S \cup {None}]
  BY DEF Swept

\* Time passes.
LEMMA TickStep ==
    ASSUME CacheInv, Tick
    PROVE  CacheInv'
<1>1. /\ Shape /\ StoresOK(exact, rows)
      /\ \A k \in Keys : Owed(k)
      /\ \A r \in Requests : Carries(req[r], now) /\ Turn(req[r], now, faults) /\ Kept(r)
  BY StoresStay DEF CacheInv, RequestOK
<1>2. /\ now' = now + 1 /\ now' \in 0..Horizon /\ now \in Nat /\ req' = req /\ faults' = faults
      /\ exact' = Swept(exact) /\ lock' = Swept(lock) /\ rows' = Swept(rows)
  BY <1>1, CacheAssumption DEF Tick, Shape
<1>3. Shape'
  BY <1>1, <1>2, SweptShape DEF Shape
<1>4. ASSUME NEW k \in Keys
      PROVE  (rows[k] # None => RowOK(rows[k], k))' /\ (exact[k] # None => ExactOK(exact[k], k))'
  <2>1. /\ rows'[k] # None => rows'[k] = rows[k]
        /\ exact'[k] # None => exact'[k] = exact[k]
    BY <1>2, SweptBounds
  <2> QED
    BY <1>1, <2>1 DEF StoresOK
<1>5. ASSUME NEW k \in Keys PROVE Owed(k)'
  <2>1. lock'[k] # None => lock'[k] = lock[k] /\ lock[k].expires > now'
    BY <1>2, SweptBounds
  <2>2. Owed(k)
    BY <1>1
  <2> QED
    BY <1>2, <2>1, <2>2 DEF Owed, Key
<1>6. ASSUME NEW r \in Requests PROVE RequestOK(req[r], now, faults)'
  <2>1. Carries(req[r], now) /\ Turn(req[r], now, faults) /\ req[r] \in Record
    BY <1>1 DEF Shape
  <2>2. Carries(req[r], now')
    BY <1>2, <2>1 DEF Carries, Results
  <2>3. req[r].deadline # None => req[r].deadline \in Nat
    BY <2>1 DEF Record
  <2>4. Turn(req[r], now', faults)
    BY <1>2, <2>1, <2>3 DEF Turn
  <2> QED
    BY <1>2, <2>2, <2>4 DEF RequestOK
<1>7. ASSUME NEW r \in Requests PROVE Kept(r)'
  <2> SUFFICES ASSUME req[r].lockUntil # None, now + 1 < req[r].lockUntil
               PROVE  lock'[Key(r)] = [token |-> r, expires |-> req[r].lockUntil]
    BY <1>2 DEF Kept, Key
  <2>1. req[r].lockUntil \in Nat
    BY <1>1 DEF Shape, Record
  <2> DEFINE held == [token |-> r, expires |-> req[r].lockUntil]
  <2>2. held \in Locks /\ held.expires = req[r].lockUntil
    BY <2>1 DEF Locks
  <2>3. lock[Key(r)] = held
    BY <1>1, <1>2, <2>1 DEF Kept
  <2>4. Key(r) \in Keys
    BY <1>1 DEF Carries, Turn, Key, Keys
  <2> HIDE DEF held
  <2>5. lock[Key(r)] # None /\ lock[Key(r)].expires > now + 1
    BY <1>2, <2>1, <2>2, <2>3, NoneAssumption
  <2>6. lock'[Key(r)] = held
    BY <1>2, <2>3, <2>4, <2>5, SweptBounds
  <2> QED
    BY <2>6 DEF held
<1> QED
  BY <1>3, <1>4, <1>5, <1>6, <1>7 DEF CacheInv

\* What an earlier process left is good.
LEMMA LeftRowOK ==
    ASSUME now = 0, NEW q \in Earlier, NEW e \in LeftRows(q)
    PROVE  RowOK(e, q.key) /\ q \in Queries
<1>1. q \in Queries /\ SemanticEligible(q)
  BY EarlierAssumption
<1>2. CASE e = Entry(Outdated(q), now + Second)
  <2> DEFINE p == Outdated(q)
  <2>1. p \in Payloads /\ p.query = q /\ p.artifacts = {} /\ p.stored = now
    BY <1>1 DEF Outdated, Payload, Payloads
  <2> HIDE DEF p
  <2>2. e.payload = p /\ e.expires = Second /\ e \in Entries
    BY <1>2, <2>1, Seconds DEF Entry, Entries, p
  <2>3. Second * 1 <= Second * SourceFreeTtl /\ Second * SourceFreeTtl \in Int
    BY Seconds, TimesMonotone
  <2>4. Within(p, Second, Second)
    BY <2>1, <2>3, Seconds DEF Within
  <2> QED
    BY <1>1, <2>1, <2>2, <2>4 DEF RowOK
<1>3. ASSUME NEW a \in Answers, e = Entry(Payload(q, a, now), now + Second * Remaining(Payload(q, a, now)))
      PROVE  RowOK(e, q.key)
  <2> DEFINE p == Payload(q, a, now)
             rest == Remaining(p)
  <2>1. /\ p \in Payloads /\ p.query = q /\ p.artifacts = a /\ p.stored = now /\ p.read = now
        /\ a \subseteq DOMAIN Retention
    BY <1>1, CacheAssumption DEF Payload, Payloads
  <2>2. e = Entry(p, now + Second * rest)
    BY <1>3
  <2> HIDE DEF p
  <2>3. rest \in Int
    BY <2>1, RemainingBounds
  <2>4. Within(p, now + Second * rest, Second)
    BY <2>1, <2>3, EntryWithin
  <2>5. e \in Entries /\ e.payload = p /\ e.expires = now + Second * rest
    <3>1. Second * rest \in Int
      BY <2>3, Seconds
    <3> QED
      BY <2>1, <2>2, <3>1 DEF Entry, Entries
  <2> QED
    BY <1>1, <2>1, <2>4, <2>5 DEF RowOK
<1> QED
  BY <1>1, <1>2, <1>3 DEF LeftRows

\* The invariant holds initially.
LEMMA InitHasInv == Init => CacheInv
<1> SUFFICES ASSUME Init PROVE CacheInv
  OBVIOUS
<1>1. /\ now = 0 /\ faults = 0 /\ exact = EmptyStore /\ lock = EmptyStore
      /\ req = [r \in Requests |-> Idle]
      /\ \/ rows = EmptyStore
         \/ \E q \in Earlier : \E left \in LeftRows(q) : rows = [EmptyStore EXCEPT ![q.key] = left]
  BY DEF Init
<1>2. Idle \in Record
  BY DEF Idle, Record, Pcs
<1>3. rows \in [Keys -> Entries \cup {None}] /\ \A k \in Keys : rows[k] # None => RowOK(rows[k], k)
  <2>1. CASE rows = EmptyStore
    BY <2>1 DEF EmptyStore
  <2>2. ASSUME NEW q \in Earlier, NEW left \in LeftRows(q), rows = [EmptyStore EXCEPT ![q.key] = left]
        PROVE  <1>3
    <3>1. RowOK(left, q.key) /\ q \in Queries
      BY <1>1, LeftRowOK
    <3>2. left \in Entries /\ q.key \in Keys
      BY <3>1 DEF RowOK, Keys
    <3> QED
      BY <2>2, <3>1, <3>2 DEF EmptyStore
  <2> QED
    BY <1>1, <2>1, <2>2
<1>4. Shape
  BY <1>1, <1>2, <1>3, CacheAssumption DEF Shape, EmptyStore
<1>5. \A k \in Keys : exact[k] = None /\ Owed(k)
  BY <1>1 DEF EmptyStore, Owed
<1>6. \A r \in Requests : RequestOK(req[r], now, faults) /\ Kept(r)
  BY <1>1 DEF Idle, RequestOK, Carries, Turn, Kept
<1> QED
  BY <1>3, <1>4, <1>5, <1>6 DEF CacheInv

\* Every step keeps the invariant.
LEMMA NextKeepsInv == CacheInv /\ [Next]_vars => CacheInv'
<1> SUFFICES ASSUME CacheInv, [Next]_vars PROVE CacheInv'
  OBVIOUS
<1>1. CASE UNCHANGED vars
  BY <1>1 DEF vars, CacheInv, Shape, RequestOK, Carries, Turn, Kept, Owed, Key
<1>2. ASSUME NEW r \in Requests, NEW q \in Queries, Begin(r, q) PROVE CacheInv'
  BY <1>2, BeginStep
<1>3. ASSUME NEW r \in Requests, ExactGet(r) PROVE CacheInv'
  BY <1>3, ExactGetStep
<1>4. ASSUME NEW r \in Requests, SemanticLookup(r) PROVE CacheInv'
  BY <1>4, SemanticLookupStep
<1>5. ASSUME NEW r \in Requests, Promote(r) PROVE CacheInv'
  BY <1>5, PromoteStep
<1>6. ASSUME NEW r \in Requests, AcquireFill(r) PROVE CacheInv'
  BY <1>6, AcquireFillStep
<1>7. ASSUME NEW r \in Requests, WaitForFill(r) PROVE CacheInv'
  BY <1>7, WaitForFillStep
<1>8. ASSUME NEW r \in Requests, NEW artifacts \in Answers, OriginReads(r, artifacts)
      PROVE  CacheInv'
  BY <1>8, OriginReadsStep
<1>9. ASSUME NEW r \in Requests, NEW complete \in BOOLEAN, OriginReturns(r, complete)
      PROVE  CacheInv'
  BY <1>9, OriginEndsStep DEF OriginReturns, At
<1>10. ASSUME NEW r \in Requests, OriginRaises(r) PROVE CacheInv'
  BY <1>10, OriginEndsStep DEF OriginRaises
<1>11. ASSUME NEW r \in Requests, Store(r) PROVE CacheInv'
  BY <1>11, StoreStep
<1>12. ASSUME NEW r \in Requests, SemanticPut(r) PROVE CacheInv'
  BY <1>12, SemanticPutStep
<1>13. ASSUME NEW r \in Requests, ReleaseFill(r) PROVE CacheInv'
  BY <1>13, ReleaseFillStep
<1>14. CASE Tick
  BY <1>14, TickStep
<1> QED
  BY <1>1, <1>2, <1>3, <1>4, <1>5, <1>6, <1>7, <1>8, <1>9, <1>10, <1>11, <1>12, <1>13, <1>14 DEF Next

\* The invariant holds in every reachable state.
THEOREM CacheInvariant == Spec => []CacheInv
  BY InitHasInv, NextKeepsInv, PTL DEF Spec

-----------------------------------------------------------------------------
\* Requests, entries and locks have their declared shapes.
THEOREM CacheIsTyped == Spec => []CacheTypeOK
<1>1. ASSUME CacheInv PROVE CacheTypeOK
  <2>1. /\ Shape /\ StoresOK(exact, rows)
        /\ \A r \in Requests : Carries(req[r], now) /\ Turn(req[r], now, faults)
    BY <1>1, StoresStay DEF CacheInv, RequestOK
  <2>2. ASSUME NEW k \in Keys
        PROVE  /\ exact[k] # None => exact[k].expires \in Nat
               /\ rows[k] # None => rows[k].payload.query.key = k
               /\ lock[k] # None => lock[k].token \in Requests
    BY <2>1 DEF Shape, StoresOK, ExactOK, RowOK, Locks
  <2>3. ASSUME NEW r \in Requests
        PROVE  /\ req[r].pc \in Pcs
               /\ req[r].pc = "promote" => req[r].hit # None /\ SemanticEligible(req[r].query)
               /\ req[r].pc \in {"wait", "release"} => Waiting(r) # (req[r].lockUntil # None)
    <3>1. /\ req[r] \in Record /\ Carries(req[r], now)
          /\ req[r].lockUntil # None => /\ req[r].pc \in {"origin", "answer", "put", "release"}
                                        /\ req[r].deadline = None
          /\ req[r].pc = "release" => req[r].lockUntil # None
          /\ req[r].pc = "wait" => req[r].deadline # None
      BY <2>1 DEF Shape, Turn
    <3>2. req[r].pc \in Pcs
      BY <3>1 DEF Record
    <3>3. req[r].pc = "promote" => req[r].hit # None /\ SemanticEligible(req[r].query)
      BY <3>1, NoneAssumption DEF Carries
    <3>4. CASE req[r].pc = "wait"
      BY <3>1, <3>4, <3>2, <3>3 DEF Waiting
    <3>5. CASE req[r].pc = "release"
      BY <3>1, <3>5, <3>2, <3>3 DEF Waiting
    <3> QED
      BY <3>2, <3>3, <3>4, <3>5
  <2> QED
    BY <2>1, <2>2, <2>3 DEF CacheTypeOK, Shape, Pcs
<1> QED
  BY <1>1, CacheInvariant, PTL

\* Every hit is of the question asked, or of one with the same constraints that
\* depends on neither a conversation nor the date, is of the current schema and
\* is no older than the retention of what it contains.
THEOREM HitsStaySound == Spec => []HitsAreSound
<1>1. ASSUME CacheInv PROVE HitsAreSound
  <2> SUFFICES ASSUME NEW r \in Requests, req[r].pc = "done", req[r].hit # None
               PROVE  HitOK(req[r].query, req[r].hit)
    BY DEF HitsAreSound, HitOK, Answered, Within
  <2> QED
    BY <1>1 DEF CacheInv, RequestOK, Carries
<1> QED
  BY <1>1, CacheInvariant, PTL

\* A live reservation is in the lock, two requests do not both hold one for the
\* same query, and a request that executes without one waited until its
\* deadline or met a cache error.
THEOREM FillsStayExclusive == Spec => []FillsAreExclusive
<1>1. ASSUME CacheInv PROVE FillsAreExclusive
  <2>1. ASSUME NEW r \in Requests, Reserved(r)
        PROVE  lock[Key(r)] # None /\ lock[Key(r)].token = r
    <3> DEFINE held == [token |-> r, expires |-> req[r].lockUntil]
    <3>1. lock[Key(r)] = held /\ req[r].lockUntil \in Nat
      BY <1>1, <2>1 DEF CacheInv, Kept, Reserved, Shape, Record
    <3>2. held \in Locks /\ held.token = r
      BY <3>1 DEF Locks
    <3> HIDE DEF held
    <3> QED
      BY <3>1, <3>2, NoneAssumption
  <2>2. ASSUME NEW r \in Requests, Executing(r), req[r].lockUntil = None
        PROVE  (Waiting(r) /\ now >= req[r].deadline) \/ faults > 0
    BY <1>1, <2>2 DEF CacheInv, RequestOK, Turn, Executing, Waiting
  <2>3. ASSUME NEW r1 \in Requests, NEW r2 \in Requests, r1 # r2, Key(r1) = Key(r2),
               Reserved(r1), Reserved(r2)
        PROVE  FALSE
    BY <2>1, <2>3
  <2> QED
    BY <2>1, <2>2, <2>3 DEF FillsAreExclusive
<1> QED
  BY <1>1, CacheInvariant, PTL

\* A request that is over holds no live lock, unless a cache error hid it.
THEOREM ReservationsEnd == Spec => []ReservationsAreReturned
<1>1. ASSUME CacheInv PROVE ReservationsAreReturned
  <2> SUFFICES ASSUME NEW r \in Requests, req[r].pc = "done", Live(lock, Key(r)),
                      lock[Key(r)].token = r
               PROVE  faults > 0
    BY DEF ReservationsAreReturned
  <2>1. Carries(req[r], now) /\ Turn(req[r], now, faults)
    BY <1>1 DEF CacheInv, RequestOK
  <2>2. Key(r) \in Keys /\ req[r].lockUntil = None
    BY <2>1 DEF Carries, Turn, Key, Keys
  <2>3. lock[Key(r)] \in Locks /\ Owed(Key(r))
    BY <1>1, <2>2 DEF CacheInv, Shape, Live
  <2>4. lock[Key(r)].expires # None
    BY <2>3, NoneAssumption DEF Locks
  <2> QED
    BY <2>2, <2>3, <2>4 DEF Owed, Live
<1> QED
  BY <1>1, CacheInvariant, PTL
=============================================================================
