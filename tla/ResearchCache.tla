---------------------------- MODULE ResearchCache ----------------------------
(***************************************************************************)
(* Result caching of stateless research: ResearchAgentService's            *)
(* _research_stateless with ResearchResultCacheService, CacheCoordinator,  *)
(* the Redis exact tier with its fill locks and the pgvector semantic tier.*)
(* Requests interleave at every await; every cache operation may raise.    *)
(*                                                                         *)
(* A query is a record: its key (namespace and normalized text), its class *)
(* (namespace and constraints, of which symbols and intents are named) and *)
(* whether its language depends on a conversation or on the date.          *)
(* Embeddings are not modelled: the semantic tier may find any row that    *)
(* passes its WHERE clause, or none.  A result is its artifacts and when   *)
(* their source was read.                                                  *)
(***************************************************************************)
EXTENDS Integers, FiniteSets, FiniteSetsExt

CONSTANTS Requests,
          Queries,        \* the queries that are asked
          Earlier,        \* bound: those that earlier processes answered
          Retention,      \* ARTIFACT_TTL_SECONDS: artifact type |-> seconds
          Answers,        \* bound: the sets of artifacts results have
          SourceFreeTtl,  \* SOURCE_FREE_TTL_SECONDS
          RelativeTtl,    \* the cap on relative time language
          FillLock,       \* fill_lock_seconds
          FillWait,       \* fill_wait_seconds
          Second,         \* bound: clock ticks per second
          Horizon,        \* bound: the last tick
          MaxRequests,    \* bound: requests, in Requests slots
          MaxFaults,      \* bound: cache operations that raise
          None

ASSUME CacheAssumption ==
    /\ Retention \in [DOMAIN Retention -> Nat] /\ Answers \subseteq SUBSET DOMAIN Retention
    /\ {SourceFreeTtl, RelativeTtl, FillLock, FillWait, Second} \subseteq Nat \ {0}
    /\ Horizon \in Nat /\ MaxRequests \in Nat /\ MaxFaults \in Nat

VARIABLES now,     \* the clock, in ticks
          exact,   \* Redis values: key |-> entry or None
          lock,    \* Redis fill locks: key |-> [token, expires] or None
          rows,    \* semantic_research_cache: key |-> entry or None
          req,     \* the requests under way, and the last hit of each slot
          asked,   \* requests so far
          faults   \* cache operations that raised so far

vars == <<now, exact, lock, rows, req, asked, faults>>

Keys == {q.key : q \in Queries}

\* SHA-256 of the namespace and the normalized text: one key, one query.
ASSUME KeysAssumption == \A p, q \in Queries : p.key = q.key => p = q

Payloads == [query : Queries, artifacts : SUBSET DOMAIN Retention,
             read : Nat, stored : Nat, valid : BOOLEAN]
Locks == [token : Requests, expires : Nat]
Hits == [payload : Payloads, at : Nat, expires : Int]

\* None is no time, no lock and no hit.
ASSUME NoneAssumption == None \notin Nat /\ None \notin Locks /\ None \notin Hits

EmptyStore == [k \in Keys |-> None]
Entry(payload, expires) == [payload |-> payload, expires |-> expires]
Live(store, k) == store[k] # None /\ store[k].expires > now

\* serialize_research_result; an older release left another schema.
Payload(q, artifacts, read) ==
    [query |-> q, artifacts |-> artifacts, read |-> read, stored |-> now, valid |-> TRUE]
Outdated(q) == [Payload(q, {}, now) EXCEPT !.valid = FALSE]

Idle == [pc |-> "idle", query |-> None, deadline |-> None, lockUntil |-> None,
         result |-> None, hit |-> None]

-----------------------------------------------------------------------------
\* fingerprint_query: only a query that names its company, has a definite
\* intent and depends neither on a conversation nor on the date is eligible.
SemanticEligible(q) ==
    /\ q.class.symbols # {} /\ q.class.intents # {}
    /\ q.class.intents \cap {"uncertain_financial", "fixed_all"} = {}
    /\ ~q.context /\ ~q.relative

ASSUME EarlierAssumption == Earlier \subseteq {q \in Queries : SemanticEligible(q)}

CeilSeconds(ticks) == (ticks + Second - 1) \div Second

\* Mutant: the longest retention of the artifacts counts.
RemainingMax(result) ==
    IF result.artifacts = {} THEN SourceFreeTtl
    ELSE Max({Retention[a] - (now - result.read) \div Second : a \in result.artifacts})

\* evaluate_artifact_ttl: the shortest retention, less the source's age in
\* whole seconds.
Remaining(result) ==
    IF result.artifacts = {} THEN SourceFreeTtl
    ELSE Min({Retention[a] - (now - result.read) \div Second : a \in result.artifacts})

\* What earlier processes may have left in PostgreSQL, just written.
LeftRows(q) ==
    {Entry(Outdated(q), now + Second)} \cup
    {Entry(p, now + Second * Remaining(p)) : p \in {Payload(q, a, now) : a \in Answers}}

Init ==
    /\ now = 0
    /\ exact = EmptyStore
    /\ lock = EmptyStore
    /\ \/ rows = EmptyStore
       \/ \E q \in Earlier : \E left \in LeftRows(q) :
             rows = [EmptyStore EXCEPT ![q.key] = left]
    /\ req = [r \in Requests |-> Idle]
    /\ asked = 0
    /\ faults = 0

\* Mutant: relative time language is not capped.
StoreTtlUncapped(q, result) == Remaining(result)

StoreTtl(q, result) ==
    IF q.relative THEN Min({Remaining(result), RelativeTtl}) ELSE Remaining(result)

\* Mutant: a row is good for any query.
CandidatesAnyClass(q) == {k \in Keys : Live(rows, k)}

\* Rows the semantic lookup may return: unexpired, same constraints.
Candidates(q) ==
    {k \in Keys : Live(rows, k) /\ rows[k].payload.query.class = q.class}

At(r, pc) == req[r].pc = pc
Key(r) == req[r].query.key
Goto(r, pc) == req' = [req EXCEPT ![r].pc = pc]

\* The request is answered; hit is None when it executed the graph.
Done(q, hit) == [Idle EXCEPT !.pc = "done", !.query = q, !.hit = hit]

\* Mutant: the reservation is not returned.
LeaveLocked(r) == req' = [req EXCEPT ![r] = Done(@.query, None)]

\* Finally: release_fill, if the request holds a token.
Leave(r) ==
    req' = [req EXCEPT ![r] = IF @.lockUntil # None
                              THEN [@ EXCEPT !.pc = "release", !.result = None]
                              ELSE Done(@.query, None)]

Raises == faults < MaxFaults /\ faults' = faults + 1
Works == UNCHANGED faults

-----------------------------------------------------------------------------
Begin(r, q) ==
    /\ req[r].pc \in {"idle", "done"} /\ asked < MaxRequests
    /\ req' = [req EXCEPT ![r] = [Idle EXCEPT !.pc = "get", !.query = q]]
    /\ asked' = asked + 1
    /\ UNCHANGED <<now, exact, lock, rows, faults>>

\* Mutant: a waiter that finds nothing reserves the fill itself.
MissedAcquires(r) == "acquire"

\* A lookup that found nothing: the request reserves the fill or, if it waits
\* for another's, polls again.
Missed(r) == IF req[r].deadline = None THEN "acquire" ELSE "wait"

\* A hit ends the request; a payload that does not deserialize is a miss.
Resolved(r, payload, at) ==
    IF payload.valid
    THEN [req EXCEPT ![r] = Done(@.query, [payload |-> payload, at |-> at])]
    ELSE [req EXCEPT ![r].pc = Missed(r), ![r].hit = None]

\* CacheCoordinator.lookup, exact tier; an error falls through to the semantic.
ExactGet(r) ==
    /\ At(r, "get")
    /\ \/ /\ Works /\ Live(exact, Key(r))
          /\ req' = Resolved(r, exact[Key(r)].payload, now)
       \/ /\ (Works /\ ~Live(exact, Key(r))) \/ Raises
          /\ Goto(r, IF SemanticEligible(req[r].query) THEN "search" ELSE Missed(r))
    /\ UNCHANGED <<now, exact, lock, rows, asked>>

\* CacheCoordinator.lookup, embedding and semantic tier.
SemanticLookup(r) ==
    /\ At(r, "search")
    /\ \/ /\ Works
          /\ \E k \in Candidates(req[r].query) :
                req' = [req EXCEPT ![r].pc = "promote",
                                   ![r].hit = [payload |-> rows[k].payload, at |-> now,
                                               expires |-> rows[k].expires]]
       \/ (Works \/ Raises) /\ Goto(r, Missed(r))
    /\ UNCHANGED <<now, exact, lock, rows, asked>>

\* Mutant: the promoted copy starts a retention of its own.
PromotedForRetention(hit) == Entry(hit.payload, now + Second * Remaining([hit.payload EXCEPT !.read = now]))

\* The copy of a semantic hit in the exact tier lives as long as the row.
Promoted(hit) == Entry(hit.payload, now + Second * CeilSeconds(hit.expires - now))

\* A semantic hit is copied to the exact tier and returned.
Promote(r) ==
    /\ At(r, "promote")
    /\ LET hit == req[r].hit
           writes == /\ hit.expires > now
                     /\ exact' = [exact EXCEPT ![Key(r)] = Promoted(hit)]
       IN /\ \/ writes /\ (Works \/ Raises)
             \/ UNCHANGED exact /\ IF hit.expires > now THEN Raises ELSE Works
          /\ req' = Resolved(r, hit.payload, hit.at)
    /\ UNCHANGED <<now, lock, rows, asked>>

-----------------------------------------------------------------------------
\* Mutant: SET without NX.
AcquireAnyway(k) == TRUE

Acquirable(k) == ~Live(lock, k)

\* acquire_fill: SET NX EX.  When it raises, applied or not, the request goes
\* on without a reservation.
AcquireFill(r) ==
    /\ At(r, "acquire")
    /\ LET k == Key(r)
           free == Acquirable(k)
           sets == lock' = [lock EXCEPT ![k] = [token |-> r, expires |-> now + Second * FillLock]]
       IN \/ /\ Works /\ free /\ sets
             /\ req' = [req EXCEPT ![r].pc = "origin", ![r].lockUntil = now + Second * FillLock]
          \/ /\ Works /\ ~free /\ UNCHANGED lock
             /\ req' = [req EXCEPT ![r].pc = "wait", ![r].deadline = now + Second * FillWait]
          \/ /\ Raises /\ (UNCHANGED lock \/ (free /\ sets))
             /\ Goto(r, "origin")
    /\ UNCHANGED <<now, exact, rows, asked>>

\* wait_for_fill: another poll, or the deadline passed.
WaitForFill(r) ==
    /\ At(r, "wait")
    /\ Goto(r, IF now < req[r].deadline THEN "get" ELSE "origin")
    /\ UNCHANGED <<now, exact, lock, rows, faults, asked>>

-----------------------------------------------------------------------------
\* The graph executes: its tools read their source, then it returns or raises.
OriginReads(r, artifacts) ==
    /\ At(r, "origin")
    /\ req' = [req EXCEPT ![r].pc = "answer",
                          ![r].result = [artifacts |-> artifacts, read |-> now]]
    /\ UNCHANGED <<now, exact, lock, rows, faults, asked>>

\* The result is not stored: it is blank, partial, failed, oversized or without
\* a source time (~complete), or its source is too old.
OriginReturns(r, complete) ==
    /\ At(r, "answer")
    /\ complete => StoreTtl(req[r].query, req[r].result) <= 0
    /\ Leave(r)
    /\ UNCHANGED <<now, exact, lock, rows, faults, asked>>

\* The execution raises.
OriginRaises(r) ==
    /\ req[r].pc \in {"origin", "answer"}
    /\ Leave(r)
    /\ UNCHANGED <<now, exact, lock, rows, faults, asked>>

\* A complete result is stored: CacheCoordinator.store, exact tier.
Store(r) ==
    /\ At(r, "answer")
    /\ LET q == req[r].query
           result == req[r].result
           ttl == StoreTtl(q, result)
           entry == Entry(Payload(q, result.artifacts, result.read), now + Second * ttl)
       IN /\ ttl > 0
          /\ \/ (Works \/ Raises) /\ exact' = [exact EXCEPT ![q.key] = entry]
             \/ Raises /\ UNCHANGED exact
          /\ IF SemanticEligible(q)
             THEN req' = [req EXCEPT ![r].pc = "put", ![r].result = entry]
             ELSE Leave(r)
    /\ UNCHANGED <<now, lock, rows, asked>>

\* CacheCoordinator.store, embedding and semantic tier: an upsert with the
\* absolute expiry that was decided.
SemanticPut(r) ==
    /\ At(r, "put")
    /\ \/ (Works \/ Raises) /\ rows' = [rows EXCEPT ![Key(r)] = req[r].result]
       \/ Raises /\ UNCHANGED rows
    /\ Leave(r)
    /\ UNCHANGED <<now, exact, lock, asked>>

\* Mutant: DEL without comparing the token.
OwnsAny(r) == TRUE

\* The release script compares the token before it deletes.
Owns(r) == Live(lock, Key(r)) /\ lock[Key(r)].token = r

\* release_fill; its errors are swallowed.
ReleaseFill(r) ==
    /\ At(r, "release")
    /\ \/ (Works \/ Raises)
          /\ lock' = IF Owns(r) THEN [lock EXCEPT ![Key(r)] = None] ELSE lock
       \/ Raises /\ UNCHANGED lock
    /\ req' = [req EXCEPT ![r] = Done(@.query, None)]
    /\ UNCHANGED <<now, exact, rows, asked>>

\* Expired entries are gone: Redis drops them, the semantic lookup skips them.
Swept(store) == [k \in Keys |-> IF store[k] # None /\ store[k].expires > now + 1
                                THEN store[k] ELSE None]

Tick ==
    /\ now < Horizon
    /\ now' = now + 1
    /\ exact' = Swept(exact) /\ lock' = Swept(lock) /\ rows' = Swept(rows)
    /\ UNCHANGED <<req, asked, faults>>

Next ==
    \/ \E r \in Requests :
          \/ \E q \in Queries : Begin(r, q)
          \/ ExactGet(r) \/ SemanticLookup(r) \/ Promote(r)
          \/ AcquireFill(r) \/ WaitForFill(r)
          \/ \E artifacts \in Answers : OriginReads(r, artifacts)
          \/ \E complete \in BOOLEAN : OriginReturns(r, complete)
          \/ OriginRaises(r)
          \/ Store(r) \/ SemanticPut(r) \/ ReleaseFill(r)
    \/ Tick

Spec == Init /\ [][Next]_vars
-----------------------------------------------------------------------------
Waiting(r) == req[r].deadline # None
Reserved(r) == req[r].lockUntil # None /\ now < req[r].lockUntil
Executing(r) == req[r].pc \in {"origin", "answer"}

\* Requests, entries and locks have their declared shapes.
CacheTypeOK ==
    /\ now \in 0..Horizon /\ faults \in 0..MaxFaults
    /\ \A k \in Keys :
          /\ exact[k] # None => exact[k].expires \in Nat
          /\ rows[k] # None => rows[k].payload.query.key = k
          /\ lock[k] # None => lock[k].token \in Requests
    /\ \A r \in Requests :
          /\ req[r].pc \in {"idle", "get", "search", "promote", "acquire", "wait",
                            "origin", "answer", "put", "release", "done"}
          /\ req[r].pc = "promote" => req[r].hit # None /\ SemanticEligible(req[r].query)
          /\ req[r].pc \in {"wait", "release"} => Waiting(r) # (req[r].lockUntil # None)

\* Whole seconds are kept of the source's age, and of what is left of a row.
Slack == 2 * (Second - 1)

\* What a hit returns was asked and answered for: the same query, or one of the
\* same constraints when neither depends on a conversation or on the date; it
\* is of the current schema; and whichever tier it came from, copied or not, no
\* artifact in it is older than its retention.
HitsAreSound ==
    \A r \in Requests : req[r].pc = "done" /\ req[r].hit # None =>
        LET p == req[r].hit.payload
            q == req[r].query
            at == req[r].hit.at
        IN /\ p.valid
           /\ \/ p.query = q
              \/ p.query.class = q.class /\ SemanticEligible(q) /\ SemanticEligible(p.query)
           /\ \A a \in p.artifacts : at < p.read + Second * Retention[a] + Slack
           /\ p.artifacts = {} => at < p.stored + Second * SourceFreeTtl + Slack
           /\ q.relative => at < p.stored + Second * RelativeTtl

\* Two requests execute the graph for one query only if one of them waited for
\* the other until its deadline, outlived its lock, or met a cache error.  A
\* reservation that has not expired is nobody else's, and nobody else ends it.
FillsAreExclusive ==
    /\ \A r \in Requests : Executing(r) /\ Reserved(r) =>
          lock[Key(r)] # None /\ lock[Key(r)].token = r
    /\ \A r1, r2 \in Requests :
          Executing(r1) /\ Executing(r2) /\ r1 # r2 /\ Key(r1) = Key(r2) =>
              ~Reserved(r1) \/ ~Reserved(r2)
    /\ \A r \in Requests : Executing(r) /\ req[r].lockUntil = None =>
          (Waiting(r) /\ now >= req[r].deadline) \/ faults > 0

\* A request that ended, however it ended, blocks nobody: its reservation is
\* gone unless a cache error hid it.
ReservationsAreReturned ==
    \A r \in Requests : req[r].pc = "done" /\ Live(lock, Key(r)) =>
        lock[Key(r)].token # r \/ faults > 0
=============================================================================
