-------------------------- MODULE WorkspaceServices --------------------------
(***************************************************************************)
(* The account and market-data requests of one API process together: they  *)
(* share the event loop and its thread pool, and nothing else.             *)
(***************************************************************************)
EXTENDS AccountSessions, MarketData

vars == <<req, begun, threadVars, singleUser, accountVars, failures>>

Init ==
    /\ req = [r \in Slots |-> Idle] /\ begun = 0
    /\ ThreadsInit /\ AccountsInit

Next ==
    \/ \E r \in Slots : AccountBegins(r) /\ UNCHANGED <<singleUser, failures>>
    \/ \E r \in Slots : MarketBegins(r) /\ UNCHANGED <<singleUser, failures, accountVars>>
    \/ \E r \in Slots : AccountStep(r) /\ UNCHANGED <<begun, singleUser, failures>>
    \/ \E r \in Slots : DatabaseFails(r) /\ UNCHANGED <<begun, singleUser>>
    \/ \E r \in Slots : MarketStep(r) /\ UNCHANGED <<begun, singleUser, failures, accountVars>>
    \/ SessionExpires /\ UNCHANGED <<begun, singleUser, failures>>
    \/ (ThreadTakes \/ AbandonedReturns)
          /\ UNCHANGED <<req, begun, singleUser, failures, accountVars>>

Spec == Init /\ [][Next]_vars

\* The event loop runs ready tasks and timers; no thread is assumed to return.
FairSpec ==
    /\ Spec
    /\ \A r \in Slots :
          /\ WF_vars(StartLookup(r) /\ UNCHANGED <<begun, singleUser, failures, accountVars>>)
          /\ WF_vars(/\ \E s \in Symbols : LookupTimesOut(r, s)
                     /\ UNCHANGED <<begun, singleUser, failures, accountVars>>)

-----------------------------------------------------------------------------

(***************************************************************************)
(* One account per address however registrations and first single-user     *)
(* requests interleave.  A request that was given a session gave that      *)
(* account's address and password, and the session it opened belongs to    *)
(* that account.  In single-user mode every request that is not cut off by *)
(* a failing database acts as the one local account, also the loser of the *)
(* race to create it (service.py _local_account).                          *)
(***************************************************************************)
IdentitiesAreSound ==
    /\ \A a, b \in accounts : a.email = b.email \/ a.id = b.id => a = b
    /\ \A r \in Slots : Serves(r, {"register", "login"}) /\ req[r].token # Absent =>
          /\ req[r].account \in accounts
          /\ req[r].account.email = req[r].email /\ req[r].account.password = req[r].password
          /\ \A s \in sessions : s.token = req[r].token => s.user = req[r].account.id
    /\ \A r \in Slots : singleUser /\ At(r, "me", "replied") /\ req[r].reply # "unavailable" =>
          req[r].account \in WithEmail(Local)

(***************************************************************************)
(* A watchlist refresh answers with one item per distinct symbol, in the   *)
(* order asked for, and each item is what its own lookup came to, whatever *)
(* happened to the others and in whatever order the lookups ended.  Only a *)
(* spelling no ticker has, or a history whose previous raw close is zero   *)
(* behind positive adjusted closes, fails the batch as a whole             *)
(* (watchlist_market.py get_snapshots).                                    *)
(***************************************************************************)
FirstAsked(asked, symbol) == Min({i \in DOMAIN asked : NormalForm[asked[i]] = symbol})

BatchesAnswerEverySymbol ==
    \A r \in Slots : Serves(r, {"snapshots"}) /\ req[r].reply # None =>
        LET asked == req[r].asked
            task  == req[r].task
            items == req[r].reply.body
            Priced(s) == task[s].is = "found" /\ Analysable(task[s].history, 2)
        IN  IF req[r].reply.is = "answered"
            THEN /\ {items[i].symbol : i \in DOMAIN items} = {NormalForm[a] : a \in ToSet(asked)}
                 /\ \A i, j \in DOMAIN items : i < j =>
                       FirstAsked(asked, items[i].symbol) < FirstAsked(asked, items[j].symbol)
                 /\ \A i \in DOMAIN items :
                       /\ items[i].status = "ok" <=> Priced(items[i].symbol)
                       /\ items[i].status = "symbol_not_found" <=> task[items[i].symbol] = NotFound
            ELSE \/ \E a \in ToSet(asked) : NormalForm[a] = Invalid
                 \/ \E s \in DOMAIN task : Priced(s) /\ DividesByZero(task[s].history)

(***************************************************************************)
(* What the analyses and datasets report agrees with its definition over   *)
(* what Yahoo answered.  A drawdown is the deepest fall from any earlier   *)
(* price, the first as deep; its peak is the first of the highest prices   *)
(* until then, its recovery the first return to that price, and there is   *)
(* none only if the price never returns.  A backtest position depends on   *)
(* the windows that end before the point alone, its equity is the product  *)
(* of the held returns, and its trades balance.  A correlation compares    *)
(* returns over the same dates of both histories and is symmetric.  A      *)
(* dataset has no record its source lacks, omits none its limit allows,    *)
(* keeps their order, merges the sources of one period into one record and *)
(* gives every known ratio once, debt to equity as a fraction.             *)
(***************************************************************************)
WindowSum(values, from, to) == FoldLeft(+, 0, SubSeq(values, from, to))

LongBefore(values, i) ==
    /\ i > LongWindow
    /\ LongWindow * WindowSum(values, i - ShortWindow, i - 1)
         > ShortWindow * WindowSum(values, i - LongWindow, i - 1)

DrawdownIsDefined(v, d) ==
    LET Fall(i, j) == <<v[j], v[i]>>
        returned   == {i \in d.troughAt + 1 .. Len(v) : v[i] >= v[d.peakAt]}
    IN  /\ d.worst = Fall(d.peakAt, d.troughAt) \/ (d.peakAt = d.troughAt /\ d.worst = <<1, 1>>)
        /\ \A i \in DOMAIN v : \A j \in i .. Len(v) : ~ Below(Fall(i, j), d.worst)
        /\ \A j \in 1 .. d.troughAt - 1 : \A i \in 1 .. j : Below(d.worst, Fall(i, j))
        /\ \A i \in 1 .. d.troughAt : v[i] <= v[d.peakAt]
        /\ \A i \in 1 .. d.peakAt - 1 : v[i] < v[d.peakAt]
        /\ d.recoveredAt = None <=> returned = {}
        /\ d.recoveredAt # None =>
              d.recoveredAt \in returned /\ \A i \in returned : d.recoveredAt <= i

BacktestIsDefined(v, b) ==
    LET held == {i \in 2 .. Len(v) : b.positions[i] = 1} IN
    /\ Len(b.positions) = Len(v)
    /\ \A i \in 2 .. Len(v) : b.positions[i] = 1 <=> LongBefore(v, i)
    /\ b.entries - b.exits = b.positions[Len(v)] /\ b.trades = b.entries + b.exits
    /\ b.entries = Cardinality({i \in held : b.positions[i - 1] = 0})
    /\ b.equity[1] = FoldFunctionOnSet(LAMBDA x, y : x * y, 1, v, held)
    /\ b.equity[2] = FoldFunctionOnSet(LAMBDA x, y : x * y, 1, v, {i - 1 : i \in held})

CorrelationsAreDefined(task, matrix) ==
    \A pair \in DOMAIN matrix :
        LET left   == task[pair[1]].history
            right  == task[pair[2]].history
            common == SetToSortSeq(Dates(left) \cap Dates(right), <)
            On(h, date) == {AnalysisPrices(h)[i] : i \in {j \in DOMAIN h : h[j].date = date}}
        IN  /\ matrix[pair].observations = IF common = <<>> THEN 0 ELSE Len(common) - 1
            /\ \A i \in 1 .. Len(common) - 1 :
                  LET span == matrix[pair].spans[i] IN
                  /\ {span[1]} = On(left, common[i]) /\ {span[2]} = On(left, common[i + 1])
                  /\ {span[3]} = On(right, common[i]) /\ {span[4]} = On(right, common[i + 1])
            /\ matrix[pair].value = matrix[<<pair[2], pair[1]>>].value

EachOnce(records, periods) ==
    /\ {records[i].period : i \in DOMAIN records} = periods
    /\ Len(records) = Cardinality(periods)

\* Every reported period once, the newest ones, each with its own statements.
StatementsAreDefined(raw, records) ==
    LET all      == raw.income \cup raw.balance \cup raw.cash
        reported == {records[i].period : i \in DOMAIN records}
    IN  /\ reported \subseteq all /\ EachOnce(records, reported)
        /\ \A p \in all \ reported :
              Len(records) = StatementPeriods /\ \A q \in reported : p < q
        /\ \A i, j \in DOMAIN records : i < j => records[i].period > records[j].period
        /\ \A i \in DOMAIN records :
              /\ records[i].income  <=> records[i].period \in raw.income
              /\ records[i].balance <=> records[i].period \in raw.balance
              /\ records[i].cash    <=> records[i].period \in raw.cash

EstimatesAreDefined(raw, records) ==
    /\ EachOnce(records, ToSet(raw.earnings) \cup ToSet(raw.revenue)
                            \cup {p \in {"price_targets"} : raw.targets})
    /\ \A i \in DOMAIN records :
          /\ records[i].earnings <=> records[i].period \in ToSet(raw.earnings)
          /\ records[i].revenue  <=> records[i].period \in ToSet(raw.revenue)

\* A malformed entry inside the limit costs a record; its URLs are distinct.
EntriesAreDefined(raw, limit, d) ==
    LET kept == {i \in DOMAIN raw.entries : i <= limit /\ raw.entries[i].mapping} IN
    /\ Len(d.records) = Cardinality(kept)
    /\ \A i \in kept : d.records[Cardinality({j \in kept : j <= i})] = raw.entries[i]
    /\ ToSet(d.urls) = {raw.entries[i].url : i \in kept} \ {""}
    /\ Len(d.urls) = Cardinality(ToSet(d.urls))

\* The first limit records of a source, all of them if it has no more.
FirstOf(records, source, limit) ==
    /\ IsPrefix(records, source)
    /\ Len(records) <= limit
    /\ Len(records) < limit => records = source

\* Every ratio Yahoo has a number for is reported once, with that number, and
\* no other has a value.
RatiosAreDefined(info, records) ==
    /\ \A i \in DOMAIN records : \A m \in DOMAIN records[i].metrics :
          records[i].metrics[m] # <<>> =>
             m \in DOMAIN info /\ records[i].metrics[m][1] = info[m]
    /\ \A m \in DOMAIN info :
          /\ \E i \in DOMAIN records : m \in DOMAIN records[i].metrics
                                       /\ records[i].metrics[m] # <<>>
          /\ \A i, j \in DOMAIN records :
                m \in DOMAIN records[i].metrics \cap DOMAIN records[j].metrics => i = j
    /\ \A i \in DOMAIN records : \A m \in DOMAIN records[i].metrics \cap DOMAIN info :
          records[i].metrics[m][2] = 100 <=> m = "debt_to_equity"

\* The summary, then the first holders, unless both are empty.
OwnershipIsDefined(raw, limit, records) ==
    /\ Head(records) = "summary"
    /\ FirstOf(Tail(records), raw.holders, limit)
    /\ raw.known \/ Len(records) > 1

DatasetIsDefined(query, d) ==
    CASE query[1] = "statements" -> StatementsAreDefined(d.raw, d.records)
      [] query[1] = "estimates"  -> EstimatesAreDefined(d.raw, d.records)
      [] query[1] \in {"filings", "news"} -> EntriesAreDefined(d.raw, query[2], d)
      [] query[1] = "ratios"     -> RatiosAreDefined(d.raw.info, d.records)
      [] query[1] = "ownership"  -> OwnershipIsDefined(d.raw, query[2], d.records)
      [] query[1] = "insiders"   -> FirstOf(d.records, d.raw.rows, query[2])

ReportsMatchTheirSources ==
    \A r \in Slots :
        Serves(r, {"drawdowns", "backtest", "correlations", "dataset"})
        /\ req[r].reply # None /\ req[r].reply.is = "answered" =>
            LET body    == req[r].reply.body
                history == req[r].task[req[r].symbols[1]].history
            IN  CASE req[r].kind = "drawdowns"    -> DrawdownIsDefined(AnalysisPrices(history), body)
                  [] req[r].kind = "backtest"     -> BacktestIsDefined(AnalysisPrices(history), body)
                  [] req[r].kind = "correlations" -> CorrelationsAreDefined(req[r].task, body)
                  [] req[r].kind = "dataset"      -> DatasetIsDefined(req[r].query, body)

(***************************************************************************)
(* Every market request is answered even if the threads that run its       *)
(* lookups, or those of others, or the hashing jobs ahead of them, never   *)
(* return: wait_for also counts the time a lookup spends in the queue.     *)
(***************************************************************************)
MarketRequestsEnd ==
    \A r \in Slots :
        Serves(r, MarketKinds) /\ req[r].reply = None ~> req[r] = Idle \/ req[r].reply # None
=============================================================================
