------------------------------ MODULE MarketData ------------------------------
(***************************************************************************)
(* Requests for market data: src/app/services/watchlist_market.py,         *)
(* company_research.py and the fetches of quantitative_research.py over    *)
(* the adapter of src/app/providers/yahoo.py.  A request runs one lookup   *)
(* task per distinct symbol; a lookup is a blocking call on the shared     *)
(* thread pool awaited for a bounded time.                                 *)
(***************************************************************************)
EXTENDS RequestThreads, QuantitativeResearch, FundamentalDatasets

CONSTANTS
    Symbols,      \* tickers in their normal form
    Invalid,      \* what normalize_symbol refuses
    NormalForm,   \* spelling -> Symbols \cup {Invalid}
    Asks,         \* bound: the symbol lists requests ask for
    Concurrency,  \* tasks of one watchlist batch that hold the semaphore
    Histories,    \* bound: histories Yahoo may answer an analysis with
    Samples,      \* bound: histories Yahoo may answer a batch or a matrix with
    Queries,      \* bound: <<dataset, frequency or limit>> requests ask for
    Datasets      \* bound: what Yahoo may answer a dataset lookup with

\* Every spelling that is asked for has a normal form or is refused.
ASSUME AsksAssumption == \A asked \in Asks : asked \in Seq(DOMAIN NormalForm)

MarketKinds == {"snapshots", "comparison", "correlations", "drawdowns", "backtest", "dataset"}

Waiting == [is |-> "waiting"]
Lookup  == [is |-> "lookup"]
Failed(code) == [is |-> "failed", code |-> code]
Found(history) == [is |-> "found", history |-> history]

NotFound    == Failed("symbol_not_found")
Unavailable == Failed("provider_error")
TimedOut    == Failed("provider_timeout")

\* The history the adapter makes of the rows of one answer: rows without a
\* close are dropped, no row left means an unknown symbol.
FetchedHistory(rows) ==
    LET points == SelectSeq(rows, LAMBDA row : row.close # None)
    IN  IF points = <<>> THEN NotFound ELSE Found(points)

\* dict.fromkeys over the normalized spellings: each symbol where it comes first.
Normalized(asked) ==
    LET first == {i \in DOMAIN asked :
                     \A j \in 1 .. i - 1 : NormalForm[asked[j]] # NormalForm[asked[i]]}
    IN  [n \in 1 .. Cardinality(first) |->
            NormalForm[asked[CHOOSE i \in first : Cardinality({j \in first : j <= i}) = n]]]

Accepts(kind, symbols) ==
    CASE kind \in {"comparison", "correlations"} -> Len(symbols) \in 2 .. 5
      [] OTHER                                   -> TRUE

Answered(reply) == [is |-> "answered", body |-> reply]
Error(code)     == [is |-> "error", code |-> code]

BeginMarket(r, kind, asked) ==
    LET symbols == Normalized(asked)
        refusal == IF Invalid \in ToSet(symbols) THEN Error("invalid_symbol")
                   ELSE IF ~ Accepts(kind, symbols) THEN Error("invalid_query")
                   ELSE None
    IN  /\ kind # "dataset" /\ (kind \in {"drawdowns", "backtest"} => Len(asked) = 1)
        /\ Begin(r, [kind |-> kind, asked |-> asked, symbols |-> symbols, reply |-> refusal,
                     task |-> IF refusal = None THEN [s \in ToSet(symbols) |-> Waiting]
                              ELSE <<>>])
        /\ UNCHANGED threadVars

\* A dataset request checks its argument before the symbol.
BeginDataset(r, query, asked) ==
    LET symbol  == NormalForm[asked[1]]
        refusal == IF ~ LegalArgument(query[1], query[2]) THEN Error("invalid_query")
                   ELSE IF symbol = Invalid THEN Error("invalid_symbol")
                   ELSE None
    IN  /\ Len(asked) = 1
        /\ Begin(r, [kind |-> "dataset", query |-> query, asked |-> asked,
                     symbols |-> <<symbol>>, reply |-> refusal,
                     task |-> IF refusal = None THEN [s \in {symbol} |-> Waiting] ELSE <<>>])
        /\ UNCHANGED threadVars

Tasks(r, state) == {s \in DOMAIN req[r].task : req[r].task[s].is = state}

\* The first waiting task submits its lookup; a batch holds a semaphore.
StartLookup(r) ==
    /\ Serves(r, MarketKinds) /\ Tasks(r, "waiting") # {}
    /\ req[r].kind = "snapshots" => Cardinality(Tasks(r, "lookup")) < Concurrency
    /\ LET next == req[r].symbols[
               SelectInSeq(req[r].symbols, LAMBDA s : s \in Tasks(r, "waiting"))] IN
       /\ req' = [req EXCEPT ![r].task[next] = Lookup]
       /\ Submit(<<r, next>>)

(***************************************************************************)
(* What the handlers make of the outcomes of their tasks.                  *)
(***************************************************************************)

\* WatchlistMarketService._snapshot, and the two except clauses around it.
\* The last change divides by the previous raw close, which only adjusted
\* closes have been checked in place of.
Snapshot(symbol, outcome) ==
    IF outcome.is = "failed"
    THEN [symbol |-> symbol, status |-> IF outcome = NotFound THEN "symbol_not_found"
                                        ELSE "provider_unavailable"]
    ELSE IF Analysable(outcome.history, 2) THEN [symbol |-> symbol, status |-> "ok"]
    ELSE [symbol |-> symbol, status |-> "provider_unavailable"]

DividesByZero(h) == Analysable(h, 2) /\ h[Len(h) - 1].close = 0

\* Mutant: only an unknown symbol is caught inside the batch.
RaisesProviderError(kind, outcome) ==
    IF outcome.is = "failed" /\ (kind # "snapshots" \/ outcome # NotFound)
    THEN outcome.code ELSE None

\* The exception with which a settled task ends its gather, if it does.
Raises(kind, outcome) ==
    IF kind = "snapshots"
    THEN IF outcome.is = "found" /\ DividesByZero(outcome.history) THEN "internal_error" ELSE None
    ELSE IF outcome.is = "failed" THEN outcome.code ELSE None

Matrix(symbols, task) ==
    [pair \in ToSet(symbols) \X ToSet(symbols) |->
        Correlation(pair[1] = pair[2], task[pair[1]].history, task[pair[2]].history)]

\* The calculation over the outcomes of a gather that succeeded.
Computed(kind, symbols, task) ==
    LET history(s) == task[s].history
        need  == IF kind = "backtest" THEN LongWindow + 2 ELSE 2
        short == \E s \in ToSet(symbols) : ~ Analysable(history(s), need)
    IN  IF kind \in {"correlations", "drawdowns", "backtest"} /\ short THEN Error("invalid_query")
        ELSE CASE kind = "snapshots"    -> Answered([i \in DOMAIN symbols |->
                                               Snapshot(symbols[i], task[symbols[i]])])
               [] kind = "comparison"   -> Answered(symbols)
               [] kind = "dataset"      -> Answered(history(symbols[1]))
               [] kind = "correlations" -> Answered(Matrix(symbols, task))
               [] kind = "drawdowns"    -> Answered(Drawdowns(AnalysisPrices(history(symbols[1]))))
               [] kind = "backtest"     -> Answered(Backtest(AnalysisPrices(history(symbols[1]))))

\* One task settles.  The first exception answers the request while its other
\* tasks run on; a request already answered ignores the outcome.
Settle(r, s, outcome) ==
    LET task   == [req[r].task EXCEPT ![s] = outcome]
        raised == Raises(req[r].kind, outcome)
        open   == \E t \in DOMAIN task : task[t].is \in {"waiting", "lookup"}
        reply  == IF req[r].reply # None THEN req[r].reply
                  ELSE IF raised # None THEN Error(raised)
                  ELSE IF open THEN None
                  ELSE Computed(req[r].kind, req[r].symbols, task)
    IN  req' = [req EXCEPT ![r].task = task, ![r].reply = reply]

\* What the blocking call can come back with: a company is known if it has a
\* name, a price or a market capitalisation; any other exception is the provider's.
FetchedDataset(raw, query) ==
    LET records == Records(raw, query[2])
    IN  IF records = <<>> THEN NotFound
        ELSE Found([raw |-> raw, records |-> records,
                    urls |-> IF query[1] \in {"filings", "news"} THEN SourceUrls(records) ELSE <<>>])

Answers(request) ==
    {NotFound, Unavailable} \cup
    CASE request.kind = "comparison" -> {Found(None)}
      [] request.kind \in {"drawdowns", "backtest"} -> {FetchedHistory(h) : h \in Histories}
      [] request.kind = "dataset" ->
            {FetchedDataset(raw, request.query) :
                raw \in {d \in Datasets : d.dataset = request.query[1]}}
      [] OTHER -> {FetchedHistory(h) : h \in Samples}

LookupReturns(r, s) ==
    /\ Serves(r, MarketKinds)
    /\ ThreadReturns(<<r, s>>)
    /\ \E outcome \in Answers(req[r]) : Settle(r, s, outcome)

\* Mutant: the deadline starts when a thread takes the lookup.
LookupTimesOutRunning(r, s) ==
    /\ Serves(r, MarketKinds) /\ <<r, s>> \in busy
    /\ Abandon(<<r, s>>)
    /\ Settle(r, s, TimedOut)

\* wait_for raises, whether or not a thread ever took the lookup.
LookupTimesOut(r, s) ==
    /\ Serves(r, MarketKinds) /\ s \in Tasks(r, "lookup")
    /\ Abandon(<<r, s>>)
    /\ Settle(r, s, TimedOut)

LeaveMarket(r) ==
    /\ Serves(r, MarketKinds) /\ req[r].reply # None
    /\ Tasks(r, "waiting") \cup Tasks(r, "lookup") = {}
    /\ req' = [req EXCEPT ![r] = Idle]
    /\ UNCHANGED threadVars

MarketBegins(r) ==
    \/ \E kind \in MarketKinds, asked \in Asks : BeginMarket(r, kind, asked)
    \/ \E query \in Queries, asked \in Asks : BeginDataset(r, query, asked)

MarketStep(r) ==
    \/ StartLookup(r) \/ LeaveMarket(r)
    \/ \E s \in Symbols : LookupReturns(r, s) \/ LookupTimesOut(r, s)
=============================================================================
