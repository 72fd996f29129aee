------------------------- MODULE FundamentalDatasets -------------------------
(***************************************************************************)
(* The seven record sets src/app/providers/yahoo.py makes of what the      *)
(* Yahoo client answers.  An answer is a record [dataset, ...] of what the *)
(* client's calls returned; the records are a sequence, and an empty one   *)
(* is an unknown symbol.  Field values are abstract: what is kept is which *)
(* records there are, from which source, in which order.                   *)
(***************************************************************************)
EXTENDS Integers, Sequences, SequencesExt

CONSTANT StatementPeriods   \* newest periods a statement set reports

Newest(s, n) == SubSeq(s, 1, Min({n, Len(s)}))

\* The newest periods of the three statements together; a statement without
\* the period has no values in that record.
Statements(income, balance, cash) ==
    LET periods == Newest(SetToSortSeq(income \cup balance \cup cash, >), StatementPeriods)
    IN  [i \in DOMAIN periods |->
            [period |-> periods[i], income |-> periods[i] \in income,
             balance |-> periods[i] \in balance, cash |-> periods[i] \in cash]]

RatioGroups == <<
    [category |-> "valuation", metrics |->
        {"trailing_pe", "forward_pe", "price_to_sales", "price_to_book",
         "enterprise_to_revenue", "enterprise_to_ebitda", "peg_ratio"}],
    [category |-> "profitability_and_returns", metrics |->
        {"gross_margin", "operating_margin", "profit_margin", "return_on_assets",
         "return_on_equity"}],
    [category |-> "liquidity_and_leverage", metrics |->
        {"current_ratio", "quick_ratio", "debt_to_equity"}],
    [category |-> "growth_and_yield", metrics |->
        {"revenue_growth", "earnings_growth", "dividend_yield", "payout_ratio"}]>>

\* A metric is the number Yahoo has for it, as <<numerator, denominator>>, or
\* nothing, <<>>; Yahoo states debt to equity in percentage points.
Metric(info, m) ==
    IF m \notin DOMAIN info THEN <<>>
    ELSE <<info[m], IF m = "debt_to_equity" THEN 100 ELSE 1>>

\* Every group is a record, whatever it has, if any of them has a number.
Ratios(info) ==
    LET records == [i \in DOMAIN RatioGroups |->
                       [category |-> RatioGroups[i].category,
                        metrics  |-> [m \in RatioGroups[i].metrics |-> Metric(info, m)]]]
    IN  IF \A i \in DOMAIN records : \A m \in DOMAIN records[i].metrics :
               records[i].metrics[m] = <<>>
        THEN <<>> ELSE records

\* One record per period of either estimate, then the price targets.
Estimates(earnings, revenue, targets) ==
    LET periods == earnings \o SelectSeq(revenue, LAMBDA p : ~ Contains(earnings, p))
        rows == [i \in DOMAIN periods |->
                    [period |-> periods[i], earnings |-> Contains(earnings, periods[i]),
                     revenue |-> Contains(revenue, periods[i])]]
    IN  IF targets
        THEN Append(rows, [period |-> "price_targets", earnings |-> FALSE, revenue |-> FALSE])
        ELSE rows

\* Filings and news drop malformed entries after the limit is applied.
WellFormed(entries, limit) == SelectSeq(Newest(entries, limit), LAMBDA entry : entry.mapping)

SourceUrls(records) ==
    FoldLeft(LAMBDA urls, record :
                 IF record.url = "" \/ Contains(urls, record.url) THEN urls
                 ELSE Append(urls, record.url),
             <<>>, records)

\* The summary is a record of its own, worth reporting without holders only
\* if one of its numbers is known.
Ownership(known, holders, limit) ==
    IF ~ known /\ holders = <<>> THEN <<>> ELSE <<"summary">> \o Newest(holders, limit)

\* What a dataset accepts as its frequency or limit.
LegalArgument(dataset, argument) ==
    CASE dataset = "statements" -> argument \in {"yearly", "quarterly"}
      [] dataset \in {"filings", "news", "ownership", "insiders"} -> argument \in 1 .. 20
      [] OTHER -> TRUE

Records(raw, argument) ==
    CASE raw.dataset = "statements" -> Statements(raw.income, raw.balance, raw.cash)
      [] raw.dataset = "ratios"     -> Ratios(raw.info)
      [] raw.dataset = "estimates"  -> Estimates(raw.earnings, raw.revenue, raw.targets)
      [] raw.dataset \in {"filings", "news"} -> WellFormed(raw.entries, argument)
      [] raw.dataset = "ownership"  -> Ownership(raw.known, raw.holders, argument)
      [] raw.dataset = "insiders"   -> Newest(raw.rows, argument)
=============================================================================
