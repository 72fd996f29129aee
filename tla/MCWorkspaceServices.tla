------------------------ MODULE MCWorkspaceServices ------------------------
(* Two request slots over one thread; two tickers, four spellings.  An        *)
(* analysis may meet every history of five points over three prices that     *)
(* starts at the middle one, so that it can rise and fall from there;        *)
(* a batch or a matrix meets the few histories its code tells apart, and a   *)
(* dataset request one or two answers of each shape.                         *)
EXTENDS WorkspaceServices, TLC

CONSTANTS AAPL, MSFT

MCNormalForm == ("aapl" :> AAPL) @@ ("AAPL" :> AAPL) @@ ("msft" :> MSFT) @@ ("?" :> Invalid)

MCAsks == {<<"AAPL">>, <<"msft", "AAPL", "aapl">>, <<"?">>}

Point(date, close, adjusted) == [date |-> date, close |-> close, adjusted |-> adjusted]

MCHistories ==
    {[i \in 1 .. 5 |-> Point(i, prices[i], prices[i])] : prices \in
        {f \in [1 .. 5 -> 1 .. 3] : f[1] = 2}}

MCSamples == {
    <<Point(1, 1, 1), Point(2, 2, None), Point(3, 3, 1)>>,    \* raw closes, rising
    <<Point(1, 2, 1), Point(3, 2, 1)>>,                       \* flat, one date missing
    <<Point(1, None, None), Point(2, 2, 2)>>,                 \* one usable row
    <<Point(1, 0, 1), Point(3, 1, 2)>>,                       \* a zero raw close
    <<Point(2, None, None)>>}                                 \* no usable row

MCQueries == {<<"statements", "yearly">>, <<"ratios", "">>, <<"estimates", "">>,
              <<"filings", 2>>, <<"news", 1>>, <<"ownership", 1>>, <<"insiders", 1>>,
              <<"ownership", 2>>, <<"news", 0>>}

Entry(mapping, url) == [mapping |-> mapping, url |-> url]

MCDatasets == {
    [dataset |-> "statements", income |-> {1, 3}, balance |-> {2, 3}, cash |-> {}],
    [dataset |-> "statements", income |-> {}, balance |-> {}, cash |-> {}],
    [dataset |-> "ratios", info |-> [m \in {"trailing_pe", "debt_to_equity"} |-> 50]],
    [dataset |-> "ratios", info |-> [m \in {"payout_ratio"} |-> 1]],
    [dataset |-> "ratios", info |-> <<>>],
    [dataset |-> "estimates", earnings |-> <<"0q", "1q">>, revenue |-> <<"1q", "0y">>,
        targets |-> TRUE],
    [dataset |-> "filings",
        entries |-> <<Entry(TRUE, "u"), Entry(TRUE, "u"), Entry(TRUE, "v")>>],
    [dataset |-> "filings", entries |-> <<Entry(FALSE, ""), Entry(TRUE, "v")>>],
    [dataset |-> "news", entries |-> <<Entry(FALSE, ""), Entry(TRUE, "")>>],
    [dataset |-> "ownership", known |-> FALSE, holders |-> <<>>],
    [dataset |-> "ownership", known |-> FALSE, holders |-> <<"fund", "bank">>],
    [dataset |-> "ownership", known |-> TRUE, holders |-> <<>>],
    [dataset |-> "insiders", rows |-> <<"sale", "grant">>],
    [dataset |-> "insiders", rows |-> <<"sale">>]}
=============================================================================
