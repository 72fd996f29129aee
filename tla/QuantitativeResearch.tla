------------------------ MODULE QuantitativeResearch ------------------------
(***************************************************************************)
(* The calculations of src/app/services/quantitative_research.py over      *)
(* normalized price histories, kept as the single passes the code makes.   *)
(* Prices are integers and a ratio is a pair <<numerator, denominator>>    *)
(* compared by cross multiplication, so that nothing rounds.  A history is *)
(* a sequence of points [date, close, adjusted].                           *)
(***************************************************************************)
EXTENDS Integers, Sequences, FiniteSets, SequencesExt

CONSTANTS
    ShortWindow,  \* the two moving-average windows of the backtest
    LongWindow,
    None          \* a value that is absent

ASSUME WindowsAssumption ==
    ShortWindow \in Nat /\ LongWindow \in Nat /\ 2 <= ShortWindow /\ ShortWindow < LongWindow

\* One field for the whole history: adjusted closes only if every point has one.
AnalysisPrices(h) ==
    IF \A i \in DOMAIN h : h[i].adjusted # None
    THEN [i \in DOMAIN h |-> h[i].adjusted]
    ELSE [i \in DOMAIN h |-> h[i].close]

Analysable(h, minimum) ==
    Len(h) >= minimum /\ \A i \in DOMAIN h : AnalysisPrices(h)[i] > 0

Below(x, y) == x[1] * y[2] < y[1] * x[2]

(***************************************************************************)
(* Drawdowns: one pass that carries the running peak and the worst fall    *)
(* below it, then the first point after the trough back at that peak.      *)
(***************************************************************************)
Drawdowns(values) ==
    LET Step(s, i) ==
            LET peakAt == IF values[i] > values[s.running] THEN i ELSE s.running
                depth  == <<values[i], values[peakAt]>>
            IN  IF Below(depth, s.worst)
                THEN [running |-> peakAt, worst |-> depth, peakAt |-> peakAt, troughAt |-> i]
                ELSE [s EXCEPT !.running = peakAt]
        pass == FoldLeftDomain(Step,
                    [running |-> 1, worst |-> <<1, 1>>, peakAt |-> 1, troughAt |-> 1], values)
        back == {i \in pass.troughAt + 1 .. Len(values) : values[i] >= values[pass.peakAt]}
    IN  [worst |-> pass.worst, peakAt |-> pass.peakAt, troughAt |-> pass.troughAt,
         recoveredAt |-> IF back = {} THEN None ELSE Min(back)]

\* _sma: a rolling sum that drops the value leaving the window; here the sums,
\* None until the window is full.
RollingSums(values, window) ==
    LET rolling[i \in 0 .. Len(values)] ==
            IF i = 0 THEN 0
            ELSE rolling[i - 1] + values[i] - (IF i > window THEN values[i - window] ELSE 0)
    IN  [i \in DOMAIN values |-> IF i >= window THEN rolling[i] ELSE None]

(***************************************************************************)
(* The long-or-cash backtest: the position held into a point is the signal *)
(* of the point before it.  Equity before costs is the product of the      *)
(* price ratios held; each change of position pays the cost once.          *)
(***************************************************************************)
Signals(values) ==
    LET short == RollingSums(values, ShortWindow)
        long  == RollingSums(values, LongWindow)
    IN  [i \in DOMAIN values |->
            IF long[i] # None /\ short[i] * LongWindow > long[i] * ShortWindow THEN 1 ELSE 0]

\* Mutant: the signal of the point itself, without the lag.
PositionAtClose(values, i) == Signals(values)[i]

PositionAt(values, i) == Signals(values)[i - 1]

Backtest(values) ==
    LET Step(s, i) ==
            IF i = 1 THEN s
            ELSE LET position == PositionAt(values, i)
                     changed  == position # s.position
                 IN  [positions |-> Append(s.positions, position),
                      position  |-> position,
                      equity    |-> IF position = 1
                                    THEN <<s.equity[1] * values[i], s.equity[2] * values[i - 1]>>
                                    ELSE s.equity,
                      entries   |-> s.entries + (IF changed /\ position = 1 THEN 1 ELSE 0),
                      exits     |-> s.exits + (IF changed /\ position = 0 THEN 1 ELSE 0),
                      trades    |-> s.trades + (IF changed THEN 1 ELSE 0)]
    IN  FoldLeftDomain(Step,
            [positions |-> <<0>>, position |-> 0, equity |-> <<1, 1>>,
             entries |-> 0, exits |-> 0, trades |-> 0], values)

(***************************************************************************)
(* Correlation of two histories: prices are aligned on their common dates  *)
(* before returns are taken.  Only whether a coefficient exists is kept:   *)
(* 1 for a symbol with itself, None without two common dates or without    *)
(* variance.                                                               *)
(***************************************************************************)
Dates(h) == {h[i].date : i \in DOMAIN h}

AlignedPrices(h, dates) ==
    LET price(d) == AnalysisPrices(h)[CHOOSE i \in DOMAIN h : h[i].date = d]
        sorted   == SetToSortSeq(dates, <)
    IN  [i \in DOMAIN sorted |-> price(sorted[i])]

Varies(prices) ==
    \E i, j \in 1 .. Len(prices) - 1 :
        prices[i + 1] * prices[j] # prices[j + 1] * prices[i]

Correlation(same, left, right) ==
    LET common == Dates(left) \cap Dates(right)
        l == AlignedPrices(left, common)
        r == AlignedPrices(right, common)
        returns == IF Len(l) = 0 THEN 0 ELSE Len(l) - 1
    IN  [observations |-> returns,
         spans |-> [i \in 1 .. returns |-> <<l[i], l[i + 1], r[i], r[i + 1]>>],
         value |-> CASE same /\ returns > 0         -> "one"
                     [] Cardinality(common) < 2     -> None
                     [] Varies(l) /\ Varies(r)      -> "pearson"
                     [] OTHER                       -> None]
=============================================================================
