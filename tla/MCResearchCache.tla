--------------------------- MODULE MCResearchCache ---------------------------
(* Queries, retentions and symmetry for the result cache. *)
EXTENDS ResearchCache, TLC
Query(key, period, relative) ==
    [key |-> key, context |-> FALSE, relative |-> relative,
     class |-> [symbols |-> {"AAPL"}, intents |-> {"company_news"}, times |-> period]]

\* A question, a paraphrase of it, one about another period, one about today.
MCQueries == {Query("news", "1y", FALSE), Query("paraphrase", "1y", FALSE),
              Query("other", "2y", FALSE), Query("today", "1y", TRUE)}
MCEarlier == {Query("news", "1y", FALSE)}
MCRetention == [company_news |-> 1, price_history |-> 2]
MCAnswers == {{}, DOMAIN MCRetention}
Symmetry == Permutations(Requests)
=============================================================================
