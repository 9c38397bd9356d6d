------------------------------- MODULE Lookup -------------------------------
(***************************************************************************)
(* How the stock hub finds what an identifier names: the instruments and   *)
(* series of market_data_gateway, and the filing taxonomy of               *)
(* equity_filing, which looks at instruments first.  An identifier is a    *)
(* word behind a tag such as `instrument:` or `form:`, or a plain word.    *)
(*                                                                         *)
(* The library is the bundled data.  What a text search would find in it,  *)
(* names, exchanges, dates and sources, is any set of records.             *)
(***************************************************************************)
EXTENDS Naturals, Sequences, FiniteSets, FiniteSetsExt

CONSTANTS Ticker,       \* ticker symbols
          Number,       \* numbers, of issuers and of series
          Former,       \* symbols that are no ticker now, and other one-word names
          Phrase,       \* texts of several words
          Form, Family, Priority,   \* the codes of the taxonomy
          Amendments,   \* the amendments of a code, which has at most one
          HighImpact    \* the forms that every company is said to begin with

Word == Ticker \union Number \union Former \union Phrase \union Form \union Family \union Priority

ASSUME WordAssumption == Ticker \intersect Phrase = {} /\ Ticker \intersect Number = {}

Query == [tag : {"none", "instrument", "ticker", "market_series", "issuer", "cik", "ohlcv_series",
                 "form", "family", "priority"},
          word : Word]

Plain(w)      == [tag |-> "none", word |-> w]
Tagged(tg, w) == [tag |-> tg, word |-> w]

VARIABLE library    \* records: the instruments in list order, each with its ticker, the number of
                    \*   its issuer, its aliases and, in hint, the number of its series if it has one
                    \* series: the series with their numbers and latest tickers, newest data first
                    \* mentions: which query matches the text of which record
                    \* titled: which query matches the text of the series of which number

\* What a library may hold.  The ticker is part of the id of an instrument, so
\* that load_all_instruments keeps one record for each; the number is the key of
\* a series.  Nothing ties the two together: a hint may name no series, a series
\* may carry another ticker than the records that name it, or the ticker of
\* another series, and no record may name it.
WellFormed(l) ==
  /\ l.records \in Seq([ticker : Ticker, cik : Number, aliases : SUBSET (Word \ Number),
                        hint : {{}} \union {{n} : n \in Number}])
  /\ \A i, j \in DOMAIN l.records : l.records[i].ticker = l.records[j].ticker => i = j
  /\ l.series \in Seq([number : Number, ticker : Ticker])
  /\ \A k, m \in DOMAIN l.series : l.series[k].number = l.series[m].number => k = m

Records == library.records
Index   == DOMAIN Records
AllSeries == {library.series[k] : k \in DOMAIN library.series}

-----------------------------------------------------------------------------
(* Identifiers. *)

Malformed(q) ==
  \/ q.tag \in {"instrument", "ticker", "market_series"} /\ q.word \in Phrase
  \/ q.tag \in {"issuer", "cik", "ohlcv_series"} /\ q.word \notin Number

\* _query_cik_key: the number of an issuer, if the query is one.
CikKey(q) ==
  IF q.tag \in {"none", "issuer", "cik"} /\ q.word \in Number THEN {q.word} ELSE {}

\* _instrument_lookup_token of a well-formed query.
Token(q) ==
  IF q.tag \in {"instrument", "ticker", "market_series", "cik"} THEN Plain(q.word) ELSE q

Candidates(r) ==
  {Tagged("instrument", r.ticker), Tagged("issuer", r.cik)} \union
  {Plain(w) : w \in {r.ticker, r.cik} \union r.aliases}

Identifies(i, q) ==
  q \in Candidates(Records[i]) \/ \E c \in CikKey(q) : Plain(c) \in Candidates(Records[i])

\* None is 0.
First(S) == IF S = {} THEN 0 ELSE Min(S)

\* find_instrument_exact
FindExactly(q) == IF Malformed(q) THEN 0 ELSE First({i \in Index : Identifies(i, Token(q))})

-----------------------------------------------------------------------------
(* The search for instruments. *)

\* match_instrument: the fields that hold the query as a whole, and any text.
Matches(q) ==
  IF Malformed(q) THEN {}
  ELSE {i \in Index : Identifies(i, q)} \union {i \in Index : <<q, i>> \in library.mentions}

\* Mutation check of FindInstrument: the text search decides alone.
FindInstrumentByText(q) == IF Malformed(q) THEN 0 ELSE First(Matches(Token(q)))

\* find_instrument.  What no record carries as a whole is found by its text,
\* and the best match is whichever: the model numbers the matches as they rank.
FindInstrument(q) ==
  IF Malformed(q) THEN 0
  ELSE IF FindExactly(q) # 0 THEN FindExactly(q) ELSE First(Matches(Token(q)))

-----------------------------------------------------------------------------
(* The search for series. *)

\* The newest of some series, at their places in the library.
Newest(S) == {library.series[k] : k \in {First(S)} \ {0}}

\* The series that now carries a ticker, and that of a record by its ticker.
CarrierOf(t) == Newest({k \in DOMAIN library.series : library.series[k].ticker = t})
SeriesOf(i)  == IF i = 0 THEN {} ELSE CarrierOf(Records[i].ticker)

\* The records that name a series, which is how it comes by an issuer.
NamedBy(n) == {i \in Index : n \in Records[i].hint}

\* find_market_series
FindSeries(q) ==
  IF Malformed(q) THEN {}
  ELSE IF CikKey(q) # {}
  THEN Newest({k \in DOMAIN library.series :
                 \E i \in NamedBy(library.series[k].number) : Records[i].cik = q.word})
  ELSE IF q.tag = "ohlcv_series"
  THEN Newest({k \in DOMAIN library.series : library.series[k].number = q.word})
  ELSE IF q.tag \in {"none", "market_series", "instrument"} THEN CarrierOf(q.word)
  ELSE {}

\* Mutation check of FindSeriesAnyhow: the detour takes the first text match.
FindSeriesByText(q) == IF FindSeries(q) # {} THEN FindSeries(q) ELSE SeriesOf(First(Matches(q)))

\* The detour over the instrument that the callers of find_market_series take.
FindSeriesAnyhow(q) ==
  IF FindSeries(q) # {} THEN FindSeries(q) ELSE SeriesOf(FindInstrument(q))

\* search_market_series
SearchSeries(q) ==
  IF Malformed(q) THEN {}
  ELSE IF q.tag \in {"market_series", "ohlcv_series", "instrument", "issuer", "cik"} \/ CikKey(q) # {}
  THEN FindSeriesAnyhow(q)
  ELSE {s \in AllSeries : q = Plain(s.ticker) \/ <<q, s.number>> \in library.titled}

-----------------------------------------------------------------------------
(* The taxonomy. *)

Kinds == [form |-> Form, family |-> Family, priority |-> Priority]

ASSUME TaxonomyAssumption ==
  /\ \A k \in DOMAIN Kinds : \A c \in Kinds[k] : Amendments[c] \subseteq Kinds[k]
  /\ HighImpact \subseteq Form

FilingObjects == UNION {[kind : {k}, key : Kinds[k]] : k \in DOMAIN Kinds}

\* The part of observe_any behind its look at the instruments: any identifier
\* that is none of the other kinds is read as a form, with or without its tag.
FilingObject(q) ==
  LET kind == IF q.tag = "none" THEN "form" ELSE q.tag
  IN  {o \in FilingObjects : o.kind = kind /\ o.key = q.word}

\* search_forms, search_families and search_priority_buckets: a whole code
\* finds its row, and a form its amendment; anything else finds what its text
\* matches.
SearchFilings(kind, q) ==
  LET coded == [kind : {kind}, key : {c \in Kinds[kind] : q = Plain(c)}]
  IN  IF coded = {} THEN SUBSET [kind : {kind}, key : Kinds[kind]]
      ELSE {coded \union [kind : {kind}, key : UNION {Amendments[o.key] : o \in coded}]}

\* observe_any and discover_with_query ask for an instrument before anything
\* else, and find one by text, too.
NamesEquity(q) == q.tag \in {"instrument", "issuer"} \/ FindInstrument(q) # 0

=============================================================================
