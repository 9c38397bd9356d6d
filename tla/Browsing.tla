------------------------------ MODULE Browsing ------------------------------
(***************************************************************************)
(* What an agent does at the read side of the connectors.  It walks along  *)
(* a list (Listing), or asks one of the operations that look something up  *)
(* (Lookup), and then follows the commands that the answers offer, from    *)
(* one connector to the other.                                             *)
(***************************************************************************)
EXTENDS Listing, Lookup

CONSTANT Library    \* bound of the model: the data that may be bundled

ASSUME LibraryAssumption == Library # {} /\ \A l \in Library : WellFormed(l)

VARIABLES asked,    \* the operation and its query, and what was offered under it
          answer    \* the objects in the answer and the commands it offers

lookupVars == <<library, asked, answer>>
vars == <<listingVars, lookupVars>>

Instrument(i) == [kind |-> "instrument", key |-> Records[i].ticker]
Context(i)    == [kind |-> "context", key |-> Records[i].ticker]
Series(n)     == [kind |-> "series", key |-> n]
Nothing       == [kind |-> "nothing", key |-> "nothing"]

InstrumentsIn(S) == {Instrument(i) : i \in S}
SeriesIn(S)      == {Series(s.number) : s \in S}

Offer(op, q, object) == [op |-> op, query |-> q, object |-> object]

-----------------------------------------------------------------------------
(* What the answers offer. *)

\* _market_series_projection
SeriesRow(s) == {Offer("observe", Tagged("market_series", s.ticker), Series(s.number))}

\* What a record has to offer about its series: by its own ticker, and whether
\* or not the series that the hint names can be found by it.
HintRow(i, ops) ==
  {Offer(op, Plain(Records[i].ticker), Series(n)) : op \in ops, n \in Records[i].hint} \union
  {Offer("observe", Tagged("market_series", Records[i].ticker), Series(n)) : n \in Records[i].hint}

\* public_instrument
InstrumentRow(i) ==
  LET t == Records[i].ticker
  IN  {Offer("observe", Tagged("instrument", t), Instrument(i)),
       Offer("discover_equity", Tagged("instrument", t), Context(i)),
       Offer("search_series", Plain(t), Nothing)}
      \union HintRow(i, {"latest", "search_series", "range"})

Suggested(S, T) == (UNION {InstrumentRow(i) : i \in S}) \union (UNION {SeriesRow(s) : s \in T})

\* The next moves of an instrument that is observed, which replace those of the
\* row; the commands for the record itself and for its series stay.
ObservedInstrument(i) ==
  LET t == Records[i].ticker
  IN  {Offer("observe", Tagged("instrument", t), Instrument(i)),
       Offer("discover_equity", Tagged("instrument", t), Context(i)),
       Offer("observe_equity", Tagged("instrument", t), Context(i)),
       Offer("latest", Plain(t), Nothing), Offer("search_series", Plain(t), Nothing)}
      \union HintRow(i, {"latest", "search_series"})
      \union (UNION {SeriesRow(s) : s \in SeriesOf(i)})

ObservedSeries(s) ==
  SeriesRow(s) \union {Offer(op, Plain(s.ticker), Series(s.number)) : op \in {"latest", "range"}}

FilingRow(o) == {Offer("observe_equity", Tagged(o.kind, o.key), o)}

\* The forms a company's context begins with: their rows, and searches for some.
StartingPoints ==
  UNION {FilingRow(f) \union {Offer("search_form", Plain(f.key), f)} : f \in [kind : {"form"}, key : HighImpact]}

-----------------------------------------------------------------------------
(* The operations.  Each yields the answers it may give. *)

Answer(objects, offers) == [objects |-> objects, offers |-> offers]

\* What is not found, with the candidates that are offered instead.
NotFoundBut(q) == Answer({}, Suggested(Matches(q), SearchSeries(q)))

\* market_series_observation, which takes no detour over the instrument.
ObserveSeries(q) ==
  IF FindSeries(q) # {}
  THEN Answer(SeriesIn(FindSeries(q)), UNION {ObservedSeries(s) : s \in FindSeries(q)})
  ELSE Answer({}, Suggested({}, SearchSeries(q)))

\* instrument_observation without a range.
Observe(q) ==
  LET i == FindInstrument(q)
  IN  IF q.tag \in {"market_series", "ohlcv_series"} THEN ObserveSeries(q)
      ELSE IF i # 0 THEN Answer({Instrument(i)}, ObservedInstrument(i))
      ELSE IF FindSeries(q) # {} THEN ObserveSeries(q)
      ELSE NotFoundBut(q)

\* market_series_range_observation
ObserveRange(q) ==
  LET found == FindSeriesAnyhow(q)
  IN  IF found # {}
      THEN Answer(SeriesIn(found), {Offer("range", Plain(s.ticker), Series(s.number)) : s \in found})
      ELSE Answer({}, Suggested({}, SearchSeries(q)))

\* latest_price_discovery, whose answer leads to the instrument.
DiscoverLatest(q) ==
  LET found == FindSeriesAnyhow(q)
  IN  IF found # {}
      THEN Answer(SeriesIn(found),
                  UNION {{Offer("observe", Plain(s.ticker), [kind |-> "instrument", key |-> s.ticker]),
                          Offer("range", Plain(s.ticker), Series(s.number))} : s \in found})
      ELSE NotFoundBut(q)

\* market_series_search_payload
SearchMarketSeries(q) ==
  LET found == SearchSeries(q)
  IN  Answer(SeriesIn(found), Suggested({}, found))

\* instrument_search_payload
SearchInstruments(q) == Answer(InstrumentsIn(Matches(q)), Suggested(Matches(q), {}))

\* equity_context_payload
EquityContext(q) ==
  LET i == FindInstrument(q)
  IN  IF i # 0 THEN Answer({Context(i)}, InstrumentRow(i) \union StartingPoints) ELSE Answer({}, Suggested(Matches(q), {}))

FilingRows(S) == Answer(S, UNION {FilingRow(o) : o \in S})

\* discover_with_query
DiscoverEquity(q) ==
  IF NamesEquity(q) THEN {EquityContext(q)}
  ELSE {FilingRows(forms \union families \union priorities) :
          forms \in SearchFilings("form", q), families \in SearchFilings("family", q),
          priorities \in SearchFilings("priority", q)}

\* observe_any
ObserveEquity(q) == IF NamesEquity(q) THEN EquityContext(q) ELSE FilingRows(FilingObject(q))

Operation == {"observe", "range", "latest", "search_series", "search_instruments",
              "discover_equity", "observe_equity", "search_form", "search_family", "search_priority"}

\* main of the two adapters.
Answers(op, q) ==
  CASE op = "observe"            -> {Observe(q)}
    [] op = "range"              -> {ObserveRange(q)}
    [] op = "latest"             -> {DiscoverLatest(q)}
    [] op = "search_series"      -> {SearchMarketSeries(q)}
    [] op = "search_instruments" -> {SearchInstruments(q)}
    [] op = "discover_equity"    -> DiscoverEquity(q)
    [] op = "observe_equity"     -> {ObserveEquity(q)}
    [] op = "search_form"        -> {FilingRows(S) : S \in SearchFilings("form", q)}
    [] op = "search_family"      -> {FilingRows(S) : S \in SearchFilings("family", q)}
    [] op = "search_priority"    -> {FilingRows(S) : S \in SearchFilings("priority", q)}

-----------------------------------------------------------------------------
(* An agent that looks something up is at no list. *)
AtNoList ==
  /\ surface = "instruments" /\ spaced = FALSE /\ wanted = {} /\ barred = {}
  /\ there = TRUE /\ present = {} /\ mtime = [n \in Name |-> 0]
  /\ phase = "idle" /\ listed = {} /\ stated = {} /\ keys = [n \in Name |-> 0]
  /\ limit = 1 /\ cursor = 0 /\ seen = [n \in Name |-> 0] /\ walk = "ended"
  /\ steady = {} /\ receded = FALSE /\ advanced = FALSE /\ changes = 0

Init ==
  /\ asked = Offer("nothing", Plain(CHOOSE w \in Word : TRUE), Nothing)
  /\ answer = Answer({}, {})
  /\ \/ ListingInit /\ library = CHOOSE l \in Library : TRUE
     \/ AtNoList /\ library \in Library

Enquire ==
  /\ AtNoList /\ asked.op = "nothing"
  /\ \E op \in Operation, q \in Query :
       asked' = Offer(op, q, Nothing) /\ answer' \in Answers(op, q)
  /\ UNCHANGED <<listingVars, library>>

Follow ==
  /\ \E offer \in answer.offers :
       asked' = offer /\ answer' \in Answers(offer.op, offer.query)
  /\ UNCHANGED <<listingVars, library>>

Next == (ListingNext /\ UNCHANGED lookupVars) \/ Enquire \/ Follow

Spec == Init /\ [][Next]_vars /\ ListingFairness

-----------------------------------------------------------------------------
(* Properties of what is looked up. *)

\* No record has this ticker, or it is an alias of a record before that one.
Hidden(t) == \A i \in Index : Records[i].ticker = t => FindExactly(Plain(t)) # i

\* A command that an answer offers for an object is answered with that object,
\* whichever connector answers it and whatever else in the library the words of
\* the identifier would match: the identifiers one connector emits mean the same
\* to the other, and a whole identifier wins against any text (public_instrument,
\* _market_series_projection, latest_price_discovery, form_projection on one
\* side, find_instrument, find_market_series and observe_any on the other).
\* There are three exceptions.  A record is looked up by tickers and aliases
\* alike, so that a former symbol of an earlier record hides its ticker, and a
\* series may carry a ticker that no record has.  A series is offered by the
\* hint of a record but looked up by the ticker in the command, which another
\* series may carry, or none.  And the identifier of a form is looked up among
\* the instruments first, where its text may match some company.
OfferIsKept ==
  asked.object # Nothing =>
    \/ asked.object \in answer.objects
    \/ asked.object.kind \in {"instrument", "context"} /\ Hidden(asked.object.key)
    \/ asked.object.kind = "series" /\ asked.object \notin SeriesIn(CarrierOf(asked.query.word))
    \/ asked.op = "observe_equity" /\ asked.object \in FilingObjects /\ FindInstrument(asked.query) # 0

\* Records and series agree: every series is named by a record, each record that
\* names one has the ticker it carries, and no ticker is an alias of another
\* record.  The loader checks none of it; the bundled data are so.
Coherent ==
  /\ \A s \in AllSeries : NamedBy(s.number) # {}
  /\ \A s \in AllSeries : \A i \in NamedBy(s.number) : Records[i].ticker = s.ticker
  /\ \A i, j \in Index : i # j => Records[i].ticker \notin Records[j].aliases

About(o, i) == o = Instrument(i) \/ \E n \in Records[i].hint : o = Series(n)

CompanyOf(o) == {Records[i].cik : i \in {j \in Index : About(o, j)}}

\* Over data that agree, a price is a price of the company that was asked for: if
\* the identifier is some record's, by its ticker, its former ticker or the number
\* of its issuer, then every series the answer is about is a series of that
\* company, even where it takes the detour over the instrument, and whatever the
\* text of the identifier would match (find_market_series and its callers).
PriceIsOfThatCompany ==
  LET i == FindExactly(asked.query)
  IN  Coherent /\ i # 0 /\ asked.op \in {"observe", "range", "latest"} =>
        \A o \in answer.objects : CompanyOf(o) = {Records[i].cik}

=============================================================================
