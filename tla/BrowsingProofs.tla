--------------------------- MODULE BrowsingProofs ---------------------------
(***************************************************************************)
(* What an answer offers is kept, for every library.  The proof has two    *)
(* halves: every command in an answer is one of a few kinds (Good), and    *)
(* each of these kinds is answered with its object, unless the data are in *)
(* the way.  It is about an answer and its question, which is why the      *)
(* invariant remembers that the answer belongs to what was asked.          *)
(***************************************************************************)
EXTENDS Browsing, TLAPS, WellFoundedInduction

-----------------------------------------------------------------------------
(* The smallest member, and what follows for the record that is found. *)

LEMMA MinIsMember ==
  ASSUME NEW S \in SUBSET Nat, S # {}
  PROVE  Min(S) \in S /\ \A y \in S : Min(S) <= y
<1>1. PICK x \in S : \A y \in S : ~ (<<y, x>> \in OpToRel(<, Nat))
  BY NatLessThanWellFounded, WFMin
<1>2. \A y \in S : x <= y
  <2> TAKE y \in S
  <2>1. <<y, x>> \in Nat \X Nat
    OBVIOUS
  <2>2. ~ (y < x)
    BY <1>1, <2>1 DEF OpToRel
  <2> QED BY <2>2
<1> QED BY <1>2 DEF Min

\* First picks a member, if there is one.
LEMMA FirstIsMember ==
  ASSUME NEW S \in SUBSET (Nat \ {0})
  PROVE  /\ First(S) = 0 <=> S = {}
         /\ S # {} => First(S) \in S
BY MinIsMember DEF First

\* What the library is made of.
LEMMA LibraryType ==
  ASSUME WellFormed(library)
  PROVE  /\ Index \subseteq Nat \ {0} /\ DOMAIN library.series \subseteq Nat \ {0}
         /\ \A i \in Index : /\ Records[i].ticker \in Ticker /\ Records[i].cik \in Number
                            /\ Records[i].aliases \intersect Number = {}
                            /\ Records[i].hint \subseteq Number
         /\ \A i, j \in Index : Records[i].ticker = Records[j].ticker => i = j
         /\ \A s \in AllSeries : s.number \in Number /\ s.ticker \in Ticker
         /\ \A r, s \in AllSeries : r.number = s.number => r = s
<1> DEFINE Record == [ticker : Ticker, cik : Number, aliases : SUBSET (Word \ Number),
                      hint : {{}} \union {{n} : n \in Number}]
           Entry  == [number : Number, ticker : Ticker]
           entries == library.series
<1>1. Records \in Seq(Record)
  BY DEF WellFormed, Records
<1>2. entries \in Seq(Entry)
  BY DEF WellFormed
<1>3. Index \subseteq Nat \ {0} /\ \A i \in Index : Records[i] \in Record
  <2> HIDE DEF Record, Records
  <2> QED BY <1>1 DEF Index
<1>4. DOMAIN entries \subseteq Nat \ {0} /\ \A k \in DOMAIN entries : entries[k] \in Entry
  <2> HIDE DEF Entry, entries
  <2> QED BY <1>2
<1>5. \A i \in Index : Records[i].hint \subseteq Number /\ Records[i].aliases \in SUBSET (Word \ Number)
                     /\ Records[i].ticker \in Ticker /\ Records[i].cik \in Number
  BY <1>3
<1>6. \A i, j \in Index : Records[i].ticker = Records[j].ticker => i = j
  BY DEF WellFormed, Records, Index
<1>7. \A k, m \in DOMAIN entries : entries[k].number = entries[m].number => k = m
  BY DEF WellFormed
<1>8. \A s \in AllSeries : \E k \in DOMAIN entries : s = entries[k]
  BY DEF AllSeries
<1>9. \A i \in Index : Records[i].aliases \intersect Number = {}
  BY <1>5
<1>10. \A s \in AllSeries : s.number \in Number /\ s.ticker \in Ticker
  BY <1>4, <1>8
<1>11. \A r, s \in AllSeries : r.number = s.number => r = s
  BY <1>7, <1>8
<1> QED BY <1>3, <1>4, <1>5, <1>6, <1>9, <1>10, <1>11

LEMMA FoundIsRecord ==
  ASSUME WellFormed(library), NEW q
  PROVE  /\ FindExactly(q) \in Index \union {0}
         /\ FindInstrument(q) \in Index \union {0}
         /\ 0 \notin Index
         /\ FindExactly(q) # 0 => FindInstrument(q) = FindExactly(q)
         /\ FindExactly(q) # 0 => ~ Malformed(q) /\ Identifies(FindExactly(q), Token(q))
<1>0. Index \subseteq Nat \ {0}
  BY LibraryType
<1>1. Matches(Token(q)) \subseteq Index
  BY DEF Matches
<1>2. First(Matches(Token(q))) \in Index \union {0}
  BY <1>0, <1>1, FirstIsMember
<1> DEFINE named == {i \in Index : Identifies(i, Token(q))}
<1>3. First(named) \in named \union {0}
  BY <1>0, FirstIsMember
<1>4. FindExactly(q) = IF Malformed(q) THEN 0 ELSE First(named)
  BY DEF FindExactly
<1>5. FindInstrument(q) \in Index \union {0}
  BY <1>2, <1>3, <1>4 DEF FindInstrument
<1>6. FindExactly(q) # 0 => FindInstrument(q) = FindExactly(q)
  BY <1>4 DEF FindInstrument
<1> QED BY <1>0, <1>3, <1>4, <1>5, <1>6

\* The newest of some series is one of them.
LEMMA NewestIsOne ==
  ASSUME WellFormed(library), NEW S \in SUBSET DOMAIN library.series
  PROVE  /\ S # {} => Newest(S) # {}
         /\ \A s \in Newest(S) : \E k \in S : s = library.series[k]
         /\ Newest(S) \subseteq AllSeries
         /\ \A r, s \in Newest(S) : r = s
<1>1. S \subseteq Nat \ {0}
  BY LibraryType
<1>2. (First(S) = 0 <=> S = {}) /\ (S # {} => First(S) \in S)
  BY <1>1, FirstIsMember
<1>3. {First(S)} \ {0} \subseteq S
  BY <1>2
<1>4. \A s \in Newest(S) : s = library.series[First(S)] /\ First(S) \in S
  BY <1>3 DEF Newest
<1>5. S # {} => library.series[First(S)] \in Newest(S)
  BY <1>1, <1>2 DEF Newest
<1> QED BY <1>4, <1>5 DEF AllSeries

LEMMA CarrierCarries ==
  ASSUME WellFormed(library), NEW t
  PROVE  /\ CarrierOf(t) \subseteq AllSeries
         /\ \A s \in CarrierOf(t) : s.ticker = t
<1> DEFINE S == {k \in DOMAIN library.series : library.series[k].ticker = t}
<1>1. CarrierOf(t) = Newest(S)
  BY DEF CarrierOf
<1>2. \A s \in Newest(S) : \E k \in S : s = library.series[k]
  BY NewestIsOne
<1> QED BY <1>1, <1>2, NewestIsOne

\* The series that are found are series.
LEMMA SeriesAreSeries ==
  ASSUME WellFormed(library), NEW q
  PROVE  /\ \A i : SeriesOf(i) \subseteq AllSeries
         /\ FindSeries(q) \subseteq AllSeries
         /\ FindSeriesAnyhow(q) \subseteq AllSeries
         /\ SearchSeries(q) \subseteq AllSeries
<1>1. \A i : SeriesOf(i) \subseteq AllSeries
  BY CarrierCarries DEF SeriesOf
<1>2. FindSeries(q) \subseteq AllSeries
  <2>1. CASE CikKey(q) # {} \/ q.tag = "ohlcv_series"
    BY <2>1, NewestIsOne DEF FindSeries
  <2>2. CASE CikKey(q) = {} /\ q.tag # "ohlcv_series"
    BY <2>2, CarrierCarries DEF FindSeries
  <2> QED BY <2>1, <2>2
<1>3. FindSeriesAnyhow(q) \subseteq AllSeries
  BY <1>1, <1>2 DEF FindSeriesAnyhow
<1>4. SearchSeries(q) \subseteq AllSeries
  BY <1>3 DEF SearchSeries
<1> QED BY <1>1, <1>2, <1>3, <1>4

-----------------------------------------------------------------------------
(* What is offered, in kinds. *)

InstrumentNamed(t) == [kind |-> "instrument", key |-> t]
ContextNamed(t)    == [kind |-> "context", key |-> t]

InstrumentOffers(t) ==
  {Offer("observe", q, InstrumentNamed(t)) : q \in {Tagged("instrument", t), Plain(t)}} \union
  {Offer(op, Tagged("instrument", t), ContextNamed(t)) : op \in {"discover_equity", "observe_equity"}} \union
  {Offer(op, Plain(t), Nothing) : op \in {"latest", "search_series"}}

SeriesOffers(t, n) ==
  {Offer("observe", Tagged("market_series", t), Series(n))} \union
  {Offer(op, Plain(t), Series(n)) : op \in {"latest", "range", "search_series"}}

FilingOffers(f) ==
  FilingRow(f) \union {x \in {Offer("search_form", Plain(f.key), f)} : f.kind = "form"}

Good(x) ==
  \/ \E t \in Ticker : x \in InstrumentOffers(t)
  \/ \E t \in Ticker, n \in Number : x \in SeriesOffers(t, n)
  \/ \E f \in FilingObjects : x \in FilingOffers(f)

AllGood(S) == \A x \in S : Good(x)

LEMMA RowsAreGood ==
  ASSUME WellFormed(library)
  PROVE  /\ \A s \in AllSeries : AllGood(SeriesRow(s)) /\ AllGood(ObservedSeries(s))
         /\ \A i \in Index : AllGood(InstrumentRow(i)) /\ AllGood(ObservedInstrument(i))
<1>1. \A t \in Ticker : AllGood(InstrumentOffers(t))
  BY DEF AllGood, Good
<1>2. \A t \in Ticker, n \in Number : AllGood(SeriesOffers(t, n))
  BY DEF AllGood, Good
<1>3. ASSUME NEW s \in AllSeries
      PROVE  AllGood(SeriesRow(s)) /\ AllGood(ObservedSeries(s))
  <2>1. SeriesRow(s) \subseteq SeriesOffers(s.ticker, s.number)
    BY DEF SeriesOffers, SeriesRow
  <2>2. ObservedSeries(s) \subseteq SeriesOffers(s.ticker, s.number)
    BY DEF SeriesOffers, SeriesRow, ObservedSeries
  <2>3. AllGood(SeriesOffers(s.ticker, s.number))
    BY <1>2, LibraryType
  <2> QED BY <2>1, <2>2, <2>3 DEF AllGood
<1>4. ASSUME NEW i \in Index
      PROVE  AllGood(InstrumentRow(i)) /\ AllGood(ObservedInstrument(i))
  <2> DEFINE t == Records[i].ticker
  <2>1. t \in Ticker /\ Records[i].hint \subseteq Number
    BY LibraryType
  <2>2. AllGood(InstrumentOffers(t))
    BY <1>1, <2>1
  <2>3. Instrument(i) = InstrumentNamed(t) /\ Context(i) = ContextNamed(t)
    BY DEF Instrument, Context, InstrumentNamed, ContextNamed
  <2>4. ASSUME NEW ops \in SUBSET {"latest", "range", "search_series"}
        PROVE  AllGood(HintRow(i, ops))
    <3>1. \A x \in HintRow(i, ops) : \E n \in Records[i].hint : x \in SeriesOffers(t, n)
      BY DEF HintRow, SeriesOffers
    <3> QED BY <1>2, <2>1, <3>1 DEF AllGood
  <2>5. AllGood(InstrumentRow(i))
    <3>1. \A x \in InstrumentRow(i) : x \in InstrumentOffers(t) \/ x \in HintRow(i, {"latest", "search_series", "range"})
      BY <2>3 DEF InstrumentRow, InstrumentOffers
    <3> QED BY <2>2, <2>4, <3>1 DEF AllGood
  <2>6. AllGood(ObservedInstrument(i))
    <3>1. \A x \in ObservedInstrument(i) :
            \/ x \in InstrumentOffers(t)
            \/ x \in HintRow(i, {"latest", "search_series"})
            \/ \E s \in SeriesOf(i) : x \in SeriesRow(s)
      BY <2>3 DEF ObservedInstrument, InstrumentOffers
    <3> QED BY <1>3, <2>2, <2>4, <3>1, SeriesAreSeries DEF AllGood
  <2> QED BY <2>5, <2>6
<1> QED BY <1>3, <1>4

LEMMA SuggestionsAreGood ==
  ASSUME WellFormed(library), NEW S \in SUBSET Index, NEW T \in SUBSET AllSeries
  PROVE  AllGood(Suggested(S, T))
<1>1. \A i \in S : AllGood(InstrumentRow(i))
  BY RowsAreGood
<1>2. \A s \in T : AllGood(SeriesRow(s))
  BY RowsAreGood
<1>3. \A x \in Suggested(S, T) : \/ \E i \in S : x \in InstrumentRow(i)
                                \/ \E s \in T : x \in SeriesRow(s)
  BY DEF Suggested
<1> QED BY <1>1, <1>2, <1>3 DEF AllGood

LEMMA StartingPointsAreGood == AllGood(StartingPoints)
<1>1. \A f \in [kind : {"form"}, key : HighImpact] : f \in FilingObjects /\ f.kind = "form"
  BY TaxonomyAssumption DEF FilingObjects, Kinds
<1> DEFINE Starts(f) == FilingRow(f) \union {Offer("search_form", Plain(f.key), f)}
<1>2. \A f \in [kind : {"form"}, key : HighImpact] : Starts(f) \subseteq FilingOffers(f)
  BY <1>1 DEF FilingOffers
<1>3. \A x \in StartingPoints : \E f \in [kind : {"form"}, key : HighImpact] : x \in Starts(f)
  BY DEF StartingPoints
<1> QED BY <1>1, <1>2, <1>3 DEF AllGood, Good

LEMMA FilingRowsAreGood ==
  ASSUME NEW S \in SUBSET FilingObjects
  PROVE  AllGood(FilingRows(S).offers)
<1>1. FilingRows(S).offers = UNION {FilingRow(o) : o \in S}
  BY DEF FilingRows, Answer
<1>2. \A x \in UNION {FilingRow(o) : o \in S} : \E o \in S : x \in FilingRow(o)
  OBVIOUS
<1> QED BY <1>1, <1>2 DEF AllGood, Good, FilingOffers

LEMMA FilingsAreFound ==
  ASSUME NEW kind \in {"form", "family", "priority"}, NEW q,
         NEW S \in SearchFilings(kind, q)
  PROVE  S \subseteq FilingObjects
<1>1. [kind : {kind}, key : Kinds[kind]] \subseteq FilingObjects
  BY DEF FilingObjects, Kinds
<1> DEFINE coded == [kind : {kind}, key : {c \in Kinds[kind] : q = Plain(c)}]
<1>2. CASE coded = {}
  BY <1>1, <1>2 DEF SearchFilings
<1>3. CASE coded # {}
  <2>1. \A c \in Kinds[kind] : Amendments[c] \subseteq Kinds[kind]
    BY TaxonomyAssumption DEF Kinds
  <2>2. \A o \in coded : o.key \in Kinds[kind]
    OBVIOUS
  <2>3. UNION {Amendments[o.key] : o \in coded} \subseteq Kinds[kind]
    BY <2>1, <2>2
  <2>4. S = coded \union [kind : {kind}, key : UNION {Amendments[o.key] : o \in coded}]
    BY <1>3 DEF SearchFilings
  <2>5. \A x \in S : x \in [kind : {kind}, key : Kinds[kind]]
    BY <2>3, <2>4
  <2> QED BY <1>1, <2>5
<1> QED BY <1>2, <1>3

\* Every answer offers good commands only.
LEMMA AnswersAreGood ==
  ASSUME WellFormed(library), NEW op \in Operation, NEW q, NEW a \in Answers(op, q)
  PROVE  AllGood(a.offers)
<1> DEFINE i == FindInstrument(q)
<1>1. Matches(q) \subseteq Index /\ SearchSeries(q) \subseteq AllSeries
  BY SeriesAreSeries DEF Matches
<1>2. AllGood(Suggested(Matches(q), SearchSeries(q)))
  BY <1>1, SuggestionsAreGood
<1>3. AllGood(Suggested({}, SearchSeries(q))) /\ AllGood(Suggested(Matches(q), {}))
  BY <1>1, SuggestionsAreGood
<1>4. i # 0 => i \in Index
  BY FoundIsRecord
<1>5. AllGood(ObserveSeries(q).offers)
  BY <1>3, RowsAreGood, SeriesAreSeries DEF ObserveSeries, Answer, AllGood
<1>6. AllGood(EquityContext(q).offers)
  BY <1>3, <1>4, RowsAreGood, StartingPointsAreGood DEF EquityContext, Answer, AllGood
<1>7. CASE op = "observe"
  <2>1. AllGood(NotFoundBut(q).offers)
    BY <1>2 DEF NotFoundBut, Answer
  <2>2. i # 0 => AllGood(Answer({Instrument(i)}, ObservedInstrument(i)).offers)
    BY <1>4, RowsAreGood DEF Answer
  <2>3. a = Observe(q)
    BY <1>7 DEF Answers
  <2> QED BY <1>5, <2>1, <2>2, <2>3 DEF Observe
<1>8. \A s \in AllSeries :
        /\ Good(Offer("range", Plain(s.ticker), Series(s.number)))
        /\ Good(Offer("observe", Plain(s.ticker), [kind |-> "instrument", key |-> s.ticker]))
  <2> TAKE s \in AllSeries
  <2>0. s.ticker \in Ticker /\ s.number \in Number
    BY LibraryType
  <2>1. Offer("range", Plain(s.ticker), Series(s.number)) \in SeriesOffers(s.ticker, s.number)
    BY DEF SeriesOffers
  <2>2. Offer("observe", Plain(s.ticker), [kind |-> "instrument", key |-> s.ticker]) \in InstrumentOffers(s.ticker)
    BY DEF InstrumentOffers, InstrumentNamed
  <2> QED BY <2>0, <2>1, <2>2 DEF Good
<1>9. CASE op = "range"
  <2>1. a = ObserveRange(q)
    BY <1>9 DEF Answers
  <2> QED BY <1>3, <1>8, <2>1, SeriesAreSeries DEF ObserveRange, Answer, AllGood
<1>10. CASE op = "latest"
  <2>1. a = DiscoverLatest(q)
    BY <1>10 DEF Answers
  <2>2. AllGood(NotFoundBut(q).offers)
    BY <1>2 DEF NotFoundBut, Answer
  <2> DEFINE found == FindSeriesAnyhow(q)
             offers == UNION {{Offer("observe", Plain(s.ticker), [kind |-> "instrument", key |-> s.ticker]),
                               Offer("range", Plain(s.ticker), Series(s.number))} : s \in found}
  <2>3. found \subseteq AllSeries
    BY SeriesAreSeries
  <2>4. AllGood(offers)
    <3>1. \A x \in offers : \E s \in found :
            x \in {Offer("observe", Plain(s.ticker), [kind |-> "instrument", key |-> s.ticker]),
                  Offer("range", Plain(s.ticker), Series(s.number))}
      OBVIOUS
    <3> QED BY <1>8, <2>3, <3>1 DEF AllGood
  <2>5. Answer(SeriesIn(found), offers).offers = offers
    BY DEF Answer
  <2>6. a = Answer(SeriesIn(found), offers) \/ a = NotFoundBut(q)
    BY <2>1 DEF DiscoverLatest
  <2> QED BY <2>2, <2>4, <2>5, <2>6
<1>11. CASE op = "search_series"
  <2>1. a = SearchMarketSeries(q)
    BY <1>11 DEF Answers
  <2> QED BY <1>3, <2>1 DEF SearchMarketSeries, Answer
<1>12. CASE op = "search_instruments"
  <2>1. a = SearchInstruments(q)
    BY <1>12 DEF Answers
  <2> QED BY <1>3, <2>1 DEF SearchInstruments, Answer
<1>13. CASE op = "discover_equity"
  <2>1. CASE NamesEquity(q)
    BY <1>6, <1>13, <2>1 DEF Answers, DiscoverEquity
  <2>2. CASE ~ NamesEquity(q)
    <3>1. PICK forms \in SearchFilings("form", q), families \in SearchFilings("family", q),
               priorities \in SearchFilings("priority", q) :
                 a = FilingRows(forms \union families \union priorities)
      BY <1>13, <2>2 DEF Answers, DiscoverEquity
    <3>2. forms \union families \union priorities \subseteq FilingObjects
      BY FilingsAreFound
    <3> QED BY <3>1, <3>2, FilingRowsAreGood
  <2> QED BY <2>1, <2>2
<1>14. CASE op = "observe_equity"
  <2>1. a = ObserveEquity(q)
    BY <1>14 DEF Answers
  <2>2. FilingObject(q) \subseteq FilingObjects
    BY DEF FilingObject
  <2> QED BY <1>6, <2>1, <2>2, FilingRowsAreGood DEF ObserveEquity
<1>15. CASE op \in {"search_form", "search_family", "search_priority"}
  <2>1. PICK kind \in {"form", "family", "priority"} : \E S \in SearchFilings(kind, q) : a = FilingRows(S)
    BY <1>15 DEF Answers
  <2> QED BY <2>1, FilingsAreFound, FilingRowsAreGood
<1> QED BY <1>7, <1>9, <1>10, <1>11, <1>12, <1>13, <1>14, <1>15 DEF Operation

-----------------------------------------------------------------------------
(* What is offered is kept. *)

LEMMA TickerLookup ==
  ASSUME WellFormed(library), NEW t \in Ticker, NEW q \in {Plain(t), Tagged("instrument", t)}
  PROVE  /\ ~ Malformed(q) /\ Token(q) = Plain(t) /\ CikKey(q) = {}
         /\ FindExactly(q) = FindExactly(Plain(t))
         /\ ~ Hidden(t) => \E i \in Index : Records[i].ticker = t /\ FindInstrument(q) = i
<1>1. t \notin Phrase /\ t \notin Number
  BY WordAssumption
<1>2. ~ Malformed(q) /\ Token(q) = Plain(t)
  BY <1>1 DEF Malformed, Token, Plain, Tagged
<1>3. CikKey(q) = {}
  BY <1>1 DEF CikKey, Plain, Tagged
<1>4. ~ Malformed(Plain(t)) /\ Token(Plain(t)) = Plain(t)
  BY <1>1 DEF Malformed, Token, Plain
<1>5. FindExactly(q) = FindExactly(Plain(t))
  BY <1>2, <1>4 DEF FindExactly
<1>6. ASSUME ~ Hidden(t)
      PROVE  \E i \in Index : Records[i].ticker = t /\ FindInstrument(q) = i
  <2>1. PICK i \in Index : Records[i].ticker = t /\ FindExactly(Plain(t)) = i
    BY <1>6 DEF Hidden
  <2>2. i # 0
    BY LibraryType
  <2> QED BY <1>5, <2>1, <2>2, FoundIsRecord
<1> QED BY <1>2, <1>3, <1>5, <1>6

LEMMA SeriesLookup ==
  ASSUME WellFormed(library), NEW t \in Ticker, NEW q \in {Plain(t), Tagged("market_series", t)},
         CarrierOf(t) # {}
  PROVE  /\ FindSeries(q) = CarrierOf(t) /\ FindSeriesAnyhow(q) = CarrierOf(t)
         /\ CarrierOf(t) \subseteq SearchSeries(q)
<1>1. t \notin Phrase /\ t \notin Number
  BY WordAssumption
<1>2. ~ Malformed(q) /\ CikKey(q) = {}
  BY <1>1 DEF Malformed, CikKey, Plain, Tagged
<1>3. FindSeries(q) = CarrierOf(t)
  BY <1>2 DEF FindSeries, Plain, Tagged
<1>4. FindSeriesAnyhow(q) = CarrierOf(t)
  BY <1>3 DEF FindSeriesAnyhow
<1>5. CASE q = Tagged("market_series", t)
  BY <1>2, <1>3, <1>4, <1>5 DEF SearchSeries, Tagged
<1>6. CASE q = Plain(t)
  <2>1. q.tag = "none"
    BY <1>6 DEF Plain
  <2>2. SearchSeries(q) = {s \in AllSeries : q = Plain(s.ticker) \/ <<q, s.number>> \in library.titled}
    BY <1>2, <2>1 DEF SearchSeries
  <2>3. \A s \in CarrierOf(t) : s \in AllSeries /\ s.ticker = t
    BY CarrierCarries
  <2>4. CarrierOf(t) \subseteq SearchSeries(q)
    BY <1>6, <2>2, <2>3
  <2> QED BY <1>3, <1>4, <2>4
<1> QED BY <1>5, <1>6

LEMMA AnswersByOperation ==
  ASSUME NEW q
  PROVE  /\ Answers("observe", q) = {Observe(q)}
         /\ Answers("range", q) = {ObserveRange(q)}
         /\ Answers("latest", q) = {DiscoverLatest(q)}
         /\ Answers("search_series", q) = {SearchMarketSeries(q)}
         /\ Answers("discover_equity", q) = DiscoverEquity(q)
         /\ Answers("observe_equity", q) = {ObserveEquity(q)}
         /\ Answers("search_form", q) = {FilingRows(S) : S \in SearchFilings("form", q)}
BY DEF Answers

Kept(o, a) ==
  o.object # Nothing =>
    \/ o.object \in a.objects
    \/ o.object.kind \in {"instrument", "context"} /\ Hidden(o.object.key)
    \/ o.object.kind = "series" /\ o.object \notin SeriesIn(CarrierOf(o.query.word))
    \/ o.op = "observe_equity" /\ o.object \in FilingObjects /\ FindInstrument(o.query) # 0

LEMMA InstrumentOfferIsKept ==
  ASSUME WellFormed(library), NEW t \in Ticker, NEW o \in InstrumentOffers(t),
         NEW a \in Answers(o.op, o.query)
  PROVE  Kept(o, a)
<1>1. ASSUME NEW q \in {Tagged("instrument", t), Plain(t)}, o = Offer("observe", q, InstrumentNamed(t)), ~ Hidden(t)
      PROVE  InstrumentNamed(t) \in a.objects
  <2>1. PICK i \in Index : Records[i].ticker = t /\ FindInstrument(q) = i
    BY <1>1, TickerLookup
  <2>2. i # 0 /\ q.tag \notin {"market_series", "ohlcv_series"}
    BY LibraryType DEF Tagged, Plain
  <2>3. a = Observe(q)
    BY <1>1, AnswersByOperation DEF Offer
  <2>4. Instrument(i) = InstrumentNamed(t)
    BY <2>1 DEF Instrument, InstrumentNamed
  <2> QED BY <2>1, <2>2, <2>3, <2>4 DEF Observe, Answer
<1>2. ASSUME NEW op \in {"discover_equity", "observe_equity"},
             o = Offer(op, Tagged("instrument", t), ContextNamed(t)), ~ Hidden(t)
      PROVE  ContextNamed(t) \in a.objects
  <2> DEFINE q == Tagged("instrument", t)
  <2>1. PICK i \in Index : Records[i].ticker = t /\ FindInstrument(q) = i
    BY <1>2, TickerLookup
  <2>2. i # 0 /\ NamesEquity(q)
    BY LibraryType DEF NamesEquity, Tagged
  <2>3. a = EquityContext(q)
    BY <1>2, <2>2, AnswersByOperation DEF Offer, DiscoverEquity, ObserveEquity
  <2>4. Context(i) = ContextNamed(t)
    BY <2>1 DEF Context, ContextNamed
  <2> QED BY <2>1, <2>2, <2>3, <2>4 DEF EquityContext, Answer
<1>3. \/ \E q \in {Tagged("instrument", t), Plain(t)} : o = Offer("observe", q, InstrumentNamed(t))
      \/ \E op \in {"discover_equity", "observe_equity"} : o = Offer(op, Tagged("instrument", t), ContextNamed(t))
      \/ \E op \in {"latest", "search_series"} : o = Offer(op, Plain(t), Nothing)
  BY DEF InstrumentOffers
<1>4. o.object \in {InstrumentNamed(t), ContextNamed(t), Nothing}
  BY <1>3 DEF Offer
<1>5. Hidden(t) => Kept(o, a)
  BY <1>4 DEF Kept, InstrumentNamed, ContextNamed
<1> QED BY <1>1, <1>2, <1>3, <1>5 DEF Kept, Offer

LEMMA SeriesOfferIsKept ==
  ASSUME WellFormed(library), NEW t \in Ticker, NEW n \in Number, NEW o \in SeriesOffers(t, n),
         NEW a \in Answers(o.op, o.query)
  PROVE  Kept(o, a)
<1>1. o.object = Series(n) /\ o.object.kind = "series" /\ o.query.word = t
  BY DEF SeriesOffers, Series, Offer, Plain, Tagged
<1>2. CASE Series(n) \notin SeriesIn(CarrierOf(t))
  BY <1>1, <1>2 DEF Kept
<1>3. CASE Series(n) \in SeriesIn(CarrierOf(t))
  <2>1. CarrierOf(t) # {}
    BY <1>3 DEF SeriesIn
  <2>2. CASE o = Offer("observe", Tagged("market_series", t), Series(n))
    <3> DEFINE q == Tagged("market_series", t)
    <3>1. a = Observe(q)
      BY <2>2, AnswersByOperation DEF Offer
    <3>2. q.tag = "market_series"
      BY DEF Tagged
    <3>3. FindSeries(q) = CarrierOf(t)
      BY <2>1, SeriesLookup
    <3>4. a.objects = SeriesIn(CarrierOf(t))
      BY <2>1, <3>1, <3>2, <3>3 DEF Observe, ObserveSeries, Answer
    <3> QED BY <1>1, <1>3, <3>4 DEF Kept
  <2>3. CASE \E op \in {"latest", "range"} : o = Offer(op, Plain(t), Series(n))
    <3>1. a \in {DiscoverLatest(Plain(t)), ObserveRange(Plain(t))}
      BY <2>3, AnswersByOperation DEF Offer
    <3>2. FindSeriesAnyhow(Plain(t)) = CarrierOf(t)
      BY <2>1, SeriesLookup
    <3>3. a.objects = SeriesIn(CarrierOf(t))
      BY <2>1, <3>1, <3>2 DEF DiscoverLatest, ObserveRange, Answer
    <3> QED BY <1>1, <1>3, <3>3 DEF Kept
  <2>4. CASE o = Offer("search_series", Plain(t), Series(n))
    <3>1. a = SearchMarketSeries(Plain(t))
      BY <2>4, AnswersByOperation DEF Offer
    <3>2. CarrierOf(t) \subseteq SearchSeries(Plain(t))
      BY <2>1, SeriesLookup
    <3>3. a.objects = SeriesIn(SearchSeries(Plain(t)))
      BY <3>1 DEF SearchMarketSeries, Answer
    <3>4. Series(n) \in a.objects
      BY <1>3, <3>2, <3>3 DEF SeriesIn
    <3> QED BY <1>1, <3>4 DEF Kept
  <2> QED BY <2>2, <2>3, <2>4 DEF SeriesOffers
<1> QED BY <1>2, <1>3

LEMMA FilingOfferIsKept ==
  ASSUME NEW f \in FilingObjects, NEW o \in FilingOffers(f), NEW a \in Answers(o.op, o.query)
  PROVE  Kept(o, a)
<1>1. f.kind \in {"form", "family", "priority"} /\ f.key \in Kinds[f.kind]
      /\ f = [kind |-> f.kind, key |-> f.key]
  BY DEF FilingObjects, Kinds
<1>2. CASE o = Offer("observe_equity", Tagged(f.kind, f.key), f)
  <2> DEFINE q == Tagged(f.kind, f.key)
  <2>1. a = ObserveEquity(q) /\ o.object = f /\ o.query = q /\ o.op = "observe_equity"
    BY <1>2, AnswersByOperation DEF Offer
  <2>2. CASE FindInstrument(q) # 0
    BY <2>1, <2>2 DEF Kept
  <2>3. CASE FindInstrument(q) = 0
    <3>1. ~ NamesEquity(q)
      BY <1>1, <2>3 DEF NamesEquity, Tagged
    <3>2. f \in FilingObject(q)
      BY <1>1 DEF FilingObject, Tagged
    <3>3. a = FilingRows(FilingObject(q))
      BY <2>1, <3>1 DEF ObserveEquity
    <3>4. f \in a.objects
      BY <3>2, <3>3 DEF FilingRows, Answer
    <3> QED BY <2>1, <3>4 DEF Kept
  <2> QED BY <2>2, <2>3
<1>3. CASE f.kind = "form" /\ o = Offer("search_form", Plain(f.key), f)
  <2> DEFINE q == Plain(f.key)
             coded == [kind : {"form"}, key : {c \in Kinds["form"] : q = Plain(c)}]
  <2>1. PICK S \in SearchFilings("form", q) : a = FilingRows(S)
    BY <1>3, AnswersByOperation DEF Offer
  <2>2. f \in coded
    BY <1>1, <1>3
  <2>3. S = coded \union [kind : {"form"}, key : UNION {Amendments[x.key] : x \in coded}]
    BY <2>2 DEF SearchFilings
  <2>4. f \in a.objects
    BY <2>1, <2>2, <2>3 DEF FilingRows, Answer
  <2> QED BY <1>3, <2>4 DEF Kept, Offer
<1> QED BY <1>2, <1>3 DEF FilingOffers, FilingRow

LEMMA GoodIsKept ==
  ASSUME WellFormed(library), NEW o, Good(o), NEW a \in Answers(o.op, o.query)
  PROVE  Kept(o, a)
BY InstrumentOfferIsKept, SeriesOfferIsKept, FilingOfferIsKept DEF Good

LEMMA GoodQuery ==
  ASSUME NEW o, Good(o)
  PROVE  o.query \in Query /\ o.op \in Operation
<1>1. ASSUME NEW w \in Word, NEW tg \in {"none", "instrument", "market_series", "form", "family", "priority"}
      PROVE  Plain(w) \in Query /\ Tagged(tg, w) \in Query
  BY DEF Plain, Tagged, Query
<1>2. Ticker \subseteq Word
  BY DEF Word
<1>3. \A f \in FilingObjects : f.key \in Word /\ f.kind \in {"form", "family", "priority"}
  BY DEF FilingObjects, Kinds, Word
<1>4. ASSUME NEW t \in Ticker, o \in InstrumentOffers(t)
      PROVE  o.query \in Query /\ o.op \in Operation
  BY <1>1, <1>2, <1>4 DEF InstrumentOffers, Offer, Operation
<1>5. ASSUME NEW t \in Ticker, NEW n \in Number, o \in SeriesOffers(t, n)
      PROVE  o.query \in Query /\ o.op \in Operation
  BY <1>1, <1>2, <1>5 DEF SeriesOffers, Offer, Operation
<1>6. ASSUME NEW f \in FilingObjects, o \in FilingOffers(f)
      PROVE  o.query \in Query /\ o.op \in Operation
  <2>1. o \in FilingRow(f) \/ o = Offer("search_form", Plain(f.key), f)
    BY <1>6 DEF FilingOffers
  <2> QED BY <1>1, <1>3, <2>1 DEF FilingRow, Offer, Operation
<1> QED BY <1>4, <1>5, <1>6 DEF Good

-----------------------------------------------------------------------------
(* Whose prices these are. *)

\* Over data that agree, what a series is about is the company of a record that
\* has its ticker.
LEMMA CompanyOfSeries ==
  ASSUME WellFormed(library), Coherent, NEW s \in AllSeries
  PROVE  \E i \in Index : /\ i \in NamedBy(s.number) /\ Records[i].ticker = s.ticker
                         /\ NamedBy(s.number) = {i}
                         /\ CompanyOf(Series(s.number)) = {Records[i].cik}
<1>1. PICK i \in Index : i \in NamedBy(s.number)
  BY DEF Coherent, NamedBy
<1>2. \A j \in NamedBy(s.number) : j \in Index /\ Records[j].ticker = s.ticker
  BY DEF Coherent, NamedBy
<1>3. NamedBy(s.number) = {i}
  BY <1>1, <1>2, LibraryType
<1>4. \A j \in Index : About(Series(s.number), j) <=> j \in NamedBy(s.number)
  BY DEF About, NamedBy, Series, Instrument
<1>5. {j \in Index : About(Series(s.number), j)} = {i}
  BY <1>1, <1>3, <1>4
<1>6. CompanyOf(Series(s.number)) = {Records[i].cik}
  BY <1>5 DEF CompanyOf
<1> QED BY <1>1, <1>2, <1>3, <1>6

LEMMA CompanyOfInstrument ==
  ASSUME WellFormed(library), NEW i \in Index
  PROVE  CompanyOf(Instrument(i)) = {Records[i].cik}
<1>1. \A j \in Index : About(Instrument(i), j) <=> j = i
  BY LibraryType DEF About, Series, Instrument
<1>2. {j \in Index : About(Instrument(i), j)} = {i}
  BY <1>1
<1> QED BY <1>2 DEF CompanyOf

\* A record that carries the number of an issuer is a record of that issuer.
LEMMA NumberMeansIssuer ==
  ASSUME WellFormed(library), NEW q \in Query, NEW i \in Index,
         ~ Malformed(q), CikKey(q) # {}, Identifies(i, Token(q))
  PROVE  Records[i].cik = q.word
<1> DEFINE c == q.word
           r == Records[i]
<1>1. c \in Number /\ q.tag \in {"none", "issuer", "cik"}
  BY DEF CikKey
<1>2. Token(q) \in {Plain(c), Tagged("issuer", c)}
  BY <1>1 DEF Token, Plain, Tagged, Query
<1>3. CikKey(Token(q)) = {c}
  BY <1>1, <1>2 DEF CikKey, Plain, Tagged
<1>4. r.ticker \notin Number /\ r.aliases \intersect Number = {}
  BY LibraryType, WordAssumption
<1>5. CASE Plain(c) \in Candidates(r)
  <2>1. c \in {r.ticker, r.cik} \union r.aliases
    BY <1>5 DEF Candidates, Plain, Tagged
  <2> QED BY <1>1, <1>4, <2>1
<1>6. CASE Tagged("issuer", c) \in Candidates(r)
  BY <1>6 DEF Candidates, Plain, Tagged
<1> QED BY <1>2, <1>3, <1>5, <1>6 DEF Identifies

\* A record that is found by a word that is a ticker has it for its ticker, if
\* no record has another's ticker for an alias.
LEMMA TickerMeansRecord ==
  ASSUME WellFormed(library), Coherent, NEW q \in Query, NEW i \in Index, NEW k \in Index,
         ~ Malformed(q), CikKey(q) = {}, Identifies(i, Token(q)),
         q.tag \in {"none", "market_series", "instrument"}, Records[k].ticker = q.word
  PROVE  i = k
<1> DEFINE t == q.word
           r == Records[i]
<1>1. t \in Ticker /\ t \notin Number
  BY LibraryType, WordAssumption
<1>2. Token(q) = Plain(t)
  BY DEF Token, Plain, Query
<1>3. CikKey(Plain(t)) = {}
  BY <1>1 DEF CikKey, Plain
<1>4. Plain(t) \in Candidates(r)
  BY <1>2, <1>3 DEF Identifies
<1>5. t \in {r.ticker, r.cik} \union r.aliases
  BY <1>4 DEF Candidates, Plain, Tagged
<1>6. t # r.cik
  BY <1>1, LibraryType
<1>7. CASE t = r.ticker
  BY <1>7, LibraryType
<1>8. CASE t \in r.aliases
  BY <1>8 DEF Coherent
<1> QED BY <1>5, <1>6, <1>7, <1>8

LEMMA SeriesOfTheCompany ==
  ASSUME WellFormed(library), Coherent, NEW q \in Query, FindExactly(q) # 0,
         NEW s \in FindSeriesAnyhow(q)
  PROVE  CompanyOf(Series(s.number)) = {Records[FindExactly(q)].cik}
<1> DEFINE i == FindExactly(q)
<1>1. i \in Index /\ Identifies(i, Token(q)) /\ FindInstrument(q) = i /\ ~ Malformed(q)
  BY FoundIsRecord
<1>2. s \in AllSeries
  BY SeriesAreSeries
<1>3. PICK k \in Index : /\ k \in NamedBy(s.number) /\ Records[k].ticker = s.ticker
                        /\ NamedBy(s.number) = {k}
                        /\ CompanyOf(Series(s.number)) = {Records[k].cik}
  BY <1>2, CompanyOfSeries
<1>4. CASE s \in SeriesOf(i)
  <2>1. s.ticker = Records[i].ticker
    BY <1>4, CarrierCarries DEF SeriesOf
  <2> QED BY <1>1, <1>3, <2>1, LibraryType
<1>5. CASE s \in FindSeries(q) /\ CikKey(q) # {}
  <2> DEFINE ofIssuer == {m \in DOMAIN library.series :
                           \E j \in NamedBy(library.series[m].number) : Records[j].cik = q.word}
  <2>1. s \in Newest(ofIssuer)
    BY <1>1, <1>5 DEF FindSeries
  <2>2. PICK m \in ofIssuer : s = library.series[m]
    BY <2>1, NewestIsOne
  <2>3. Records[k].cik = q.word
    BY <1>3, <2>2
  <2>4. Records[i].cik = q.word
    BY <1>1, <1>5, NumberMeansIssuer
  <2> QED BY <1>3, <2>3, <2>4
<1>6. CASE s \in FindSeries(q) /\ CikKey(q) = {}
  <2>1. q.tag # "ohlcv_series"
    <3> SUFFICES ASSUME q.tag = "ohlcv_series" PROVE FALSE
      OBVIOUS
    <3>1. Token(q) = q
      BY DEF Token
    <3>2. q \in Candidates(Records[i])
      BY <1>1, <1>6, <3>1 DEF Identifies
    <3> QED BY <3>2 DEF Candidates, Plain, Tagged
  <2>2. q.tag \in {"none", "market_series", "instrument"} /\ s \in CarrierOf(q.word)
    BY <1>1, <1>6, <2>1 DEF FindSeries
  <2>3. Records[k].ticker = q.word
    BY <1>3, <2>2, CarrierCarries
  <2>4. i = k
    BY <1>1, <1>6, <2>2, <2>3, TickerMeansRecord
  <2> QED BY <1>3, <2>4
<1> QED BY <1>1, <1>4, <1>5, <1>6 DEF FindSeriesAnyhow

LEMMA PricesAreOfTheCompany ==
  ASSUME WellFormed(library), Coherent, NEW q \in Query, FindExactly(q) # 0,
         NEW op \in {"observe", "range", "latest"}, NEW a \in Answers(op, q), NEW o \in a.objects
  PROVE  CompanyOf(o) = {Records[FindExactly(q)].cik}
<1> DEFINE i == FindExactly(q)
<1>1. i \in Index /\ FindInstrument(q) = i
  BY FoundIsRecord
<1>2. FindSeries(q) \subseteq FindSeriesAnyhow(q)
  BY DEF FindSeriesAnyhow
<1>3. CASE \E s \in FindSeriesAnyhow(q) : o = Series(s.number)
  BY <1>3, SeriesOfTheCompany
<1>4. CASE o = Instrument(i)
  BY <1>1, <1>4, CompanyOfInstrument
<1>5. a \in {Observe(q), ObserveRange(q), DiscoverLatest(q)}
  BY AnswersByOperation
<1>6. \/ a.objects = {Instrument(i)} \/ a.objects = {}
      \/ a.objects = SeriesIn(FindSeries(q)) \/ a.objects = SeriesIn(FindSeriesAnyhow(q))
  BY <1>1, <1>5 DEF Observe, ObserveSeries, ObserveRange, DiscoverLatest, NotFoundBut, Answer
<1> QED BY <1>2, <1>3, <1>4, <1>6 DEF SeriesIn

-----------------------------------------------------------------------------
(* The session. *)

BrowsingInv ==
  /\ library \in Library
  /\ AllGood(answer.offers)
  /\ OfferIsKept
  /\ PriceIsOfThatCompany

\* The library stays, and with it everything that is looked up in it.
LEMMA LibraryStays ==
  ASSUME library' = library
  PROVE  /\ Records' = Records /\ Index' = Index
         /\ \A t : CarrierOf(t)' = CarrierOf(t)
         /\ \A q : FindExactly(q)' = FindExactly(q)
         /\ \A q : FindInstrument(q)' = FindInstrument(q)
         /\ \A t : Hidden(t)' <=> Hidden(t)
         /\ \A o : CompanyOf(o)' = CompanyOf(o)
         /\ Coherent' <=> Coherent
<1>1. Records' = Records /\ Index' = Index /\ AllSeries' = AllSeries
  BY DEF Records, Index, AllSeries
<1>2. \A i, q : Identifies(i, q)' <=> Identifies(i, q)
  BY <1>1 DEF Identifies
<1>3. \A t : CarrierOf(t)' = CarrierOf(t)
  BY DEF CarrierOf, Newest
<1>4. \A q : FindExactly(q)' = FindExactly(q)
  <2> TAKE q
  <2>1. {i \in Index : Identifies(i, Token(q))}' = {i \in Index : Identifies(i, Token(q))}
    BY <1>1, <1>2
  <2> QED BY <2>1 DEF FindExactly
<1>5. \A q : Matches(q)' = Matches(q)
  BY <1>1, <1>2 DEF Matches
<1>6. \A q : FindInstrument(q)' = FindInstrument(q)
  BY <1>4, <1>5 DEF FindInstrument
<1>7. \A t : Hidden(t)' <=> Hidden(t)
  BY <1>1, <1>4 DEF Hidden
<1>8. \A o : CompanyOf(o)' = CompanyOf(o)
  BY <1>1 DEF CompanyOf, About, Instrument
<1>9. Coherent' <=> Coherent
  BY <1>1 DEF Coherent, NamedBy
<1> QED BY <1>1, <1>3, <1>4, <1>6, <1>7, <1>8, <1>9

LEMMA InitEstablishes == Init => BrowsingInv
<1> SUFFICES ASSUME Init PROVE BrowsingInv
  OBVIOUS
<1>1. library \in Library
  BY LibraryAssumption DEF Init
<1>2. asked.op = "nothing" /\ asked.object = Nothing /\ answer.offers = {}
  BY DEF Init, Offer, Answer
<1> QED BY <1>1, <1>2 DEF BrowsingInv, AllGood, OfferIsKept, PriceIsOfThatCompany

\* An answer to a good question, whoever asks it.
LEMMA AnswerIsFine ==
  ASSUME BrowsingInv, library' = library, asked'.op \in Operation, asked'.query \in Query,
         answer' \in Answers(asked'.op, asked'.query), Kept(asked', answer')
  PROVE  BrowsingInv'
<1>1. WellFormed(library)
  BY LibraryAssumption DEF BrowsingInv
<1>2. AllGood(answer'.offers)
  BY <1>1, AnswersAreGood
<1>3. AllGood(answer.offers)'
  BY <1>2 DEF AllGood, Good
<1>4. OfferIsKept'
  BY LibraryStays DEF Kept, OfferIsKept
<1>5. PriceIsOfThatCompany'
  <2> DEFINE i == FindExactly(asked'.query)
  <2>1. Coherent /\ i # 0 /\ asked'.op \in {"observe", "range", "latest"} =>
          \A o \in answer'.objects : CompanyOf(o) = {Records[i].cik}
    BY <1>1, PricesAreOfTheCompany
  <2> QED BY <2>1, LibraryStays DEF PriceIsOfThatCompany
<1> QED BY <1>3, <1>4, <1>5 DEF BrowsingInv

LEMMA NextPreserves == BrowsingInv /\ [Next]_vars => BrowsingInv'
<1> SUFFICES ASSUME BrowsingInv, [Next]_vars PROVE BrowsingInv'
  OBVIOUS
<1>1. WellFormed(library)
  BY LibraryAssumption DEF BrowsingInv
<1>2. CASE UNCHANGED lookupVars
  <2>1. library' = library /\ asked' = asked /\ answer' = answer
    BY <1>2 DEF lookupVars
  <2> QED BY <2>1, LibraryStays DEF BrowsingInv, OfferIsKept, AllGood, Good, PriceIsOfThatCompany
<1>3. CASE Enquire
  <2>1. PICK op \in Operation, q \in Query : asked' = Offer(op, q, Nothing) /\ answer' \in Answers(op, q)
    BY <1>3 DEF Enquire
  <2>2. asked'.op = op /\ asked'.query = q /\ asked'.object = Nothing /\ library' = library
    BY <1>3, <2>1 DEF Enquire, Offer
  <2> QED BY <2>1, <2>2, AnswerIsFine DEF Kept
<1>4. CASE Follow
  <2>1. PICK offer \in answer.offers : asked' = offer /\ answer' \in Answers(offer.op, offer.query)
    BY <1>4 DEF Follow
  <2>2. Good(offer) /\ library' = library
    BY <1>4, <2>1 DEF BrowsingInv, AllGood, Follow
  <2>3. offer.op \in Operation /\ offer.query \in Query /\ Kept(offer, answer')
    BY <1>1, <2>1, <2>2, GoodQuery, GoodIsKept
  <2> QED BY <2>1, <2>2, <2>3, AnswerIsFine
<1> QED BY <1>2, <1>3, <1>4 DEF Next, vars

\* Whatever the library holds, an offered command is one that the operations
\* give, and what it is answered with is fine.
THEOREM BrowsingInductive == Spec => []BrowsingInv
<1> QED BY InitEstablishes, NextPreserves, PTL DEF Spec

\* An identifier that one connector emits means the same to the other, unless
\* the bundled data give it another meaning (find_instrument,
\* find_market_series, observe_any).
THEOREM OffersAreKept == Spec => []OfferIsKept
<1>1. BrowsingInv => OfferIsKept
  BY DEF BrowsingInv
<1> QED BY <1>1, BrowsingInductive, PTL

\* Over data that agree, no text leads from an identifier to the prices of
\* another company (find_market_series and its callers).
THEOREM PricesAreRight == Spec => []PriceIsOfThatCompany
<1>1. BrowsingInv => PriceIsOfThatCompany
  BY DEF BrowsingInv
<1> QED BY <1>1, BrowsingInductive, PTL

=============================================================================
