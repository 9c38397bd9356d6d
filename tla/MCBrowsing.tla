----------------------------- MODULE MCBrowsing -----------------------------
(***************************************************************************)
(* Three entries in a directory and two modification times; for the        *)
(* lookups, two companies, or one with two share classes, of which the     *)
(* first may have had the ticker of the second, and up to two series that  *)
(* may or may not be theirs.                                               *)
(***************************************************************************)
EXTENDS Browsing

Names == 0 .. 2
Mtimes == 0 .. 1

Tickers2 == {"A", "B"}
Numbers  == {"1", "2"}
Formers  == {"Z"}
Phrases  == {"z z"}
Forms    == {"K", "K/A"}
Starters == {"K"}
AmendmentOf == [c \in Forms \union {"ANNUAL", "low"} |-> IF c = "K" THEN {"K/A"} ELSE {}]

Instrument2(t, c, als, h) == [ticker |-> t, cik |-> c, aliases |-> als, hint |-> h]
Series2(n, t) == [number |-> n, ticker |-> t]

\* What the text of the library says to a company's name, to a word nobody
\* has as an identifier, and to the code of a form.
Texts == {{}, {<<Plain("z z"), 1>>, <<Plain("z z"), 2>>},
          {<<Plain("A"), 2>>, <<Plain("B"), 1>>, <<Tagged("instrument", "B"), 1>>},
          {<<Tagged("form", "K"), 2>>, <<Plain("ANNUAL"), 1>>},
          {<<Plain("1"), 2>>, <<Tagged("ohlcv_series", "2"), 1>>}}

Titles == {{}, {<<Plain("z z"), "1">>, <<Plain("Z"), "2">>}}

\* Hints and series: none; one each, of which either is the newer; one that the
\* second record lacks, or names in vain; a series that was renamed; one whose
\* ticker the other carries, too; one that no record, or that every record names.
Links == {[hints |-> <<{}, {}>>, series |-> <<>>],
          [hints |-> <<{"1"}, {"2"}>>, series |-> <<Series2("1", "A"), Series2("2", "B")>>],
          [hints |-> <<{"2"}, {"1"}>>, series |-> <<Series2("1", "B"), Series2("2", "A")>>],
          [hints |-> <<{"1"}, {}>>, series |-> <<Series2("1", "A")>>],
          [hints |-> <<{"1"}, {"2"}>>, series |-> <<Series2("2", "B")>>],
          [hints |-> <<{"1"}, {}>>, series |-> <<Series2("1", "B")>>],
          [hints |-> <<{"1"}, {"2"}>>, series |-> <<Series2("2", "A"), Series2("1", "A")>>],
          [hints |-> <<{}, {}>>, series |-> <<Series2("2", "B")>>],
          [hints |-> <<{"1"}, {"1"}>>, series |-> <<Series2("1", "B")>>]}

\* The texts of records and those of series are searched apart from each other.
Searched == {x \in Texts \X Titles : x[1] = {} \/ x[2] = {}}

Libraries ==
  {[records |-> <<Instrument2("A", "1", als, k.hints[1]), Instrument2("B", c, {}, k.hints[2])>>,
    series |-> k.series, mentions |-> x[1], titled |-> x[2]] :
     als \in {{}, {"Z"}, {"B"}}, c \in Numbers, k \in Links, x \in Searched}

=============================================================================
