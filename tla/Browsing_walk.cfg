\* Any list of three entries, walked in pages of one or two while the directory
\* changes twice; any enquiry, and any chain of offered commands after it.  A walk
\* ends, and an answer may offer nothing: then nothing more happens.
SPECIFICATION Spec
CONSTANTS
    Name <- Names
    Times <- Mtimes
    MaxLimit = 2
    MaxChanges = 2
    Ticker <- Tickers2
    Number <- Numbers
    Former <- Formers
    Phrase <- Phrases
    Form <- Forms
    Family = {"ANNUAL"}
    Priority = {"low"}
    Amendments <- AmendmentOf
    HighImpact <- Starters
    Library <- Libraries
INVARIANTS
    UntouchedIsNotMissed
    RemovalsDoNotRepeat
    FollowedPageIsAnswered
    OfferIsKept
    PriceIsOfThatCompany
PROPERTY
    WalkEnds
CHECK_DEADLOCK FALSE
