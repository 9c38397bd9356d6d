\* Every reading of references and words over eight configurations, and
\* every prefix of up to three global flags.
SPECIFICATION Spec
CONSTANTS
    Unset = Unset
    Domain <- Domains
    Name <- Names
    Dash <- Dashes
    Long <- Longs
    Inline <- Inlines
    Numeral <- Numerals
    Artifact = "handle"
    Result = "result"
    ConnectorMax = 3
    Cases <- AllCases
INVARIANTS
    PrefixIsUnambiguous
    AuditPredictsRouting
    MovesLeadOut
    SynonymsAgree
    PlanIsChecked
    AdapterReadsWhatWasChecked
CHECK_DEADLOCK FALSE
