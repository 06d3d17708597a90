SPECIFICATION Spec
CONSTANTS
    Id = {1}
    Handler = {h1, h2}
    Value = {"v"}
    Entry = {1}
    NoEntry = NoEntry
    Run = {c1}
    MaxTriggers = 2
    MaxWrites = 2
    Faults = {"start", "persist", "preload", "query"}
    Client = {k1, k2}
    Password = {p, q}
    MaxAccountRequests = 3
    Legacy = {1, 2}
    Domain = {"d1", "d2"}
    MaxListings = 3
    MaxFetches = 4
SYMMETRY Symmetry
INVARIANT TypeOK
INVARIANT ConfigFollowsTable
INVARIANT ShownIsStored
INVARIANT OutcomeMatchesInstant
INVARIANT MissingMeansDown
INVARIANT FactorIsWhole
INVARIANT FactorAsTold
INVARIANT PasswordAsGiven
INVARIANT LegacyPreserved
INVARIANT RangesApplied
PROPERTY DeletedStaysDeleted
CHECK_DEADLOCK FALSE
