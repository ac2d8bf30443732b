SPECIFICATION FairSpec
CONSTANTS
    aave = aave
    m1 = m1
    m2 = m2
    pm = pm
    pn = pn
    pp = pp
    Absent = Absent
    Protocols = {aave}
    MarketsOf <- TheMarkets
    ScopeOf <- TheScopes
    Profiles = {pm, pn, pp}
    Given <- TheProfiles
    WeightSets <- TheWeights
    Reports <- TheReports
    Manuals <- TheManuals
    Concurrency = 1
    Tries = 2
    MaxTicks = 1
    MaxEdits = 1
INVARIANTS TypeOK MarketsAccounted WeightsInForce PdIsProbability
PROPERTIES TickEnds
\* The ticks and the edits are bounded.
CHECK_DEADLOCK FALSE
