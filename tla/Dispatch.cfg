SPECIFICATION FairSpec
CONSTANTS
    Notes = {n1, n2}
    Poison = {n1}
    NoNote = NoNote
    MaxAttempts = 2
    BatchSize = 2
    DbTries = 2
    DispatchTries = 2
    MaxFaults = 4
INVARIANTS IInv TypeOK SentWasDelivered DeliveriesBounded BudgetAccounted
PROPERTIES SettledIsFinal ImplementsQueue EveryRowSettles
