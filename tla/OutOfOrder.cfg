SPECIFICATION BothSpec
CONSTANTS
    Null = Null
    NoRow = NoRow
    Events <- MCEvents
    PrimaryKey = 2
INVARIANTS
    HoldsKeyWinner
    SinksAgree
    StatementNewest
PROPERTIES
    ImplementsLWW
    RedeliveryKeepsTime
