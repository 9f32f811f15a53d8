CONSTANTS
    MaxSent = 4
SPECIFICATION FairSpec
INVARIANTS
    InArrivalOrder
    ReportsUnderAcceptedTokens
    NoTokenLeftOpen
    EndsAsTheClientSaid
PROPERTIES
    EveryRequestSettled
    ExitEndsTheSession
