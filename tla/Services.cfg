SPECIFICATION FairSpec
CONSTANTS
    NoValue = NoValue
INVARIANTS
    TypeOK
    WindowRespected
    ClosedInOrder
    BarsAgree
    NothingLost
    Accounted
    ReplayAgrees
PROPERTIES
    TradesNeverPay
    NeverOlder
    Corrected
    StopsFire
    AsksAgain
    Resubscribed
    PortfolioShown
CHECK_DEADLOCK FALSE
