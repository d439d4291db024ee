SPECIFICATION FairSpec
CONSTANTS
    Base <- MCBase
    Floor <- MCFloor
    Ratios = {0, 45, 80}
    PubIdles = {0, 2000, 5000}
    Gaps = {3000}
INVARIANTS TypeOK HonestState SlowUp
PROPERTIES ImplementsLadder Recovers CongestionEscalates
