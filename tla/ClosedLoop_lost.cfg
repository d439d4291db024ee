SPECIFICATION FairSpec
CONSTANTS
    Base <- MCBase
    Floor <- MCFloor
    Startup <- MCStartup
    Backlog = 2
    Faults = {"lost"}
    Clicking = FALSE
    Watch = {"video"}
PROPERTIES BlackEnds
