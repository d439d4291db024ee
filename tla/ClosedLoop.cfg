SPECIFICATION Spec
CONSTANTS
    Base <- MCBase
    Floor <- MCFloor
    Startup <- MCStartup
    Backlog = 2
    Faults = {"lost", "late", "error", "restart"}
    Clicking = TRUE
    Watch = {"size", "video"}
INVARIANTS InForce ButtonHonest
