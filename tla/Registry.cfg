SPECIFICATION Spec
CONSTANTS
    Standalone = {"ATL@GB"}
    Matches = {"ARS-CHE"}
    Sides = {"home", "draw"}
    MaxActive = 3
    StandaloneMax = 1
    Deadline = 1
    Horizon = 1
    MinWindow = 1
    Back = 0
    MinLeft = 1
    Kickoffs = {1}
    MaxTime = 2
INVARIANTS ResultsAreReported VenuesWithinBudget
PROPERTIES OpenLegsStayListed
CHECK_DEADLOCK FALSE
