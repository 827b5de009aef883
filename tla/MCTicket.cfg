SPECIFICATION FairSpec
CONSTANTS
  Markets = {"home", "draw", "over"}
  Group <- Groups
  Link = {}
  Earlier = {{"home", "over"}}
  Quotes = {1, 2}
  MaxEdits = 2
  MaxFaults = 1
INVARIANTS ShownIsMinted MintedOnce MintsRemembered
PROPERTIES SlipsAreAnswered
CHECK_DEADLOCK FALSE
