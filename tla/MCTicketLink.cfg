SPECIFICATION TicketSpec
CONSTANTS
  Markets = {"home", "draw", "over"}
  Group <- Groups
  Link = {"home", "draw"}
  Earlier = {{"home", "over"}}
  Quotes = {1, 2}
  MaxEdits = 2
  MaxFaults = 1
INVARIANTS OneLegPerQuestion
CHECK_DEADLOCK FALSE
