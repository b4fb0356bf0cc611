\* Six of eight lines in any order, with an idle tick; the list of spans is kept short.
SPECIFICATION Spec
CONSTANTS
  Lines <- SixLines
  Rules <- TwoRules
  Every = 2
  From = 0
  To = 9
  MaxParts = 1
  MaxOpen = 2
  HoldSlack = 0
  Waits = {2}
  MaxIdle = 1
CHECK_DEADLOCK FALSE
INVARIANT ReplayExact
INVARIANT OnceEach
INVARIANT WindowHonest
PROPERTY FloorRises
