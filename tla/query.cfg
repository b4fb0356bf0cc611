\* Seven rows, of which three are written, fourteen queries, a change of width or retention.
SPECIFICATION Spec
CONSTANTS
  Pool <- SomeRows
  Queries <- SomeQueries
  Info <- Gauge
  Widths = {0, 5}
  Retentions = {0, 20}
  DefaultWidth = 36
  Instants = {0, 60}
  MaxSeries = 2
  MaxPoints <- NoCeiling
  DefaultLimit = 3
  Slack = 1
  PadWidth = 2
  Scale = 12
  MaxRows = 3
  MaxChange = 1
CHECK_DEADLOCK FALSE
INVARIANT AnswerExact
INVARIANT LimitExact
INVARIANT DrawnHonest
INVARIANT BreaksShown
PROPERTY YoungKept
