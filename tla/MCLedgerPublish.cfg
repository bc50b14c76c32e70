SPECIFICATION LiveLedgerSpec
CONSTANTS
  m1 = m1
  m2 = m2
  x1 = x1
  x2 = x2
  e1 = e1
  Maps = {m1}
  EventOf <- MCEventOf
  ScoreOf <- MCScoreOf
  Question <- MCQuestion
  Markets = {x1, x2}
  Chances = {30}
  Inside = {"bench"}
  Enabled = {"bench"}
  Outside = {"cli"}
  Graders = {}
  PublishLimit = 1
  GradeLimit = 1
  PollLimit = 1
  MinScore = 60
  MinPoints = 2
  MaxDay = 2
  MaxOutsideRuns = 1
  MaxIncidents = 1
  Verdicts = {"materialized", "failed"}
  Old = {e1}
  Newsworthy = {}
  Closing <- MCClosing
  Relabelled = {}
  Idle = Idle
INVARIANTS LedgerIsSound
PROPERTIES EveryMarketGraded
CHECK_DEADLOCK FALSE
