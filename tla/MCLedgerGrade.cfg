SPECIFICATION LiveLedgerSpec
CONSTANTS
  m1 = m1
  m2 = m2
  x1 = x1
  x2 = x2
  e1 = e1
  Maps = {m1, m2}
  EventOf <- MCEventOf
  ScoreOf <- MCScoreOf
  Question <- MCQuestion
  Markets = {}
  Chances = {30}
  Inside = {"bench", "cloud"}
  Enabled = {"bench"}
  Outside = {}
  Graders = {"g1", "g2"}
  PublishLimit = 1
  GradeLimit = 1
  PollLimit = 1
  MinScore = 60
  MinPoints = 2
  MaxDay = 1
  MaxOutsideRuns = 1
  MaxIncidents = 1
  Verdicts = {"materialized", "failed"}
  Old = {}
  Newsworthy = {e1}
  Closing = {}
  Relabelled = {e1}
  Idle = Idle
PROPERTIES BookSpec GradeIsEarned EveryForecastPublished
CHECK_DEADLOCK FALSE
