SPECIFICATION FairSpec
CONSTANTS
  Notification = {n1}
  Analysis = {a1}
  Sweep = Sweep
  Step = {s1}
  Worker = {w1, w2}
  SmtpConfigured = {w1}
  AiConfigured = {w1}
  MaxCalls = 1
  MaxBeats = 1
  MaxDeaths = 1
  Outside = Outside
  None = None
INVARIANTS
  TypeOK
  NotForgotten
  MailsAreAccountedFor
PROPERTIES
  DecisionsStand
  ImplementsOutcomes
  EveryTaskEnds
CHECK_DEADLOCK FALSE
