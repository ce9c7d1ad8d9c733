CONSTANTS
  q1 = q1
  q2 = q2
  c1 = c1
  r1 = r1
  r2 = r2
  Replicas <- MCReplicas
  Requests <- MCRequests
  Crons <- MCCrons
  Home <- MCHome
  Editor = r1
  FirstRules <- MCFirstRules
  LastHour = 2
  DayHours = 2
  Rules <- MCRules
  MaxUpsets = 1
SPECIFICATION Spec
SYMMETRY MCTwins
CONSTRAINT MCUnexcused
INVARIANTS
  OneMail
  MailFollowsLog
  AlertDue
  UsageIsReported
  UsageFollows
  RulesFollow
CHECK_DEADLOCK FALSE
