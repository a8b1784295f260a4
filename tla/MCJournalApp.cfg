CONSTANTS
  Clients = {c1, c2}
  MaxOps = 3
  MaxTicks = 2
  Timer = timer
  None = none
SPECIFICATION FairSpec
INVARIANTS AnswerMatchesJournal CrashesMatchJournal
PROPERTIES RegisterSpec RequestsEnd
CHECK_DEADLOCK FALSE
