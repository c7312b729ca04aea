SPECIFICATION FairSpec
CONSTANTS
  c1 = c1
  c2 = c2
  c3 = c3
  Nobody = Nobody
  Client = {c1, c2, c3}
  Fd = {5, 6}
  MaxThreads = 1
  MaxFailed = 1
  Asks <- MCAsks
CHECK_DEADLOCK FALSE
INVARIANTS JoinsValid PromptSafe 
PROPERTIES AllAccepted
