SPECIFICATION FairSpec
CONSTANTS
  Threads = {s1, s2}
  FailMax = 1
  MaxCodes = 2
  MaxTokens = 3
  MaxFaults = 1
INVARIANTS
  TypeOK
  FailuresBounded
  CaptchaOnce
  SessionsEnd
  ActsAsItself
PROPERTY LockoutLifts
