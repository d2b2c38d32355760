CONSTANTS
  Caller = {g1, g2}
  NoCaller = nobody
  MaxTokens = 3
SPECIFICATION FairSpec
INVARIANTS RenewsOnlyExpired AnswerIsFresh NeverLockedOut
PROPERTY CallsReturn
