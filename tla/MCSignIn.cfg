SPECIFICATION Spec
CHECK_DEADLOCK FALSE
CONSTANTS
  r1 = r1
  r2 = r2
  r3 = r3
  u1 = u1
  u2 = u2
  t1 = t1
  t2 = t2
  a1 = a1
  mail1 = mail1
  mail2 = mail2
  mail3 = mail3
  nick = nick
  p1 = p1
  p2 = p2
  before = before
  none = none
  Req <- MCReq
  OldUsers <- MCOldUsers
  OldTokens <- MCOldTokens
  OldAttempts <- MCOldAttempts
  Before = before
  Idents <- MCIdents
  Passwords <- MCPasswords
  None = none
  MaxFailures = 2
  MaxGuesses = 2
  Asks <- MCAsks
  Databases <- MCDatabases
  Loads <- MCLoads
INVARIANTS
  TypeOK
  OneSessionPerCode
  FewWrongAnswers
  LockoutComesFirst
  SessionsOnRecord
PROPERTIES
  SpentTokensStaySpent
  EndedSessionsAreOver
  RefusalsOnRecord
  EveryRequestIsAnswered
