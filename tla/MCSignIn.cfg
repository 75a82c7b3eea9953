SPECIFICATION FairSpec
CONSTANTS
  MaxSignIns = 2
  Handlers = {h1, h2}
  Passwords = {p1, p2}
  FirstPassword = p1
  NoPassword = NoPassword
  UserBurst = 1
  UserRefill = 2
  AddressBurst = 2
  AddressRefill = 1
  SweepIdle = 2
  MaxVerifications = 2
  LockAfter = 2
  LockBase = 2
  LockCeiling = 3
  MaxExponent = 1
  TransactionTTL = 1
  CodeTTL = 1
  SessionTTL = 1
  MaxTime = 3
  MaxCommands = 1
INVARIANTS
  LockEndsByItself
  OnlyARehashUndoesAChange
  AttemptsAreBounded
  OneSessionPerSignIn
PROPERTIES
  LockIsNeverExtended
  EveryRequestIsAnswered
CHECK_DEADLOCK FALSE
