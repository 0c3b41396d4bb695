SPECIFICATION Spec
CONSTANTS
  Token = {t1, t2}
  Handler = {h1, h2}
  CertToken = {t2}
  Change <- MCChange
  Scope <- MCScope
  SessionLife = 2
  SubLife = 1
  MaxSid = 2
  MaxPush = 2
  None = None
INVARIANTS
  TypeOK
  RegisteredAlive
  EventsForOwner
  InCommitOrder
PROPERTIES
  ExpiredStaysExpired
  LogoutIsFinal
  PushComplete
SYMMETRY Symmetry
