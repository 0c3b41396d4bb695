SPECIFICATION Spec
CONSTANTS
  Token = {t1}
  Handler = {h1, h2}
  CertToken = {}
  Change <- OneChange
  Scope <- OneScope
  SessionLife = 1
  SubLife = 1
  MaxSid = 1
  MaxPush = 1
  None = None
PROPERTIES
  ReconnectKept
