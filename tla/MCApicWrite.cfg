SPECIFICATION Spec
CONSTANTS
  Dn <- MCDn
  Rn <- MCRn
  Class <- MCClass
  Val <- MCVal
  Default <- MCDefault
  NodeDn <- IdNodeDn
  Body <- MCBody
  Target <- MCTarget
  Blank = ""
  LeafName = "b"
  Unset = Unset
  NoMO = NoMO
CONSTRAINT
  OneAtATime
VIEW
  StoreOnly
INVARIANT
  RepushIdle
PROPERTIES
  MalformedUntouched
  ReportTruthful
  MirrorFollows
  ReactionsFire
  DeletePushExact
