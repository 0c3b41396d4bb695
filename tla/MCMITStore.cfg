SPECIFICATION Spec
CONSTANTS
  Dn <- MCDn
  Rn <- MCRn
  Class = {fvX}
  Val = {v1}
  Unset = Unset
  NoMO = NoMO
INVARIANTS
  IndexInv
  RoundTripExact
PROPERTIES
  NoReordering
  AbsSpec
