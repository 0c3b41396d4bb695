SPECIFICATION Spec
CONSTANTS
  Sid = {s1, s2}
  Seeded = {s1}
  SeedDoc <- MCSeedDoc
  Tmpl <- MCTmpl
  Patcher = {p, q}
  Ref = {r1, r2, r3, r4}
  Batch <- OneName
  MaxLen = 1
  None = None
SYMMETRY Symmetry
INVARIANTS
  DetailBacked
  QuietExact
