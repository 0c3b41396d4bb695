SPECIFICATION Spec
CONSTANTS
  Index <- MCIndex
  Composite <- MCComposite
  Simulated = {"1", "2"}
  Device = {"d", "e"}
  Invalid = {"bad"}
  Playbook <- MCPlaybook
INVARIANTS
  ShadowsUnique
PROPERTIES
  RequestsMean
  RedirectsUniform
  DevicesWereThere
