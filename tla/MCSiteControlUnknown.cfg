SPECIFICATION ControlSpec
CONSTANTS
  Topo <- MCTopo
  Unbuildable <- MCUnbuildable
  NoFile = NoFile
  Controllers = 1
  Switch = {4}
  MaxId = 6
  Name = {nm}
  MaxVersion = 2
  Unknown = Unknown
  MaxChange = 2
  Absent = Absent
PROPERTIES
  ForeignRefused
