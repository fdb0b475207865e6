SPECIFICATION Spec
CONSTANTS
  a = a
  d = d
  NumDevices = 3
  Keys <- MCKeys
  MaxPlugs = 2
  MaxFaults = 1
  MaxDetects = 1
PROPERTY
  DetachedMeansNothingConnected
