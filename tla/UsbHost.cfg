SPECIFICATION Spec
CONSTANTS
  a = a
  d = d
  NumDevices = 3
  Keys <- MCKeys
  MaxPlugs = 3
  MaxFaults = 1
  MaxDetects = 1
INVARIANTS
  TypeOK
  NoTransferInReset
  PolledAsProbed
  ChangesAreNoticed
PROPERTIES
  AttachmentEnds
  DetachmentEnds
