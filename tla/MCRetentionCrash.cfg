SPECIFICATION Spec
CONSTANTS
  Dirs = {d1}
  Handlers = {h1, h2}
  MaxAudits = 1
  ExportSlots = 1
  Features = {"crash"}
  NoDir = NoDir
INVARIANT RemovalClearsHistory
