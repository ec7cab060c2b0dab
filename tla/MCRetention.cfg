SPECIFICATION Spec
CONSTANTS
  Dirs = {d1, d2}
  Handlers = {h1, h2}
  MaxAudits = 1
  ExportSlots = 1
  Features = {"audit", "start", "override", "export", "preview_raises", "forget_fails", "restore_fails", "crash"}
  NoDir = NoDir
SYMMETRY Symmetry
INVARIANT LeasesAreSound
PROPERTIES
  RowHasFiles
  StagingIsOwned
