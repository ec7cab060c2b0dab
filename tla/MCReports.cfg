SPECIFICATION Spec
CONSTANTS
  None = None
  Blank = Blank
  NoAnswer = NoAnswer
  NoResult = NoResult
  Height = 3
  Width = 2
  HeaderRow = 1
  Fields = {"name", "link", "like"}
  Fingerprint = {"name", "link"}
  EffRequired = {"name", "link", "like"}
  HEADER_SCAN_ROWS = 2
  SAMPLE_COLS = 3
  MAX_SHEETS = 2
  MasterSheet = "s2"
  BATCH_SIZE = 2
  Answers = {"DIFFERENT", "UNSURE"}
  Analyses <- MCAnalyses
  Exports <- MCExports
  Proposals <- MCProposals
  Mappings <- MCMappings
  Dialogues <- MCDialogues
CHECK_DEADLOCK FALSE
INVARIANTS
  VerificationPasses
  FiguresAreFaithful
  NothingOverwritten
  ExportAuditsItself
  FieldsKeepTheirColumns
  ApprovalIsRemembered
  EveryChunkGetsItsAnswers
