SPECIFICATION Spec
CONSTANTS
  None = None
  Texts <- MCTexts
  Oids <- MCOids
  Names = {"staging", "production", "blanks"}
  Arc <- MCArc
  Slack = 1
  MinimumLifetime = 2
  MaxTime = 4
INVARIANTS
  TypeOK
  AcceptedIsConforming
  HonestIsAccepted
  TnAuthListNamesSpc
CHECK_DEADLOCK FALSE
