SPECIFICATION Spec
CONSTANTS
  NBLOCKS = 40
  ABS_MAX_ENTRIES = 2
  RECORDS_PER_BLOCK = 1
  FormBlocks <- MCFormBlocks
  Names <- MCNames
  Texts <- MCTexts
  PimpUsers <- MCPimpUsers
  MAX_FORMS = 3
  MAX_USERS = 2
  PIMP_RULE_MAX = 2
  MaxCommands = 3
  MaxBoots = 3
  MaxCrashes = 0
INVARIANT FormsSurviveReboot
CHECK_DEADLOCK FALSE
