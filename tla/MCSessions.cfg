SPECIFICATION Spec
CONSTANTS
  NBLOCKS = 32
  ABS_MAX_ENTRIES = 2
  RECORDS_PER_BLOCK = 1
  FormBlocks <- MCFormBlocks
  Names <- MCOneName
  Texts <- MCTexts
  PimpUsers <- MCPimpUsers
  MAX_FORMS = 3
  MAX_USERS = 2
  PIMP_RULE_MAX = 2
  MaxCommands = 3
  MaxBoots = 3
  MaxCrashes = 1
INVARIANTS SaveAtomic SavedDurable
CHECK_DEADLOCK FALSE
