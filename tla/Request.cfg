SPECIFICATION Spec
CONSTANTS
  Names = {"", "model", "compact", "status", "review", "edit", "read"}
  LocalOnly = {"model", "compact"}
  Translated = {"status"}
  Announced = {"compact"}
  Configs <- MCConfigs
  Edits <- MCEdits
  Openings <- MCOpenings
  Rounds <- MCRounds
  Schemas <- MCSchemas
  AnswersTo <- MCAnswersTo
  MaxMessages = 7
INVARIANTS OnlyOldestAreCleared CallsKeepTheirResults OneActiveCommand AnswersFitTheirSchema
PROPERTY ClearedStaysCleared
CHECK_DEADLOCK FALSE
