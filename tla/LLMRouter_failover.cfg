\* Two aliases, every small config, one error of each class.
SPECIFICATION Spec
CONSTANTS
  Aliases = {primary, backup}
  NoAlias = NoAlias
  Configs <- MCConfigs
  Errors = {"RateLimitError", "status 5xx", "status 4xx"}
  MaxItems = 1
CHECK_DEADLOCK FALSE
INVARIANTS TypeOK OneVoice CallsBounded GivesUpLast
PROPERTIES RuleWins
