\* A provider that cannot be reached.
SPECIFICATION Spec
CONSTANTS
  Aliases = {primary, backup}
  NoAlias = NoAlias
  Configs <- PlainConfigs
  Errors = {"APIConnectionError"}
  MaxItems = 1
CHECK_DEADLOCK FALSE
INVARIANT TransportFailsOver
