CONSTANTS
  Operators = {op1, op2}
  System = System
  MaxCommands = 4
  MaxEntries = 2
  Crashes = TRUE
  MaxUpdates = 2
  MaxDeaths = 1
  Fields = {"dry_run", "min_confidence"}
  DryRun = "dry_run"
  Values = {0, 1}
  Defaults <- MCDefaults
  Patchers = {p1, p2}
  MaxPatches = 3
SPECIFICATION OperatorSpec
INVARIANTS ControlsTypeOK OneEntrySlips ChatObeyed OverridesAreAsked
PROPERTIES MovesAreAudited CommandsEnd
CHECK_DEADLOCK FALSE
