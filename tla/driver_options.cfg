\* every sequence of calls by service and command line
CONSTANTS
  Configs <- MCConfigs
  Commands <- MCCommands
  MalFormed <- MCMalFormed
  Parts <- MCParts
SPECIFICATION OptionsSpec
INVARIANTS PlaceKept
PROPERTIES NothingForgotten GivenApplied
