SPECIFICATION SeedSpec
CONSTANTS
  s1 = s1
  s2 = s2
  Script = {s1, s2}
  Older = {s1}
  Keys <- Looked
  Roles <- InOrder
  Newer <- Added
  EditSets <- Edits
INVARIANTS DoneIsComplete OperatorsChoiceKept
