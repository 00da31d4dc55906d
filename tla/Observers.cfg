CONSTANTS
  Configs <- SomeConfigs
  MaxIndex = 2
SPECIFICATION Spec
INVARIANTS ServedUnlessTroubled WarmPanicsOnlyOnRoute AnswerMatchesConfig
