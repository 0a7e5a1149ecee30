SPECIFICATION PlanSpec
CONSTANTS
  InputLength = 5
  Chars = {"x", "P", "blank", "nl", "cr"}
  Limits = {0, 1, 2}
INVARIANTS
  TokensPreserved
  BatchShape
  Substituted
