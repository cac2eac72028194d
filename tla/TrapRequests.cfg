CONSTANTS
  r1 = r1
  r2 = r2
  Requests = {r1, r2}
  Shapes <- MCShapes
  Pages = {"one", "two", "admin", "root"}
  Traps = {"admin"}
  NeverWritten = {"root"}
  Uploaded = {"admin"}
  Images = {"admin"}
  AiUsable = TRUE
  MaxDaily = 1
  CanaryTries = 0
  MaxMiscounts = 1
SPECIFICATION Spec
INVARIANTS TypeOK RecordedOnce GenerationBounded
PROPERTIES OperatorsPageStays AllAnswered
