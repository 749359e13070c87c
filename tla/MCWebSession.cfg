CONSTANTS
  Users = {ann, bob}
  Nobody = nobody
  MaxTokens = 2
  MaxCalls = 2
  MaxInputs = 4
SPECIFICATION SessionSpec
INVARIANTS
  UserOfToken
  EndedStaysEnded
PROPERTIES
  BlankOnlyByLateAnswer
CHECK_DEADLOCK FALSE
