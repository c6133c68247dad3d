\* The agent beside a --register and a --rotate-key; one fault of each kind.
CONSTANTS
  MaxTokens = 3
  Budget <- OneOfEach
SPECIFICATION Spec
INVARIANTS TypeOK PublishedIsHeld SettingsSurvive
PROPERTIES StoreSpec
CHECK_DEADLOCK FALSE
