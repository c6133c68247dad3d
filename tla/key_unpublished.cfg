\* A host is enrolled and its agent started; nothing fails.
CONSTANTS
  MaxTokens = 3
  Budget <- OneRegister
SPECIFICATION Spec
INVARIANTS ServingIsPublished
CHECK_DEADLOCK FALSE
