SPECIFICATION Spec
CONSTANTS
  MaxSessions = 3
  MaxAttempts = 2
  MaxRestarts = 2
  MaxRetries = 2
  Faults = {"read", "open", "write", "delete", "keyring"}
INVARIANTS StoredSurvives SignedOutStaysOut LoggedInIsStored LoginSettled AnswerKept
PROPERTIES OwnAnswer TokenValid
