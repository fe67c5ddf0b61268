SPECIFICATION FairSpec
CONSTANTS
  c1 = c1
  c2 = c2
  c3 = c3
  groq = groq
  gemini = gemini
  openrouter = openrouter
  Calls <- ThreeCalls
  Providers <- AllProviders
  Configured <- WithKeys
  Order <- Lanes
  HasMock <- MockForAnalysis
  MaxTries = 2
  RateLimit = 1
  AuthError = 3
  Cooldown = 2
  MaxTime = 1
CHECK_DEADLOCK FALSE
INVARIANTS TypeOK PassesOverOnlyTheFailing
PROPERTIES EveryCallEnds RestsAfterFailure CutShortOnlyByOverlap
