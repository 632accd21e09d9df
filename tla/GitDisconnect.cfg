SPECIFICATION GitSpec
CONSTANTS
  Resolvers = {p1, p2}
  Authorizers = {}
  OAuthStates = {o1}
  MaxTokens = 3
  MaxGitMishaps = 1
INVARIANT DisconnectedHasNoCredential
CHECK_DEADLOCK FALSE
