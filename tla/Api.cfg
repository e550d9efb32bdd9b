SPECIFICATION ApiSpec
CONSTANTS
  q1 = q1  q2 = q2
  Requests = {q1, q2}
  HttpRequests = {q1}
  Rules <- MCRules
  Ids = {"a"}
  RuleLists <- MCLists
  Inputs <- MCInputs
  RemoteDims <- MCRemote
  Tokens = 2
INVARIANTS TypeOK AllowedIsPaid DeniedCost StrictestRemaining DeniedForCause OwnLimiter NoServerError
