SPECIFICATION Spec
CONSTANTS
  a1 = a1 a2 = a2 t1 = t1 p1 = p1
  Addresses = {a1, a2}
  RateLimit = 2
  Requests = {r1}
  Tokens = {t1}
  Permissions = {p1}
  None = None
  Inputs <- MCInputs
INVARIANTS TypeOK AnsweredOnce OnlyAuthorisedRun ServerErrorsFromHandlers
PROPERTY ForgottenOnlyWhenFull
