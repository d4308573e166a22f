\* A session against a server that may refuse a request with ERROR.
SPECIFICATION Spec
CONSTANTS
  Program <- MC_Program
  ServerErrors = TRUE
  Challenges = TRUE
  OkSignals = {"PASS"}
  AuthContinueSignals = {"AGAIN"}
INVARIANT
  AuthOnlyOnAuthOk
