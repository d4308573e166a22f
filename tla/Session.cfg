\* A full session against a server that may send notices, errors and a
\* challenge; capabilities_set_on_OK's missing return yields any signal but
\* HND_AGAIN; the session's auth-continue callback answers HND_AGAIN.
SPECIFICATION Spec
CONSTANTS
  Program <- MC_Program
  ServerErrors = TRUE
  Challenges = TRUE
  OkSignals = {"PASS", "FAIL", "PASS_RETURN_FAIL"}
  AuthContinueSignals = {"AGAIN"}
INVARIANTS
  TypeOK
  NoCrossTalk
PROPERTIES
  HealthySessionCompletes
