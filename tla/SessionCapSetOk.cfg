\* A session against a server that answers every request successfully;
\* capabilities_set_on_OK's missing return may leave any signal, HND_AGAIN
\* included.
SPECIFICATION Spec
CONSTANTS
  Program <- MC_Program
  ServerErrors = FALSE
  Challenges = FALSE
  OkSignals = {"PASS", "FAIL", "PASS_RETURN_FAIL", "AGAIN"}
  AuthContinueSignals = {"AGAIN"}
PROPERTY
  HealthySessionCompletes
