-------------------------- MODULE MCConfiguration ---------------------------
(* Numbers on both sides of an int32 of four bits, durations on both sides *)
(* of the default lock timeout.                                            *)
EXTENDS Configuration

MCNumbers == {-1, 7, 8, 17}

MCDurations == {0, 1, 3}

MCDefault ==
    [s \in Setting |->
        CASE s \in IntSettings -> 5
          [] s \in {"DOCS_ENABLED", "AUTH_LOCAL_ENABLED",
                    "IDEMPOTENCY_ENABLED"} -> "true"
          [] s \in {"OIDC_ENABLED", "OTEL_ENABLED"} -> "false"
          [] s \in {"SHUTDOWN_TIMEOUT", "JWT_ACCESS_TOKEN_TTL",
                    "IDEMPOTENCY_LOCK_TIMEOUT"} -> 2
          [] s \in {"JWT_REFRESH_TOKEN_TTL", "IDEMPOTENCY_TTL"} -> 4
          [] s = "JWT_KEY_FILES" -> "given"
          [] s \in {"DATABASE_URL", "OIDC_ISSUER_URL"} -> Unset]
=============================================================================
