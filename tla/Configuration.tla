--------------------------- MODULE Configuration ----------------------------
(***************************************************************************)
(* From the environment variables to a server that may start: Load, the    *)
(* size of the connection pool, the token verifiers.                       *)
(*                                                                         *)
(* An operator edits settings while the server is down and starts it.      *)
(* Load reads them in a fixed order and refuses with the first one that    *)
(* does not parse or does not fit; the operator corrects it and tries      *)
(* again.  Failures that do not come from a setting belong to Lifecycle.   *)
(* Texts that are only passed on (names, hosts, addresses) are left out.   *)
(***************************************************************************)
EXTENDS Integers, Sequences

CONSTANTS
    Numbers,    \* the numbers an operator writes
    Durations,  \* the durations, in some unit
    Default,    \* what Load takes for a setting that is not set
    Half,       \* 2^31: int32 is -Half .. Half - 1
    MaxEdits,   \* bound on the edits
    Unset,      \* a setting that is missing or empty
    Malformed   \* text that does not parse

(* Mutant: the issuer is asked for before OIDC_ENABLED is read. *)
IssuerFirst ==
    <<"GRPC_PORT", "HTTP_PORT", "DOCS_ENABLED", "DATABASE_MAX_CONNECTIONS",
      "DATABASE_MIN_CONNECTIONS", "SHUTDOWN_TIMEOUT", "JWT_ACCESS_TOKEN_TTL",
      "JWT_REFRESH_TOKEN_TTL", "AUTH_LOCAL_ENABLED", "OIDC_ISSUER_URL",
      "OIDC_ENABLED", "IDEMPOTENCY_ENABLED", "IDEMPOTENCY_TTL",
      "IDEMPOTENCY_LOCK_TIMEOUT", "OTEL_ENABLED", "DATABASE_URL",
      "JWT_KEY_FILES">>

(* The order in which Load looks at the settings. *)
Order ==
    <<"GRPC_PORT", "HTTP_PORT", "DOCS_ENABLED", "DATABASE_MAX_CONNECTIONS",
      "DATABASE_MIN_CONNECTIONS", "SHUTDOWN_TIMEOUT", "JWT_ACCESS_TOKEN_TTL",
      "JWT_REFRESH_TOKEN_TTL", "AUTH_LOCAL_ENABLED", "OIDC_ENABLED",
      "IDEMPOTENCY_ENABLED", "IDEMPOTENCY_TTL", "IDEMPOTENCY_LOCK_TIMEOUT",
      "OTEL_ENABLED", "DATABASE_URL", "JWT_KEY_FILES", "OIDC_ISSUER_URL">>

IntSettings ==
    {"GRPC_PORT", "HTTP_PORT", "DATABASE_MAX_CONNECTIONS",
     "DATABASE_MIN_CONNECTIONS"}

BoolSettings ==
    {"DOCS_ENABLED", "AUTH_LOCAL_ENABLED", "OIDC_ENABLED",
     "IDEMPOTENCY_ENABLED", "OTEL_ENABLED"}

DurationSettings ==
    {"SHUTDOWN_TIMEOUT", "JWT_ACCESS_TOKEN_TTL", "JWT_REFRESH_TOKEN_TTL",
     "IDEMPOTENCY_TTL", "IDEMPOTENCY_LOCK_TIMEOUT"}

TextSettings == {"DATABASE_URL", "JWT_KEY_FILES", "OIDC_ISSUER_URL"}

Setting == IntSettings \cup BoolSettings \cup DurationSettings \cup TextSettings

(* What intEnv, boolEnv, durationEnv and strEnv make of a text. *)
Parsed(s) ==
    CASE s \in IntSettings -> Numbers
      [] s \in BoolSettings -> {"true", "false"}
      [] s \in DurationSettings -> Durations
      [] s \in TextSettings -> {"given"}

(* Every text is a string; the others may fail to parse. *)
Written(s) ==
    Parsed(s) \cup (IF s \in TextSettings THEN {Unset} ELSE {Unset, Malformed})

(* Load has no default for two of them. *)
ASSUME DefaultAssumption ==
    /\ \A s \in IntSettings \cup DurationSettings : Default[s] \in Int
    /\ \A s \in BoolSettings : Default[s] \in {"true", "false"}
    /\ Default["JWT_KEY_FILES"] = "given"
    /\ Default["DATABASE_URL"] = Unset
    /\ Default["OIDC_ISSUER_URL"] = Unset

ASSUME ValueAssumption ==
    /\ Numbers \subseteq Int /\ Durations \subseteq Int
    /\ Half \in Nat \ {0} /\ MaxEdits \in Nat
    /\ Unset # Malformed
    /\ \A x \in {Unset, Malformed} :
           x \notin Int /\ x \notin Setting \cup {"true", "false", "given"}

VARIABLES
    env,      \* the environment of the process, or of the next one
    phase,    \* how far start-up has come
    pool,     \* MaxConns of the pool, 0 without one
    floor,    \* its MinConns: the connections it keeps open
    refusal,  \* the setting named by the last error of Load, Unset for none
    edited,   \* the settings edited since
    edits     \* so far

vars == <<env, phase, pool, floor, refusal, edited, edits>>

TypeOK ==
    /\ DOMAIN env = Setting
    /\ \A s \in Setting : env[s] \in Written(s)
    /\ phase \in {"down", "loaded", "pooled", "up", "refused"}
    /\ pool \in 0 .. Half - 1
    /\ floor \in -Half .. Half - 1
    /\ refusal \in Setting \cup {Unset}
    /\ edited \in SUBSET Setting
    /\ edits \in 0 .. MaxEdits

Empty == [s \in Setting |-> Unset]

(* The service in compose.yaml, which else spells out the defaults. *)
Composed == [Empty EXCEPT !["DATABASE_URL"] = "given", !["OTEL_ENABLED"] = "true"]

(* An operator starts with nothing, or with what the repository has. *)
Init ==
    /\ env \in {Empty, Composed}
    /\ phase = "down"
    /\ pool = 0
    /\ floor = 0
    /\ refusal = Unset
    /\ edited = {}
    /\ edits = 0

-----------------------------------------------------------------------------
(* Helpers *)

(* What the Env functions return next to an error: the zero of their type. *)
Zero(s) == IF s \in BoolSettings THEN "false" ELSE 0

Value(s) ==
    IF env[s] = Unset THEN Default[s]
    ELSE IF env[s] = Malformed THEN Zero(s)
    ELSE env[s]

On(s) == Value(s) = "true"

Positive(s) == Value(s) > 0

(* Mutant: the lock timeout is compared with the default TTL. *)
LockFitsDefault ==
    /\ Positive("IDEMPOTENCY_LOCK_TIMEOUT")
    /\ Value("IDEMPOTENCY_LOCK_TIMEOUT") < Default["IDEMPOTENCY_TTL"]

LockFits ==
    /\ Positive("IDEMPOTENCY_LOCK_TIMEOUT")
    /\ Value("IDEMPOTENCY_LOCK_TIMEOUT") < Value("IDEMPOTENCY_TTL")

(* Load goes past s.  The key files always have a name, as strEnv replaces *)
(* an empty one by its default.                                            *)
Passes(s) ==
    /\ env[s] # Malformed
    /\ s \in {"JWT_ACCESS_TOKEN_TTL", "JWT_REFRESH_TOKEN_TTL",
              "IDEMPOTENCY_TTL"} => Positive(s)
    /\ s = "IDEMPOTENCY_LOCK_TIMEOUT" => LockFits
    /\ s = "DATABASE_URL" => Value(s) # Unset
    /\ s = "JWT_KEY_FILES" => (On("AUTH_LOCAL_ENABLED") => Value(s) # Unset)
    /\ s = "OIDC_ISSUER_URL" => (On("OIDC_ENABLED") => Value(s) # Unset)

(* The place of the first setting that Load does not go past. *)
RefusedAt(i) ==
    /\ \A j \in 1 .. i - 1 : Passes(Order[j])
    /\ ~Passes(Order[i])

(* int32(x), for a 64-bit x *)
Narrow(x) == ((x + Half) % (2 * Half)) - Half

-----------------------------------------------------------------------------
(* Actions *)

Edit(s, v) ==
    /\ phase \in {"down", "refused"}
    /\ edits < MaxEdits
    /\ env' = [env EXCEPT ![s] = v]
    /\ phase' = "down"
    /\ edited' = edited \cup {s}
    /\ edits' = edits + 1
    /\ UNCHANGED <<pool, floor, refusal>>

Load ==
    /\ phase = "down"
    /\ \A i \in 1 .. Len(Order) : Passes(Order[i])
    /\ phase' = "loaded"
    /\ refusal' = Unset
    /\ edited' = {}
    /\ UNCHANGED <<env, pool, floor, edits>>

LoadRefuses ==
    /\ phase = "down"
    /\ \E i \in 1 .. Len(Order) : RefusedAt(i) /\ refusal' = Order[i]
    /\ phase' = "refused"
    /\ edited' = {}
    /\ UNCHANGED <<env, pool, floor, edits>>

OpenPool(max, min) ==
    /\ phase = "loaded"
    /\ IF max >= 1 THEN phase' = "pooled" /\ pool' = max /\ floor' = min
                   ELSE phase' = "refused" /\ UNCHANGED <<pool, floor>>
    /\ UNCHANGED <<env, refusal, edited, edits>>

(* Mutant: the two sizes are swapped. *)
NewPostgresPoolSwapped ==
    OpenPool(Narrow(Value("DATABASE_MIN_CONNECTIONS")),
             Narrow(Value("DATABASE_MAX_CONNECTIONS")))

(* pgxpool opens no pool for less than one connection; it takes any number *)
(* for the ones it keeps open.                                             *)
NewPostgresPool ==
    OpenPool(Narrow(Value("DATABASE_MAX_CONNECTIONS")),
             Narrow(Value("DATABASE_MIN_CONNECTIONS")))

ClosePool == pool' = 0 /\ floor' = 0

(* At least one verifier is needed; the pool is closed on the way out. *)
Providers ==
    /\ phase = "pooled"
    /\ IF On("AUTH_LOCAL_ENABLED") \/ On("OIDC_ENABLED")
       THEN phase' = "up" /\ UNCHANGED <<pool, floor>>
       ELSE phase' = "refused" /\ ClosePool
    /\ UNCHANGED <<env, refusal, edited, edits>>

(* The server ends, to be started again. *)
Stop ==
    /\ phase = "up"
    /\ phase' = "down"
    /\ ClosePool
    /\ UNCHANGED <<env, refusal, edited, edits>>

(* An operator without an edit left gives up. *)
GivesUp == phase = "refused" /\ edits = MaxEdits /\ UNCHANGED vars

Next ==
    \/ \E s \in Setting : \E v \in Written(s) : Edit(s, v)
    \/ Load \/ LoadRefuses \/ NewPostgresPool \/ Providers \/ Stop \/ GivesUp

Spec == Init /\ [][Next]_vars

-----------------------------------------------------------------------------
(* Properties *)

(* A server that is up works with the settings it was given, none replaced *)
(* in silence by a default, and with lifetimes that the other modules take *)
(* for granted (TimeoutAssumption, TTLAssumption), whatever was set, left  *)
(* out, and corrected on the way; it can verify some tokens.               *)
StartedIsSane ==
    phase = "up" =>
        /\ \A s \in Setting : env[s] # Malformed
        /\ Value("JWT_ACCESS_TOKEN_TTL") > 0
        /\ Value("JWT_REFRESH_TOKEN_TTL") > 0
        /\ 0 < Value("IDEMPOTENCY_LOCK_TIMEOUT")
        /\ Value("IDEMPOTENCY_LOCK_TIMEOUT") < Value("IDEMPOTENCY_TTL")
        /\ \/ On("AUTH_LOCAL_ENABLED")
           \/ On("OIDC_ENABLED") /\ env["OIDC_ISSUER_URL"] = "given"

(* The conversion to int32 never leaves a server without connections, and  *)
(* a number that fits is the size of the pool, or of the part of it that   *)
(* is kept open.  (One that does not fit is not refused: 2^32 + 1 opens a  *)
(* pool of one.)                                                           *)
PoolAsAsked ==
    phase = "up" =>
        LET Fits(x) == x \in -Half .. Half - 1
            max == Value("DATABASE_MAX_CONNECTIONS")
            min == Value("DATABASE_MIN_CONNECTIONS")
        IN  /\ pool > 0
            /\ Fits(max) => pool = max
            /\ Fits(min) => floor = min

(* Correcting the setting that Load named gets past it for good: the next  *)
(* complaint is about a later setting.  A check that used a setting before *)
(* it is read would send the operator back and forth.                      *)
RepairAdvances ==
    [][/\ phase = "down" /\ phase' = "refused"
       /\ edited = {refusal}
       /\ Passes(refusal)
       => \A i, j \in 1 .. Len(Order) :
              refusal = Order[i] /\ refusal' = Order[j] => i < j]_vars

=============================================================================
