------------------------ MODULE ConfigurationProofs -------------------------
(***************************************************************************)
(* Proofs about Configuration, for every set of values an operator may     *)
(* write, every set of defaults and every width of the conversion.         *)
(***************************************************************************)
EXTENDS Configuration, TLAPS

(* Past Load, every setting has passed and no complaint is left. *)
Loaded ==
    phase \in {"loaded", "pooled", "up"} =>
        refusal = Unset /\ \A i \in 1 .. Len(Order) : Passes(Order[i])

(* The pool has the converted sizes, of which the first is positive. *)
Sized ==
    phase \in {"pooled", "up"} =>
        /\ pool = Narrow(Value("DATABASE_MAX_CONNECTIONS")) /\ pool > 0
        /\ floor = Narrow(Value("DATABASE_MIN_CONNECTIONS"))

(* Some verifier exists. *)
Verified == phase = "up" => On("AUTH_LOCAL_ENABLED") \/ On("OIDC_ENABLED")

(* As long as only the named setting is edited, Load gets at least as far. *)
Reached ==
    phase \in {"down", "refused"} /\ edited \subseteq {refusal} =>
        \A i \in 1 .. Len(Order) :
            refusal = Order[i] => \A j \in 1 .. i - 1 : Passes(Order[j])

IndInv == TypeOK /\ Loaded /\ Sized /\ Verified /\ Reached

-----------------------------------------------------------------------------

(* Load looks at seventeen settings, the TTL before the lock timeout and   *)
(* the switches of local login and OIDC before what they require.          *)
LEMMA OrderFacts ==
    /\ Len(Order) = 17
    /\ \A i \in 1 .. 17 : Order[i] \in Setting
    /\ \A s \in Setting : \E i \in 1 .. 17 : s = Order[i]
    /\ Order[7] = "JWT_ACCESS_TOKEN_TTL"
    /\ Order[8] = "JWT_REFRESH_TOKEN_TTL"
    /\ Order[9] = "AUTH_LOCAL_ENABLED"
    /\ Order[10] = "OIDC_ENABLED"
    /\ Order[12] = "IDEMPOTENCY_TTL"
    /\ Order[13] = "IDEMPOTENCY_LOCK_TIMEOUT"
    /\ Order[16] = "JWT_KEY_FILES"
    /\ Order[17] = "OIDC_ISSUER_URL"
  BY DEF Order, Setting, IntSettings, BoolSettings, DurationSettings, TextSettings

(* No setting is looked at twice. *)
LEMMA OrderDistinct ==
    \A i, j \in 1 .. 17 : Order[i] = Order[j] => i = j
  BY DEF Order

(* The conversion gives an int32 and keeps the numbers that are one. *)
LEMMA NarrowFacts ==
    ASSUME NEW x \in Int
    PROVE  /\ Narrow(x) \in Int
           /\ -Half <= Narrow(x) /\ Narrow(x) < Half
           /\ x \in -Half .. Half - 1 => Narrow(x) = x
  <1>1. Half \in Int /\ 2 * Half \in Int /\ 2 * Half > 0 /\ x + Half \in Int
    BY ValueAssumption
  <1>2. (x + Half) % (2 * Half) \in 0 .. 2 * Half - 1
    BY <1>1
  <1>3. x \in -Half .. Half - 1 => (x + Half) % (2 * Half) = x + Half
    BY <1>1
  <1> QED BY <1>1, <1>2, <1>3 DEF Narrow

(* The numbers of connections asked for are integers. *)
LEMMA AskedInt ==
    ASSUME TypeOK
    PROVE  /\ Value("DATABASE_MAX_CONNECTIONS") \in Int
           /\ Value("DATABASE_MIN_CONNECTIONS") \in Int
  BY DefaultAssumption, ValueAssumption
     DEF TypeOK, Value, Zero, Written, Parsed, Setting, IntSettings, BoolSettings,
         DurationSettings, TextSettings

(* Editing a setting leaves the checks of the settings before it alone:    *)
(* none of them uses a setting that is read later.                         *)
LEMMA EarlierUntouched ==
    ASSUME TypeOK,
           NEW i \in 1 .. 17, NEW j \in 1 .. i - 1, NEW v,
           env' = [env EXCEPT ![Order[i]] = v],
           Passes(Order[j])
    PROVE  Passes(Order[j])'
  <1> DEFINE s == Order[j]
  <1>1. j \in 1 .. 17 /\ j < i
    OBVIOUS
  <1>2. s \in Setting /\ env'[s] = env[s] /\ (Value(s))' = Value(s)
    BY <1>1, OrderFacts, OrderDistinct DEF TypeOK, Value
  <1>3. ASSUME NEW k \in 1 .. j
        PROVE  (Value(Order[k]))' = Value(Order[k])
    <2>1. k \in 1 .. 17 /\ k # i
      BY <1>1
    <2>2. Order[k] \in Setting /\ Order[k] # Order[i]
      BY <2>1, OrderFacts, OrderDistinct
    <2> QED BY <2>2 DEF TypeOK, Value
  <1>4. s = "IDEMPOTENCY_LOCK_TIMEOUT" => (LockFits' <=> LockFits)
    <2> HAVE s = "IDEMPOTENCY_LOCK_TIMEOUT"
    <2>1. j = 13
      BY <1>1, OrderFacts, OrderDistinct
    <2>2. (Value("IDEMPOTENCY_TTL"))' = Value("IDEMPOTENCY_TTL")
      BY <2>1, <1>3, OrderFacts
    <2> QED BY <2>2, <1>2 DEF LockFits, Positive
  <1>5. s = "JWT_KEY_FILES" =>
            (Value("AUTH_LOCAL_ENABLED"))' = Value("AUTH_LOCAL_ENABLED")
    <2> HAVE s = "JWT_KEY_FILES"
    <2>1. j = 16
      BY <1>1, OrderFacts, OrderDistinct
    <2> QED BY <2>1, <1>3, OrderFacts
  <1>6. s = "OIDC_ISSUER_URL" => (Value("OIDC_ENABLED"))' = Value("OIDC_ENABLED")
    <2> HAVE s = "OIDC_ISSUER_URL"
    <2>1. j = 17
      BY <1>1, OrderFacts, OrderDistinct
    <2> QED BY <2>1, <1>3, OrderFacts
  <1> QED BY <1>2, <1>4, <1>5, <1>6 DEF Passes, Positive, On

-----------------------------------------------------------------------------

(* Nothing runs, whether nothing is set or what the repository has. *)
LEMMA InitInv == Init => IndInv
  <1> SUFFICES ASSUME Init PROVE IndInv
    OBVIOUS
  <1>0. DOMAIN env = Setting /\ \A s \in Setting : env[s] \in Written(s)
    <2>1. \A s \in Setting : Unset \in Written(s)
      BY DEF Written
    <2>2. "given" \in Written("DATABASE_URL") /\ "true" \in Written("OTEL_ENABLED")
      BY DEF Written, Parsed, IntSettings, BoolSettings, DurationSettings,
             TextSettings
    <2> QED BY <2>1, <2>2 DEF Init, Empty, Composed
  <1>1. TypeOK
    BY <1>0, ValueAssumption DEF Init, TypeOK
  <1>2. Loaded /\ Sized /\ Verified
    BY DEF Init, Loaded, Sized, Verified
  <1>3. \A i \in 1 .. Len(Order) : refusal # Order[i]
    BY OrderFacts, ValueAssumption DEF Init
  <1> QED BY <1>1, <1>2, <1>3 DEF IndInv, Reached

(* Steps that leave the environment alone leave every check alone. *)
LEMMA SameChecks ==
    ASSUME env' = env
    PROVE  /\ \A s \in Setting : Passes(s)' <=> Passes(s)
           /\ (Value("DATABASE_MAX_CONNECTIONS"))' = Value("DATABASE_MAX_CONNECTIONS")
           /\ (Value("DATABASE_MIN_CONNECTIONS"))' = Value("DATABASE_MIN_CONNECTIONS")
           /\ (On("AUTH_LOCAL_ENABLED") \/ On("OIDC_ENABLED"))'
                  <=> On("AUTH_LOCAL_ENABLED") \/ On("OIDC_ENABLED")
  <1>1. \A s : (Value(s))' = Value(s)
    BY DEF Value
  <1> QED BY <1>1 DEF Passes, LockFits, Positive, On

(* Every step keeps the invariant. *)
LEMMA NextInv == IndInv /\ [Next]_vars => IndInv'
  <1> SUFFICES ASSUME IndInv, [Next]_vars PROVE IndInv'
    OBVIOUS
  <1> USE DEF IndInv
  <1>0. \A i \in 1 .. Len(Order) : Order[i] \in Setting
    BY OrderFacts
  <1>u. Unset \notin Setting
    BY ValueAssumption
  <1>1. ASSUME NEW s \in Setting, NEW v \in Written(s), Edit(s, v)
        PROVE  IndInv'
    <2>1. TypeOK'
      <3>1. DOMAIN env' = Setting /\ \A t \in Setting : env'[t] \in Written(t)
        BY <1>1 DEF Edit, TypeOK
      <3> QED BY <1>1, <3>1, ValueAssumption DEF Edit, TypeOK
    <2>2. (Loaded /\ Sized /\ Verified)'
      BY <1>1 DEF Edit, Loaded, Sized, Verified
    <2>3. Reached'
      <3> SUFFICES ASSUME edited' \subseteq {refusal'},
                          NEW i \in 1 .. Len(Order), refusal' = Order[i],
                          NEW j \in 1 .. i - 1
                   PROVE  Passes(Order[j])'
        BY DEF Reached
      <3>1. s = Order[i] /\ edited \subseteq {refusal} /\ refusal = Order[i]
        BY <1>1 DEF Edit
      <3>2. Passes(Order[j])
        BY <1>1, <3>1 DEF Edit, Reached
      <3>3. i \in 1 .. 17 /\ env' = [env EXCEPT ![Order[i]] = v]
        BY <1>1, <3>1, OrderFacts DEF Edit
      <3> QED BY <3>2, <3>3, EarlierUntouched
    <2> QED BY <2>1, <2>2, <2>3
  <1>2. CASE Load
    <2>1. TypeOK'
      BY <1>2 DEF Load, TypeOK
    <2>2. Loaded'
      BY <1>2, <1>0, SameChecks DEF Load, Loaded
    <2>3. (Sized /\ Verified /\ Reached)'
      BY <1>2 DEF Load, Sized, Verified, Reached
    <2> QED BY <2>1, <2>2, <2>3
  <1>3. CASE LoadRefuses
    <2>1. PICK k \in 1 .. Len(Order) : RefusedAt(k) /\ refusal' = Order[k]
      BY <1>3 DEF LoadRefuses
    <2>2. TypeOK'
      BY <1>3, <2>1, <1>0 DEF LoadRefuses, TypeOK
    <2>3. (Loaded /\ Sized /\ Verified)'
      BY <1>3 DEF LoadRefuses, Loaded, Sized, Verified
    <2>4. Reached'
      <3> SUFFICES ASSUME NEW i \in 1 .. Len(Order), refusal' = Order[i],
                          NEW j \in 1 .. i - 1
                   PROVE  Passes(Order[j])'
        BY DEF Reached
      <3>0. i \in 1 .. 17 /\ k \in 1 .. 17
        BY OrderFacts
      <3>1. i = k
        BY <2>1, <3>0, OrderDistinct
      <3>2. Passes(Order[j]) /\ j \in 1 .. Len(Order)
        BY <2>1, <3>1, OrderFacts DEF RefusedAt
      <3> QED BY <3>2, <1>3, <1>0, SameChecks DEF LoadRefuses
    <2> QED BY <2>2, <2>3, <2>4
  <1>4. CASE NewPostgresPool
    <2> DEFINE size == Narrow(Value("DATABASE_MAX_CONNECTIONS"))
    <2> DEFINE kept == Narrow(Value("DATABASE_MIN_CONNECTIONS"))
    <2> USE DEF OpenPool
    <2>1. /\ size \in Int /\ size < Half
          /\ kept \in Int /\ -Half <= kept /\ kept < Half
      BY AskedInt, NarrowFacts
    <2>2. TypeOK'
      BY <1>4, <2>1, ValueAssumption DEF NewPostgresPool, TypeOK
    <2>3. Loaded'
      BY <1>4, <1>0, SameChecks DEF NewPostgresPool, Loaded
    <2>4. Sized'
      <3>1. size' = size /\ kept' = kept
        BY <1>4, SameChecks DEF NewPostgresPool, Narrow
      <3> QED BY <1>4, <2>1, <3>1 DEF NewPostgresPool, Sized
    <2>5. Verified'
      BY <1>4 DEF NewPostgresPool, Verified
    <2>6. Reached'
      BY <1>4, <1>0, <1>u DEF NewPostgresPool, Loaded, Reached
    <2> QED BY <2>2, <2>3, <2>4, <2>5, <2>6
  <1>5. CASE Providers
    <2> USE DEF ClosePool
    <2>1. TypeOK'
      BY <1>5, ValueAssumption DEF Providers, TypeOK
    <2>2. Loaded'
      BY <1>5, <1>0, SameChecks DEF Providers, Loaded
    <2>3. Sized'
      <3>1. /\ Narrow(Value("DATABASE_MAX_CONNECTIONS"))'
                   = Narrow(Value("DATABASE_MAX_CONNECTIONS"))
            /\ Narrow(Value("DATABASE_MIN_CONNECTIONS"))'
                   = Narrow(Value("DATABASE_MIN_CONNECTIONS"))
        BY <1>5, SameChecks DEF Providers, Narrow
      <3> QED BY <1>5, <3>1 DEF Providers, Sized
    <2>4. Verified'
      BY <1>5, SameChecks DEF Providers, Verified
    <2>5. Reached'
      BY <1>5, <1>0, <1>u DEF Providers, Loaded, Reached
    <2> QED BY <2>1, <2>2, <2>3, <2>4, <2>5
  <1>6. CASE Stop
    <2> USE DEF ClosePool
    <2>1. TypeOK'
      BY <1>6, ValueAssumption DEF Stop, TypeOK
    <2>2. (Loaded /\ Sized /\ Verified)'
      BY <1>6 DEF Stop, Loaded, Sized, Verified
    <2>3. Reached'
      BY <1>6, <1>0, <1>u DEF Stop, Loaded, Reached
    <2> QED BY <2>1, <2>2, <2>3
  <1>7. CASE UNCHANGED vars
    <2>1. TypeOK'
      BY <1>7 DEF vars, TypeOK
    <2>2. (Loaded /\ Reached)'
      BY <1>7, <1>0, SameChecks, OrderFacts DEF vars, Loaded, Reached
    <2>3. (Sized /\ Verified)'
      BY <1>7, SameChecks DEF vars, Sized, Verified, Narrow
    <2> QED BY <2>1, <2>2, <2>3
  <1> QED BY <1>1, <1>2, <1>3, <1>4, <1>5, <1>6, <1>7 DEF Next, GivesUp

(* The invariant holds throughout. *)
LEMMA Inductive == Spec => []IndInv
  BY InitInv, NextInv, PTL DEF Spec

-----------------------------------------------------------------------------

(* The variables keep their types; the sizes of the pool are int32s.       *)
THEOREM TypeCorrect == Spec => []TypeOK
  <1>1. IndInv => TypeOK
    BY DEF IndInv
  <1> QED BY Inductive, <1>1, PTL

(* A server that is up has sane lifetimes, no setting that was replaced in *)
(* silence, and a way to verify tokens, for all settings and defaults.     *)
THEOREM Sane == Spec => []StartedIsSane
  <1>1. IndInv => StartedIsSane
    <2> SUFFICES ASSUME IndInv, phase = "up" PROVE StartedIsSane
      BY DEF StartedIsSane
    <2>1. \A s \in Setting : Passes(s)
      BY OrderFacts DEF IndInv, Loaded
    <2>2. \A s \in Setting : env[s] # Malformed
      BY <2>1 DEF Passes
    <2>3. /\ Value("JWT_ACCESS_TOKEN_TTL") > 0
          /\ Value("JWT_REFRESH_TOKEN_TTL") > 0
      BY <2>1 DEF Passes, Positive, Setting, DurationSettings
    <2>4. LockFits
      BY <2>1 DEF Passes, Setting, DurationSettings
    <2>5. 0 < Value("IDEMPOTENCY_LOCK_TIMEOUT")
      BY <2>4 DEF LockFits, Positive
    <2>6. On("OIDC_ENABLED") => env["OIDC_ISSUER_URL"] = "given"
      <3>1. On("OIDC_ENABLED") => Value("OIDC_ISSUER_URL") # Unset
        BY <2>1 DEF Passes, Setting, TextSettings
      <3>2. env["OIDC_ISSUER_URL"] \in {"given", Unset}
        BY DEF IndInv, TypeOK, Written, Parsed, Setting, IntSettings,
               BoolSettings, DurationSettings, TextSettings
      <3> QED BY <3>1, <3>2, DefaultAssumption DEF Value
    <2> QED
      BY <2>2, <2>3, <2>4, <2>5, <2>6
         DEF StartedIsSane, LockFits, IndInv, Verified
  <1> QED BY Inductive, <1>1, PTL

(* The pool of a server that is up has a connection, and as many as were   *)
(* asked for when the number is an int32, whatever the width of one.       *)
THEOREM PoolSize == Spec => []PoolAsAsked
  <1>1. IndInv => PoolAsAsked
    BY AskedInt, NarrowFacts DEF IndInv, Sized, PoolAsAsked
  <1> QED BY Inductive, <1>1, PTL

(* A corrected setting is not followed by a complaint about an earlier     *)
(* one, nor about itself.                                                  *)
THEOREM Advances == Spec => RepairAdvances
  <1>1. ASSUME IndInv, [Next]_vars,
               phase = "down", phase' = "refused", edited = {refusal},
               Passes(refusal),
               NEW i \in 1 .. Len(Order), NEW j \in 1 .. Len(Order),
               refusal = Order[i], refusal' = Order[j]
        PROVE  i < j
    <2>1. LoadRefuses
      BY <1>1 DEF Next, vars, Edit, Load, NewPostgresPool, OpenPool, Providers,
                  Stop, GivesUp
    <2>2. PICK k \in 1 .. Len(Order) : RefusedAt(k) /\ refusal' = Order[k]
      BY <2>1 DEF LoadRefuses
    <2>0. i \in 1 .. 17 /\ j \in 1 .. 17 /\ k \in 1 .. 17
      BY <1>1, OrderFacts
    <2>3. k = j
      BY <1>1, <2>0, <2>2, OrderDistinct
    <2>4. ~Passes(Order[j])
      BY <2>2, <2>3 DEF RefusedAt
    <2>5. \A m \in 1 .. i - 1 : Passes(Order[m])
      BY <1>1 DEF IndInv, Reached
    <2> QED BY <1>1, <2>0, <2>4, <2>5
  <1>2. IndInv /\ [Next]_vars =>
            [/\ phase = "down" /\ phase' = "refused"
             /\ edited = {refusal}
             /\ Passes(refusal)
             => \A i, j \in 1 .. Len(Order) :
                    refusal = Order[i] /\ refusal' = Order[j] => i < j]_vars
    BY <1>1
  <1> QED BY Inductive, <1>2, PTL DEF Spec, RepairAdvances

=============================================================================
