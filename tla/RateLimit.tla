------------------------------- MODULE RateLimit -------------------------------
(***************************************************************************)
(* The token bucket of packages/shared/rate_limit.py, as the middleware of *)
(* services/api/rate_limit_middleware.py uses it. Every identity has a     *)
(* bucket of its own, and the module follows the one of Identity.          *)
(*                                                                         *)
(* The check is atomic, a Lua script in Redis or a method without an await,*)
(* but the time it is made at is an argument: with Redis the caller reads  *)
(* its own clock, and sends the reading, before the script runs. Scripts   *)
(* may run in another order than the readings were taken in. With the      *)
(* in-process bucket MaxDelay is 0.                                        *)
(*                                                                         *)
(* Time is counted in the time that one unit takes to be refilled, and     *)
(* tokens in such units.                                                   *)
(***************************************************************************)
EXTENDS Integers

CONSTANTS
  Callers,   \* who sends requests: [webhook, session, ip], session "" for none
  Identity,  \* the identity whose bucket is followed
  Capacity,  \* DEFAULT_CAPACITY
  Cost,      \* what one request takes
  TTL,       \* ttl_seconds: an untouched bucket is dropped after this time
  MaxDelay,  \* bound: how far a reading may lie behind when its script runs
  MaxTime,   \* bound: when the model's time ends
  MaxRewind  \* bound: by how much updated_at is moved backwards altogether

\* An hour, against the minute a bucket takes to fill up.
ASSUME RateLimitAssumption ==
  /\ Capacity \in Nat /\ Cost \in Nat /\ TTL \in Nat
  /\ MaxDelay \in Nat /\ MaxTime \in Nat /\ MaxRewind \in Nat
  /\ 0 < Cost /\ Cost <= Capacity
  /\ TTL >= Capacity + MaxDelay

VARIABLES
  clock,    \* the time
  bucket,   \* the hash in Redis: tokens and updated_at
  touched,  \* when EXPIRE was last called
  granted,  \* history: what was granted at readings from one time up to another
  rewound   \* history: by how much updated_at has been moved backwards altogether

vars == <<clock, bucket, touched, granted, rewound>>

Times == 0..MaxTime

NoBucket == [tokens |-> -1, updated_at |-> 0]

Present == bucket # NoBucket

Init ==
  /\ clock = 0
  /\ bucket = NoBucket
  /\ touched = 0
  /\ granted = [p \in Times \X Times |-> 0]
  /\ rewound = 0

Positive(n) == IF n > 0 THEN n ELSE 0

Capped(n) == IF n < Capacity THEN n ELSE Capacity

-----------------------------------------------------------------------------
(* consume                                                                 *)

\* The tokens the script finds. A bucket nobody has used is full.
Tokens(now) ==
  IF Present THEN Capped(bucket.tokens + Positive(now - bucket.updated_at)) ELSE Capacity

\* updated_at becomes the reading, also when that is earlier than what it was.
Stored(tokens, now) ==
  /\ bucket' = [tokens |-> tokens, updated_at |-> now]
  /\ touched' = clock
  /\ rewound' = rewound + (IF Present THEN Positive(bucket.updated_at - now) ELSE 0)
  /\ rewound' <= MaxRewind

Allow(now) ==
  /\ Tokens(now) >= Cost
  /\ Stored(Tokens(now) - Cost, now)
  /\ granted' = [p \in Times \X Times |->
                   granted[p] + IF p[1] <= now /\ now <= p[2] THEN Cost ELSE 0]
  /\ UNCHANGED clock

\* Bug: a refused request stores its reading and not the tokens refilled until then.
RefuseForgetting(now) ==
  /\ Tokens(now) < Cost
  /\ Stored(bucket.tokens, now)
  /\ UNCHANGED <<clock, granted>>

\* Bug: a refused request stores the refilled tokens and not its reading.
RefuseKeepingTime(now) ==
  /\ Tokens(now) < Cost
  /\ Stored(Tokens(now), bucket.updated_at)
  /\ UNCHANGED <<clock, granted>>

\* 429
Refuse(now) ==
  /\ Tokens(now) < Cost
  /\ Stored(Tokens(now), now)
  /\ UNCHANGED <<clock, granted>>

\* _identify: the session when the cookie carries one, the address otherwise.
Identify(caller) ==
  IF caller.session # "" THEN <<"user", caller.session>> ELSE <<"ip", caller.ip>>

\* The middleware lets webhooks pass.
Counts(caller) == ~caller.webhook /\ Identify(caller) = Identity

Readings == {t \in Times : t <= clock /\ clock <= t + MaxDelay}

Dispatch(caller, now) == Counts(caller) /\ now \in Readings /\ (Allow(now) \/ Refuse(now))

-----------------------------------------------------------------------------

\* Redis drops the bucket; the next script starts with a full one.
Expire ==
  /\ Present
  /\ clock >= touched + TTL
  /\ bucket' = NoBucket
  /\ UNCHANGED <<clock, touched, granted, rewound>>

Tick ==
  /\ clock < MaxTime
  /\ clock' = clock + 1
  /\ UNCHANGED <<bucket, touched, granted, rewound>>

Next ==
  \/ \E caller \in Callers, now \in Times : Dispatch(caller, now)
  \/ Expire
  \/ Tick

Spec == Init /\ [][Next]_vars

-----------------------------------------------------------------------------
(* Properties                                                               *)

\* The bucket never holds more than its capacity, and never less than nothing; its time
\* is one that has been.
RateTypeOK ==
  /\ clock \in Times
  /\ touched \in 0..clock
  /\ rewound \in Nat
  /\ granted \in [Times \X Times -> Nat]
  /\ Present => bucket.tokens \in 0..Capacity /\ bucket.updated_at \in 0..touched

\* RedisTokenBucket: "the aggregate rate ... stays correctly bounded". In no stretch of
\* time is more granted than a full bucket and what is refilled meanwhile, plus what
\* updated_at was moved backwards by: as long as the scripts run in the order of the
\* readings, the last term is 0. A bucket that expired had been full.
BurstsAreBounded ==
  \A a, b \in Times : a <= b => granted[<<a, b>>] <= Capacity + (b - a) + rewound

\* Nobody is refused who has stayed within the rate: when a request is refused, enough
\* was granted in some stretch of time up to then to leave less than the cost of one.
\* Refused requests, however many, do not put off the next one that is granted.
RefusedOnlyWhenSpent ==
  [][bucket' \notin {bucket, NoBucket} /\ granted' = granted =>
       \E a \in 0..clock :
         granted[<<a, clock>>] - Positive(bucket'.updated_at - a) > Capacity - Cost]_vars
===============================================================================
