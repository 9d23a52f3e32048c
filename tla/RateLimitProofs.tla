---------------------------- MODULE RateLimitProofs ----------------------------
(***************************************************************************)
(* Machine-checked proofs about RateLimit: for any capacity, cost, expiry  *)
(* time, delay of the readings and length of the run.                      *)
(***************************************************************************)
EXTENDS RateLimit, TLAPS

-----------------------------------------------------------------------------
(* The arithmetic of one bucket                                            *)

LEMMA TokensBounds ==
  ASSUME RateTypeOK, NEW now \in Times
  PROVE  /\ Tokens(now) \in 0..Capacity
         /\ Present => Tokens(now) <= bucket.tokens + Positive(now - bucket.updated_at)
         /\ ~Present => Tokens(now) = Capacity
  BY RateLimitAssumption DEF RateTypeOK, Tokens, Capped, Positive, Times

LEMMA StoredFields ==
  ASSUME NEW n, NEW now, Stored(n, now)
  PROVE  /\ bucket'.tokens = n
         /\ bucket'.updated_at = now
         /\ touched' = clock
         /\ rewound' = rewound + (IF Present THEN Positive(bucket.updated_at - now) ELSE 0)
  BY DEF Stored

\* Storing at least nothing leaves a bucket there.
LEMMA StoredPresent ==
  ASSUME NEW n \in Nat, NEW now, Stored(n, now)
  PROVE  Present'
  <1>1. bucket'.tokens # NoBucket.tokens
    BY StoredFields DEF NoBucket
  <1> QED
    BY <1>1 DEF Present

-----------------------------------------------------------------------------
(* Typing                                                                   *)

LEMMA StoredTyped ==
  ASSUME RateTypeOK, NEW n \in 0..Capacity, NEW now \in Readings, Stored(n, now),
         clock' = clock
  PROVE  /\ clock' \in Times /\ touched' \in 0..clock' /\ rewound' \in Nat
         /\ bucket'.tokens \in 0..Capacity
         /\ bucket'.updated_at \in 0..touched'
  <1>1. now \in 0..clock
    BY DEF Readings, Times
  <1>2. rewound' \in Nat
    <2>1. CASE Present
      <3>1. bucket.updated_at - now \in Int
        BY <2>1, <1>1 DEF RateTypeOK, Times
      <3> QED
        BY <2>1, <3>1, StoredFields DEF RateTypeOK, Positive
    <2>2. CASE ~Present
      BY <2>2, StoredFields DEF RateTypeOK
    <2> QED
      BY <2>1, <2>2
  <1> QED
    BY <1>1, <1>2, StoredFields DEF RateTypeOK, Times

\* Whatever order readings arrive in and whenever the bucket expires, it holds between 0
\* and Capacity tokens.
LEMMA RateTyped == Spec => []RateTypeOK
  <1>1. Init => RateTypeOK
    BY RateLimitAssumption DEF Init, RateTypeOK, Times, Present
  <1>2. RateTypeOK /\ [Next]_vars => RateTypeOK'
    <2> SUFFICES ASSUME RateTypeOK, [Next]_vars
                 PROVE  RateTypeOK'
      OBVIOUS
    <2>1. ASSUME NEW now \in Readings, Allow(now)
          PROVE  RateTypeOK'
      <3>1. now \in Times
        BY DEF Readings
      <3>2. Tokens(now) - Cost \in 0..Capacity
        BY <2>1, <3>1, TokensBounds, RateLimitAssumption DEF Allow
      <3>3. granted' \in [Times \X Times -> Nat]
        BY <2>1, RateLimitAssumption DEF Allow, RateTypeOK
      <3> QED
        BY <2>1, <3>2, <3>3, StoredTyped DEF Allow, RateTypeOK
    <2>2. ASSUME NEW now \in Readings, Refuse(now)
          PROVE  RateTypeOK'
      <3>1. Tokens(now) \in 0..Capacity
        BY TokensBounds DEF Readings
      <3> QED
        BY <2>2, <3>1, StoredTyped DEF Refuse, RateTypeOK
    <2>3. CASE Expire
      BY <2>3 DEF Expire, RateTypeOK, Present
    <2>4. CASE Tick
      BY <2>4, RateLimitAssumption DEF Tick, RateTypeOK, Times, Present
    <2>5. CASE UNCHANGED vars
      BY <2>5 DEF vars, RateTypeOK, Present
    <2> QED
      BY <2>1, <2>2, <2>3, <2>4, <2>5 DEF Next, Dispatch
  <1> QED
    BY <1>1, <1>2, PTL DEF Spec

-----------------------------------------------------------------------------
(* What is granted is bounded                                               *)

\* What was granted from a to b. While the bucket is there, its tokens count as granted
\* already. While it is not, what was granted fits into the time before the earliest
\* reading that may still come, so the next bucket may start full.
BurstInv(a, b) ==
  LET n == granted[<<a, b>>] IN
  /\ n <= Capacity + (b - a) + rewound
  /\ Present => n = 0 \/ n + bucket.tokens <= Capacity + (bucket.updated_at - a) + rewound
  /\ ~Present => n = 0 \/ n + MaxDelay <= (clock - a) + rewound

LEMMA GrantedTyped ==
  ASSUME RateTypeOK, NEW a \in Times, NEW b \in Times
  PROVE  granted[<<a, b>>] \in Nat
  BY DEF RateTypeOK

\* The new figures of a stretch, whose old one is either kept or raised at a reading in it.
LEMMA BurstArithmetic ==
  ASSUME NEW old \in Nat, NEW new \in Nat, NEW found \in Nat, NEW n \in Nat, NEW taken \in Nat,
         NEW a \in Nat, NEW b \in Nat, NEW now \in Nat, NEW before \in Nat, NEW after \in Nat,
         a <= b, before <= after, n + taken = found, found <= Capacity,
         old <= Capacity + (b - a) + before,
         old = 0 \/ old + found <= Capacity + (now - a) + after,
         new = old \/ (a <= now /\ now <= b /\ new = old + taken)
  PROVE  /\ new <= Capacity + (b - a) + after
         /\ new = 0 \/ new + n <= Capacity + (now - a) + after
  <1>1. CASE new = old
    BY <1>1, RateLimitAssumption
  <1>2. CASE a <= now /\ now <= b /\ new = old + taken
    <2>1. new + n = old + found
      BY <1>2
    <2>2. new + n <= Capacity + (now - a) + after
      BY <1>2, <2>1, RateLimitAssumption
    <2> QED
      BY <1>2, <2>2, RateLimitAssumption
  <1> QED
    BY <1>1, <1>2

\* A script leaves n tokens and grants taken, which counts for a stretch that the reading
\* lies in.
LEMMA StoredBurst ==
  ASSUME RateTypeOK, NEW a \in Times, NEW b \in Times, a <= b, BurstInv(a, b),
         NEW now \in Readings, NEW n \in 0..Capacity, NEW taken \in Nat,
         n + taken = Tokens(now), Stored(n, now),
         granted'[<<a, b>>] =
           granted[<<a, b>>] + IF a <= now /\ now <= b THEN taken ELSE 0
  PROVE  BurstInv(a, b)'
  <1> DEFINE old == granted[<<a, b>>]
             new == granted'[<<a, b>>]
             before == bucket.updated_at
             held == bucket.tokens
  <1>1. now \in Nat /\ now \in Times /\ now <= clock /\ clock <= now + MaxDelay
    BY DEF Readings, Times
  <1>2. a \in Nat /\ b \in Nat /\ clock \in Nat /\ rewound \in Nat /\ old \in Nat
    BY GrantedTyped DEF Times, RateTypeOK
  <1>3. Present' /\ bucket'.tokens = n /\ bucket'.updated_at = now
    BY StoredPresent, StoredFields
  <1>4. Tokens(now) \in 0..Capacity /\ n \in Nat /\ n <= Capacity /\ n <= Tokens(now)
    BY <1>1, TokensBounds, RateLimitAssumption
  <1>5. new \in Nat /\ (new = old \/ (a <= now /\ now <= b /\ new = old + taken))
    BY <1>2
  <1>6. rewound' \in Nat /\ rewound <= rewound'
    <2>1. CASE Present
      <3>1. before \in Nat
        BY <2>1 DEF RateTypeOK
      <3> QED
        BY <2>1, <3>1, <1>1, <1>2, StoredFields DEF Positive
    <2>2. CASE ~Present
      BY <2>2, <1>2, StoredFields
    <2> QED
      BY <2>1, <2>2
  <1>7. old = 0 \/ old + Tokens(now) <= Capacity + (now - a) + rewound'
    <2>1. CASE Present
      <3>1. before \in Nat /\ held \in Nat
        BY <2>1 DEF RateTypeOK
      <3>2. Tokens(now) <= held + Positive(now - before)
        BY <1>1, <2>1, TokensBounds
      <3>3. rewound' = rewound + Positive(before - now)
        BY <2>1, StoredFields
      <3>4. now + Positive(before - now) = before + Positive(now - before)
        BY <1>1, <3>1 DEF Positive
      <3>5. Positive(now - before) \in Nat /\ Positive(before - now) \in Nat
        BY <1>1, <3>1 DEF Positive
      <3>6. old = 0 \/ old + held <= Capacity + (before - a) + rewound
        BY <2>1 DEF BurstInv
      <3> HIDE DEF before, held, old
      <3> QED
        BY <3>1, <3>2, <3>3, <3>4, <3>5, <3>6, <1>1, <1>2, <1>4, RateLimitAssumption
    <2>2. CASE ~Present
      <3>1. rewound' = rewound
        BY <2>2, <1>2, StoredFields
      <3>2. old = 0 \/ old + MaxDelay <= (clock - a) + rewound
        BY <2>2 DEF BurstInv
      <3> HIDE DEF old
      <3> QED
        BY <3>1, <3>2, <1>1, <1>2, <1>4, RateLimitAssumption
    <2> QED
      BY <2>1, <2>2
  <1>8. old <= Capacity + (b - a) + rewound
    BY DEF BurstInv
  <1>9. /\ new <= Capacity + (b - a) + rewound'
        /\ new = 0 \/ new + n <= Capacity + (now - a) + rewound'
    BY <1>1, <1>2, <1>4, <1>5, <1>6, <1>7, <1>8, BurstArithmetic, RateLimitAssumption
  <1> QED
    BY <1>3, <1>9 DEF BurstInv

\* A bucket expires only when it has had the time to fill up, whatever reading comes next.
LEMMA ExpireBurst ==
  ASSUME RateTypeOK, NEW a \in Times, NEW b \in Times, BurstInv(a, b), Expire
  PROVE  BurstInv(a, b)'
  <1> DEFINE held == bucket.tokens
             before == bucket.updated_at
             n == granted[<<a, b>>]
  <1>1. /\ clock \in Nat /\ touched \in Nat /\ rewound \in Nat /\ a \in Nat /\ n \in Nat
        /\ held \in Nat /\ before \in Nat /\ before <= touched
    BY GrantedTyped DEF Expire, RateTypeOK, Times
  <1>2. n = 0 \/ n + held <= Capacity + (before - a) + rewound
    BY DEF Expire, BurstInv
  <1>3. touched + TTL <= clock
    BY <1>1, RateLimitAssumption DEF Expire
  <1>4. n = 0 \/ n + MaxDelay <= (clock - a) + rewound
    <2> HIDE DEF held, before, n
    <2> QED
      BY <1>1, <1>2, <1>3, RateLimitAssumption
  <1> QED
    BY <1>4 DEF Expire, BurstInv, Present

LEMMA TickBurst ==
  ASSUME RateTypeOK, NEW a \in Times, NEW b \in Times, BurstInv(a, b), Tick
  PROVE  BurstInv(a, b)'
  <1> DEFINE n == granted[<<a, b>>]
  <1>1. clock \in Nat /\ rewound \in Nat /\ a \in Nat /\ b \in Nat /\ n \in Nat
    BY GrantedTyped DEF RateTypeOK, Times
  <1>2. ~Present => n = 0 \/ n + MaxDelay <= (clock' - a) + rewound
    <2>1. ~Present => n = 0 \/ n + MaxDelay <= (clock - a) + rewound
      BY DEF BurstInv
    <2> HIDE DEF n
    <2> QED
      BY <1>1, <2>1, RateLimitAssumption DEF Tick
  <1> QED
    BY <1>2 DEF Tick, BurstInv, Present

BurstsInv == \A a, b \in Times : a <= b => BurstInv(a, b)

LEMMA BurstsStep ==
  ASSUME RateTypeOK, BurstsInv, [Next]_vars
  PROVE  BurstsInv'
  <1> SUFFICES ASSUME NEW a \in Times, NEW b \in Times, a <= b
               PROVE  BurstInv(a, b)'
    BY DEF BurstsInv, Times
  <1>1. BurstInv(a, b)
    BY DEF BurstsInv
  <1>2. ASSUME NEW now \in Readings, Allow(now)
        PROVE  BurstInv(a, b)'
    <2>1. Tokens(now) \in 0..Capacity
      BY TokensBounds DEF Readings
    <2>2. Tokens(now) - Cost \in 0..Capacity /\ (Tokens(now) - Cost) + Cost = Tokens(now)
      BY <1>2, <2>1, RateLimitAssumption DEF Allow
    <2>3. granted'[<<a, b>>] = granted[<<a, b>>] + IF a <= now /\ now <= b THEN Cost ELSE 0
      BY <1>2 DEF Allow
    <2> QED
      BY <1>1, <1>2, <2>2, <2>3, StoredBurst, RateLimitAssumption DEF Allow
  <1>3. ASSUME NEW now \in Readings, Refuse(now)
        PROVE  BurstInv(a, b)'
    <2>1. Tokens(now) \in 0..Capacity /\ Tokens(now) + 0 = Tokens(now)
      BY TokensBounds DEF Readings
    <2>2. granted'[<<a, b>>] = granted[<<a, b>>] + IF a <= now /\ now <= b THEN 0 ELSE 0
      BY <1>3, GrantedTyped DEF Refuse
    <2> QED
      BY <1>1, <1>3, <2>1, <2>2, StoredBurst DEF Refuse
  <1>4. CASE Expire
    BY <1>1, <1>4, ExpireBurst
  <1>5. CASE Tick
    BY <1>1, <1>5, TickBurst
  <1>6. CASE UNCHANGED vars
    BY <1>1, <1>6 DEF vars, BurstInv, Present
  <1> QED
    BY <1>2, <1>3, <1>4, <1>5, <1>6 DEF Next, Dispatch

\* The rate limit holds for every capacity, delay and order of the readings: what is
\* granted in any stretch of time exceeds a full bucket and the refill by no more than
\* updated_at was rewound.
THEOREM BurstsBounded == Spec => []BurstsAreBounded
  <1>1. Init => BurstsInv
    BY RateLimitAssumption DEF Init, BurstsInv, BurstInv, Present, Times
  <1>2. RateTypeOK /\ BurstsInv /\ [Next]_vars => BurstsInv'
    BY BurstsStep
  <1>3. BurstsInv => BurstsAreBounded
    BY DEF BurstsInv, BurstInv, BurstsAreBounded
  <1> QED
    BY <1>1, <1>2, <1>3, RateTyped, PTL DEF Spec

-----------------------------------------------------------------------------
(* Nobody is refused who stayed within the rate                             *)

\* No reading is later than the time, and a stretch that begins earlier has had as much
\* granted in it.
GrantsInOrder ==
  \A a, b \in Times :
    /\ \A c \in Times : a <= c => granted[<<c, b>>] <= granted[<<a, b>>]
    /\ clock <= b => granted[<<a, b>>] = granted[<<a, clock>>]

\* What the bucket lacks was granted in the stretch from some time on, and has not been
\* refilled since.
SpentSince(a, n, at) == granted[<<a, clock>>] - Positive(at - a) >= Capacity - n

LackWasGranted ==
  Present => \E a \in 0..clock : SpentSince(a, bucket.tokens, bucket.updated_at)

LEMMA GrantsStep ==
  ASSUME RateTypeOK, GrantsInOrder, [Next]_vars
  PROVE  GrantsInOrder'
  <1>1. ASSUME NEW now \in Readings, Allow(now)
        PROVE  GrantsInOrder'
    <2>0. clock' = clock
      BY <1>1 DEF Allow
    <2> SUFFICES ASSUME NEW a \in Times, NEW b \in Times
                 PROVE  /\ \A c \in Times : a <= c => granted'[<<c, b>>] <= granted'[<<a, b>>]
                        /\ clock <= b => granted'[<<a, b>>] = granted'[<<a, clock>>]
      BY <2>0 DEF GrantsInOrder
    <2>1. \A c, d \in Times :
            /\ granted[<<c, d>>] \in Nat
            /\ granted'[<<c, d>>] =
                 granted[<<c, d>>] + IF c <= now /\ now <= d THEN Cost ELSE 0
      BY <1>1, GrantedTyped DEF Allow
    <2>2. clock \in Times /\ now <= clock /\ now \in Nat
      BY DEF Readings, RateTypeOK, Times
    <2>3. ASSUME NEW c \in Times, a <= c
          PROVE  granted'[<<c, b>>] <= granted'[<<a, b>>]
      <3>1. granted[<<c, b>>] <= granted[<<a, b>>]
        BY <2>3 DEF GrantsInOrder
      <3> QED
        BY <2>1, <2>2, <2>3, <3>1, RateLimitAssumption DEF Times
    <2>4. ASSUME clock <= b
          PROVE  granted'[<<a, b>>] = granted'[<<a, clock>>]
      <3>1. granted[<<a, b>>] = granted[<<a, clock>>]
        BY <2>4 DEF GrantsInOrder
      <3> QED
        BY <2>1, <2>2, <2>4, <3>1, RateLimitAssumption DEF Times
    <2> QED
      BY <2>3, <2>4
  <1>2. ASSUME NEW now \in Readings, Refuse(now)
        PROVE  GrantsInOrder'
    BY <1>2 DEF GrantsInOrder, Refuse
  <1>3. CASE Tick
    <2> SUFFICES ASSUME NEW a \in Times, NEW b \in Times, clock + 1 <= b
                 PROVE  granted[<<a, b>>] = granted[<<a, clock + 1>>]
      BY <1>3 DEF GrantsInOrder, Tick
    <2>1. clock + 1 \in Times /\ clock <= clock + 1 /\ clock <= b
      BY <1>3, RateLimitAssumption DEF Tick, RateTypeOK, Times
    <2>2. granted[<<a, b>>] = granted[<<a, clock>>]
      BY <2>1 DEF GrantsInOrder
    <2>3. granted[<<a, clock + 1>>] = granted[<<a, clock>>]
      BY <2>1 DEF GrantsInOrder
    <2> QED
      BY <2>2, <2>3
  <1>4. CASE Expire \/ UNCHANGED vars
    BY <1>4 DEF GrantsInOrder, Expire, vars
  <1> QED
    BY <1>1, <1>2, <1>3, <1>4 DEF Next, Dispatch

\* A script that finds Tokens(now) and takes some of them leaves a lack that was granted.
LEMMA StoredSpent ==
  ASSUME RateTypeOK, GrantsInOrder, LackWasGranted,
         NEW now \in Readings, NEW taken \in Nat, taken <= Tokens(now),
         clock' = clock,
         \A a \in Times : granted'[<<a, clock>>] =
           granted[<<a, clock>>] + IF a <= now THEN taken ELSE 0
  PROVE  \E a \in 0..clock :
           granted'[<<a, clock>>] - Positive(now - a) >= Capacity - (Tokens(now) - taken)
  <1> DEFINE found == Tokens(now)
             G(a) == granted[<<a, clock>>]
             H(a) == granted'[<<a, clock>>]
  <1>1. now \in 0..clock /\ now \in Times /\ clock \in Times /\ clock \in Nat /\ now \in Nat
    BY DEF Readings, RateTypeOK, Times
  <1>2. found \in 0..Capacity /\ Capacity \in Nat
    BY <1>1, TokensBounds, RateLimitAssumption
  <1>3. \A a \in 0..clock : a \in Times /\ G(a) \in Nat
    BY <1>1, GrantedTyped, RateLimitAssumption DEF Times
  <1>4. \A a \in 0..clock : H(a) = G(a) + IF a <= now THEN taken ELSE 0
    BY <1>3
  <1>5. Positive(now - now) = 0
    BY <1>1 DEF Positive
  <1>6. CASE found = Capacity
    <2>1. H(now) >= taken
      BY <1>1, <1>3, <1>4
    <2>2. H(now) \in Nat
      BY <1>1, <1>3, <1>4
    <2>3. H(now) - Positive(now - now) >= Capacity - (found - taken)
      <3> HIDE DEF H, found
      <3> QED
        BY <1>2, <1>5, <1>6, <2>1, <2>2
    <2> QED
      BY <1>1, <2>3
  <1>7. CASE found # Capacity
    <2> DEFINE held == bucket.tokens
               before == bucket.updated_at
    <2>1. Present
      BY <1>7 DEF Tokens
    <2>2. held \in Nat /\ before \in Nat
      BY <2>1, RateLimitAssumption DEF RateTypeOK
    <2>3. found = held + Positive(now - before)
      BY <1>7, <2>1 DEF Tokens, Capped
    <2>4. PICK a \in 0..clock : SpentSince(a, held, before)
      BY <2>1 DEF LackWasGranted
    <2>5. G(a) - Positive(before - a) >= Capacity - held
      BY <2>4 DEF SpentSince
    <2>6. a \in Nat /\ G(a) \in Nat
      BY <1>3
    <2>7. CASE a <= now
      <3>1. H(a) = G(a) + taken
        BY <1>4, <2>7
      <3>2. H(a) - Positive(now - a) >= Capacity - (found - taken)
        <4> HIDE DEF G, H, found, held, before
        <4> QED
          BY <1>1, <1>2, <2>2, <2>3, <2>5, <2>6, <2>7, <3>1 DEF Positive
      <3> QED
        BY <3>2
    <2>8. CASE ~(a <= now)
      <3>1. G(a) <= G(now)
        BY <1>1, <1>3, <2>6, <2>8 DEF GrantsInOrder
      <3>2. H(now) = G(now) + taken /\ G(now) \in Nat
        BY <1>1, <1>3, <1>4
      <3>3. H(now) - Positive(now - now) >= Capacity - (found - taken)
        <4> HIDE DEF G, H, found, held, before
        <4> QED
          BY <1>1, <1>2, <1>5, <2>2, <2>3, <2>5, <2>6, <2>8, <3>1, <3>2 DEF Positive
      <3> QED
        BY <1>1, <3>3
    <2> QED
      BY <2>7, <2>8
  <1> QED
    BY <1>6, <1>7

LEMMA AllowSpent ==
  ASSUME RateTypeOK, GrantsInOrder, LackWasGranted, NEW now \in Readings, Allow(now)
  PROVE  LackWasGranted'
  <1>1. Cost \in Nat /\ Cost <= Tokens(now) /\ clock' = clock
    BY RateLimitAssumption, TokensBounds DEF Allow, Readings
  <1>2. \A a \in Times : granted'[<<a, clock>>] =
                           granted[<<a, clock>>] + IF a <= now THEN Cost ELSE 0
    BY DEF Allow, Readings, RateTypeOK
  <1>3. PICK a \in 0..clock :
          granted'[<<a, clock>>] - Positive(now - a) >= Capacity - (Tokens(now) - Cost)
    BY <1>1, <1>2, StoredSpent
  <1>4. bucket'.tokens = Tokens(now) - Cost /\ bucket'.updated_at = now
    BY StoredFields DEF Allow
  <1> QED
    BY <1>1, <1>3, <1>4 DEF LackWasGranted, SpentSince

\* A refusal finds too little, so that much was granted and not refilled.
LEMMA RefuseSpent ==
  ASSUME RateTypeOK, GrantsInOrder, LackWasGranted, NEW now \in Readings, Refuse(now)
  PROVE  /\ LackWasGranted'
         /\ \E a \in 0..clock :
              granted[<<a, clock>>] - Positive(bucket'.updated_at - a) > Capacity - Cost
  <1>1. Tokens(now) \in 0..Capacity /\ Tokens(now) < Cost /\ clock' = clock
    BY TokensBounds DEF Refuse, Readings
  <1>2. \A a \in Times : granted'[<<a, clock>>] =
                           granted[<<a, clock>>] + IF a <= now THEN 0 ELSE 0
    BY GrantedTyped DEF Refuse, RateTypeOK
  <1>3. PICK a \in 0..clock :
          granted'[<<a, clock>>] - Positive(now - a) >= Capacity - (Tokens(now) - 0)
    BY <1>1, <1>2, StoredSpent, RateLimitAssumption
  <1>4. bucket'.tokens = Tokens(now) /\ bucket'.updated_at = now /\ granted' = granted
    BY StoredFields DEF Refuse
  <1>5. Tokens(now) - 0 = Tokens(now)
    BY <1>1
  <1>6. LackWasGranted'
    BY <1>1, <1>3, <1>4, <1>5 DEF LackWasGranted, SpentSince
  <1>7. granted[<<a, clock>>] - Positive(bucket'.updated_at - a) > Capacity - Cost
    <2>1. granted[<<a, clock>>] \in Nat
      BY GrantedTyped, RateLimitAssumption DEF RateTypeOK, Times
    <2>2. Positive(now - a) \in Int
      BY DEF Positive, Readings, Times, RateTypeOK
    <2> QED
      BY <1>1, <1>3, <1>4, <1>5, <2>1, <2>2, RateLimitAssumption
  <1> QED
    BY <1>6, <1>7

LEMMA SpentStep ==
  ASSUME RateTypeOK, GrantsInOrder, LackWasGranted, [Next]_vars
  PROVE  LackWasGranted'
  <1>1. CASE Tick
    <2> SUFFICES ASSUME Present
                 PROVE  LackWasGranted'
      BY <1>1 DEF Tick, LackWasGranted, Present
    <2>1. PICK a \in 0..clock : SpentSince(a, bucket.tokens, bucket.updated_at)
      BY DEF LackWasGranted
    <2>2. clock + 1 \in Times /\ clock <= clock + 1 /\ a \in Times /\ a \in 0..clock + 1
      BY <1>1, RateLimitAssumption DEF Tick, RateTypeOK, Times
    <2>3. granted[<<a, clock + 1>>] = granted[<<a, clock>>]
      BY <2>2 DEF GrantsInOrder
    <2> QED
      BY <1>1, <2>1, <2>2, <2>3 DEF Tick, LackWasGranted, SpentSince
  <1>2. CASE Expire
    BY <1>2 DEF Expire, LackWasGranted, Present
  <1>3. CASE UNCHANGED vars
    BY <1>3 DEF vars, LackWasGranted, SpentSince, Present
  <1> QED
    BY <1>1, <1>2, <1>3, AllowSpent, RefuseSpent DEF Next, Dispatch

\* Refusals are just for every capacity, delay and order of the readings: whenever one is
\* given, more than the bucket without the cost of a request was granted in some stretch
\* of time and not refilled since.
THEOREM RefusalsAreJust == Spec => RefusedOnlyWhenSpent
  <1> DEFINE Inv == GrantsInOrder /\ LackWasGranted
             Refused == bucket' \notin {bucket, NoBucket} /\ granted' = granted
             Spent == \E a \in 0..clock :
                        granted[<<a, clock>>] - Positive(bucket'.updated_at - a)
                          > Capacity - Cost
  <1>1. Init => Inv
    BY RateLimitAssumption DEF Init, GrantsInOrder, LackWasGranted, Present, Times
  <1>2. RateTypeOK /\ Inv /\ [Next]_vars => Inv'
    BY GrantsStep, SpentStep
  <1>3. RateTypeOK /\ Inv /\ [Next]_vars => [Refused => Spent]_vars
    <2> SUFFICES ASSUME RateTypeOK, Inv, [Next]_vars, Refused
                 PROVE  Spent
      OBVIOUS
    <2>1. ASSUME NEW now \in Readings, Allow(now)
          PROVE  FALSE
      <3>1. now \in Times /\ now <= now
        BY DEF Readings, Times
      <3>2. granted'[<<now, now>>] = granted[<<now, now>>] + Cost
        BY <2>1, <3>1 DEF Allow
      <3> QED
        BY <3>1, <3>2, GrantedTyped, RateLimitAssumption
    <2>2. ASSUME NEW now \in Readings, Refuse(now)
          PROVE  Spent
      BY <2>2, RefuseSpent
    <2> QED
      BY <2>1, <2>2 DEF Next, Dispatch, Expire, Tick, vars
  <1> QED
    BY <1>1, <1>2, <1>3, RateTyped, PTL DEF Spec, RefusedOnlyWhenSpent
===============================================================================
