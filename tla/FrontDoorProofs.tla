---------------------------- MODULE FrontDoorProofs ----------------------------
(***************************************************************************)
(* Proofs, for any number of clients, requests and keys and any limits, of *)
(* what forgetting buckets may give a client, and of what the cached keys  *)
(* of the identity provider may still be.                                  *)
(***************************************************************************)
EXTENDS FrontDoor, TLAPS

USE KeysetAssumption, LimiterAssumption DEF Never

-----------------------------------------------------------------------------
LEMMA InitInv == Init => IInv
<1> SUFFICES ASSUME Init PROVE IInv
  OBVIOUS
<1> USE DEF Init, KeysetInit
<1>1. PICK visit \in Visits(settings) :
        /\ pc = [r \in Requests |-> IF r \in DOMAIN visit THEN "new" ELSE "absent"]
        /\ client = [r \in Requests |->
                       IF r \in DOMAIN visit THEN visit[r].client ELSE None]
  OBVIOUS
<1>2. /\ pc \in [Requests -> {"new", "absent"}]
      /\ client \in [Requests -> Clients \cup {None}]
      /\ \A r \in Requests : pc[r] = "new" => client[r] \in Clients
  BY <1>1, VisitsAssumption
<1>3. TypeOK
  BY <1>2, VisitsAssumption DEF TypeOK, Places
<1>4. TimeInv /\ KeysInv
  BY <1>2, VisitsAssumption DEF TimeInv, KeysInv, Hurried
<1>5. HolderInv /\ BucketInv
  BY <1>2 DEF HolderInv, BucketInv
<1> QED BY <1>3, <1>4, <1>5 DEF IInv

-----------------------------------------------------------------------------
(* A bucket that is filled stays a bucket. *)
LEMMA FilledTyped ==
  ASSUME NEW n \in 0..Burst
  PROVE  Filled(n) \in 0..Burst /\ Filled(n) >= n
  BY DEF Filled

LEMMA AuthPlaces ==
  ASSUME NEW r
  PROVE  authMW(r) \in {"serve", "refused", "look"}
  BY DEF authMW

LEMMA VerifyType == ASSUME TypeOK, NEW r \in Requests, Verify(r) PROVE TypeOK'
<1> USE DEF Verify, FindKey, GoTo, Places, cache, provider, server, limiter
<1>1. CASE KeyByID(r)
  <2>1. pc' \in [Requests -> Places] /\ since' \in [Requests -> Nat]
    BY <1>1 DEF TypeOK, KeyByID
  <2> QED BY <1>1, <2>1 DEF TypeOK, KeyByID
<1>2. CASE Fetch(r)
  BY <1>2 DEF TypeOK, Fetch
<1>3. CASE FetchFails(r)
  BY <1>3 DEF TypeOK, FetchFails
<1>4. CASE Install(r)
  BY <1>4 DEF TypeOK, Install
<1>5. CASE Reread(r)
  <2>1. pc' \in [Requests -> Places] /\ since' \in [Requests -> Nat]
    BY <1>5 DEF TypeOK, Reread, Missing
  <2> QED BY <1>5, <2>1 DEF TypeOK, Reread
<1> QED BY <1>1, <1>2, <1>3, <1>4, <1>5

LEMMA TypeStep == TypeOK /\ HolderInv /\ BucketInv /\ [Next]_vars => TypeOK'
<1> SUFFICES ASSUME TypeOK, HolderInv, BucketInv, [Next]_vars PROVE TypeOK'
  OBVIOUS
<1> USE DEF keysetVars, cache, provider, server, limiter
<1>1. CASE UNCHANGED vars
  BY <1>1 DEF TypeOK, vars
<1>2. CASE Boot \/ Discover \/ Signal
  BY <1>2 DEF TypeOK, Boot, Discover, Signal
<1>3. CASE Shutdown
  BY <1>3 DEF TypeOK, Shutdown, Places
<1>4. CASE Tick
  BY <1>4, FilledTyped DEF TypeOK, Tick
<1>5. CASE KeysRotate
  BY <1>5 DEF TypeOK, KeysRotate, Rotate
<1>6. ASSUME NEW r \in Requests, Handle(r) PROVE TypeOK'
  <2>1. CASE TooLarge(r)
    BY <2>1 DEF TypeOK, TooLarge, GoTo, Places
  <2>2. CASE GetBucket(r)
    <3>1. client[r] \in Clients
      BY <2>2 DEF GetBucket, HolderInv
    <3>2. pc' \in [Requests -> Places] /\ since' \in [Requests -> Nat]
      BY <2>2 DEF TypeOK, GetBucket, GoTo, Places
    <3>3. /\ bucketOf' \in [Clients -> Requests \cup {None}]
          /\ holds' \in [Requests -> Requests \cup {None}]
      BY <2>2, <3>1 DEF TypeOK, GetBucket, Insert
    <3>4. seen' \in [Clients -> Nat]
      BY <2>2, <3>1 DEF TypeOK, GetBucket
    <3>5. UNCHANGED <<now, got, keys, fetchedAt, published, withdrawn, overtaken, phase,
                      client, tokens>>
      BY <2>2 DEF GetBucket
    <3>6. due' \in [Clients -> 0..Burst]
      BY <2>2, <3>1 DEF TypeOK, GetBucket
    <3> QED BY <3>1, <3>2, <3>3, <3>4, <3>5, <3>6 DEF TypeOK
  <2>3. CASE Allow(r)
    <3>1. client[r] \in Clients /\ holds[r] \in Requests
      BY <2>3 DEF Allow, HolderInv
    <3>2. pc' \in [Requests -> Places] /\ since' \in [Requests -> Nat]
      BY <2>3, AuthPlaces DEF TypeOK, Allow, GoTo, Places
    <3>3. tokens[holds[r]] <= due[client[r]]
      BY <2>3, <3>1, VisitsAssumption DEF Allow, HolderInv, BucketInv
    <3>4. tokens' \in [Requests -> 0..Burst] /\ due' \in [Clients -> 0..Burst]
      BY <2>3, <3>1, <3>3 DEF TypeOK, Allow
    <3> QED BY <2>3, <3>2, <3>4 DEF TypeOK, Allow
  <2>4. CASE Unlimited(r)
    BY <2>4, AuthPlaces DEF TypeOK, Unlimited, GoTo, Places
  <2>5. CASE Verify(r)
    BY <2>5, VerifyType
  <2>6. CASE CheckToken(r) \/ Serve(r)
    BY <2>6 DEF TypeOK, CheckToken, Serve, GoTo, Places
  <2> QED BY <1>6, <2>1, <2>2, <2>3, <2>4, <2>5, <2>6 DEF Handle
<1> QED BY <1>1, <1>2, <1>3, <1>4, <1>5, <1>6 DEF Next

-----------------------------------------------------------------------------
(* Time: nobody is left alone for too long, and nobody is in a hurry who was
   not already, or begins to be it now. *)
LEMMA HurryStep ==
  ASSUME TypeOK, [Next]_vars, ~Tick, NEW q \in Requests, pc'[q] \in Hurried
  PROVE  /\ now' = now
         /\ \/ pc[q] \in Hurried /\ since'[q] = since[q] /\ Patience(pc'[q]) = Patience(pc[q])
            \/ since'[q] = now
<1> USE DEF Hurried
<1>1. CASE UNCHANGED vars
  BY <1>1 DEF vars
<1>2. CASE Boot \/ Discover \/ Signal \/ KeysRotate
  BY <1>2 DEF Boot, Discover, Signal, KeysRotate
<1>3. CASE Shutdown
  BY <1>3 DEF TypeOK, Shutdown, InFlight, Over
<1>4. ASSUME NEW r \in Requests, Handle(r)
      PROVE  /\ now' = now
             /\ \/ pc[q] \in Hurried /\ since'[q] = since[q] /\ Patience(pc'[q]) = Patience(pc[q])
                \/ since'[q] = now
  <2>1. CASE Fetch(r) /\ Verify(r)
    BY <2>1 DEF TypeOK, Fetch, Verify, Patience
  <2>2. now' = now
    BY <1>4 DEF Handle, TooLarge, GetBucket, Allow, Unlimited, Verify, CheckToken, Serve
  <2>3. CASE \E where : GoTo(r, where)
    BY <2>2, <2>3 DEF TypeOK, GoTo
  <2>4. CASE TooLarge(r) \/ GetBucket(r) \/ Allow(r)
    BY <2>3, <2>4 DEF TooLarge, GetBucket, Allow
  <2>5. CASE Unlimited(r) \/ CheckToken(r) \/ Serve(r)
    BY <2>3, <2>5 DEF Unlimited, CheckToken, Serve
  <2>6. CASE Verify(r)
    BY <2>1, <2>3, <2>6 DEF Verify, FindKey, KeyByID, FetchFails, Install, Reread
  <2> QED BY <1>4, <2>4, <2>5, <2>6 DEF Handle
<1> QED BY <1>1, <1>2, <1>3, <1>4 DEF Next

LEMMA TimeStep == TypeOK /\ TypeOK' /\ TimeInv /\ [Next]_vars => TimeInv'
<1> SUFFICES ASSUME TypeOK, TypeOK', TimeInv, [Next]_vars, NEW q \in Requests, pc'[q] \in Hurried
             PROVE  since'[q] <= now' /\ now' - since'[q] <= Patience(pc'[q])
  BY DEF TimeInv
<1>0. Patience(pc[q]) \in Nat /\ Patience(pc'[q]) \in Nat
  BY DEF Patience
<1>1. CASE Tick
  <2>1. pc' = pc /\ since' = since /\ now' = now + 1 /\ now - since[q] < Patience(pc[q])
    BY <1>1 DEF Tick
  <2> QED BY <1>0, <2>1 DEF TypeOK, TimeInv
<1>2. CASE ~Tick
  BY <1>0, <1>2, HurryStep DEF TypeOK, TimeInv
<1> QED BY <1>1, <1>2

-----------------------------------------------------------------------------
(* The limiter. *)

LEMMA Multiples ==
  ASSUME NEW n \in Int
  PROVE  /\ Refill * (n + 1) = Refill * n + Refill
         /\ n <= 0 => Refill * n <= 0
<1>1. Refill * (n + 1) = Refill * n + Refill
  OBVIOUS
<1>2. n <= 0 => Refill * n <= 0
  OBVIOUS
<1> QED BY <1>1, <1>2

(* Nobody holds a bucket that is idle. *)
LEMMA IdleIsFree ==
  ASSUME IInv, NEW d \in Clients, Away(d), NEW q \in Requests, pc[q] = "limited"
  PROVE  client[q] # d
<1>1. now - since[q] <= Pause
  BY DEF IInv, TimeInv, Hurried, Patience
<1>2. since[q] <= seen[client[q]]
  BY DEF IInv, HolderInv
<1> QED BY <1>1, <1>2 DEF IInv, TypeOK, Away

LEMMA InsertStep ==
  ASSUME IInv, NEW r \in Requests, GetBucket(r), bucketOf[client[r]] = None
  PROVE  /\ bucketOf'[client[r]] = r /\ holds'[r] = r
         /\ \A d \in Clients \ {client[r]} :
              \/ bucketOf'[d] = bucketOf[d]
              \/ bucketOf'[d] = None /\ Away(d)
         /\ \A q \in Requests \ {r} : holds'[q] = holds[q]
<1>1. client[r] \in Clients /\ Insert(r, client[r])
  BY VisitsAssumption DEF IInv, TypeOK, HolderInv, GetBucket
<1> QED BY <1>1 DEF IInv, TypeOK, Insert, Idle, Away

LEMMA LimiterStep == IInv /\ TypeOK' /\ [Next]_vars => HolderInv' /\ BucketInv'
<1> SUFFICES ASSUME IInv, TypeOK', [Next]_vars PROVE HolderInv' /\ BucketInv'
  OBVIOUS
<1>0. TypeOK /\ HolderInv /\ BucketInv /\ None \notin Requests
  BY VisitsAssumption DEF IInv
<1>1. ASSUME UNCHANGED <<now, client, bucketOf, tokens, seen, holds, due>>,
             \A q \in Requests :
               /\ pc'[q] = "absent" <=> pc[q] = "absent"
               /\ pc'[q] = "new" => pc[q] = "new"
               /\ pc'[q] = "limited" => pc[q] = "limited" /\ since'[q] = since[q]
      PROVE  HolderInv' /\ BucketInv'
  <2>1. HolderInv'
    BY <1>0, <1>1 DEF HolderInv
  <2>2. BucketInv'
    BY <1>0, <1>1 DEF BucketInv, TypeOK, Away
  <2> QED BY <2>1, <2>2
<1>2. CASE UNCHANGED vars
  BY <1>1, <1>2 DEF vars, limiter
<1>3. CASE Boot \/ Discover \/ Signal \/ KeysRotate
  BY <1>1, <1>3 DEF Boot, Discover, Signal, KeysRotate, limiter
<1>4. CASE Shutdown
  BY <1>0, <1>1, <1>4 DEF Shutdown, limiter, InFlight, Over, TypeOK
<1>5. CASE Tick
  <2>1. /\ UNCHANGED <<pc, since, client, bucketOf, seen, holds>>
        /\ now' = now + 1
        /\ tokens' = [b \in Requests |-> Filled(tokens[b])]
        /\ due' = [c \in Clients |-> Filled(due[c])]
    BY <1>5 DEF Tick, server
  <2>2. HolderInv'
    <3>1. Filled(Burst) = Burst
      BY DEF Filled
    <3> QED BY <1>0, <2>1, <3>1 DEF HolderInv
  <2>3. ASSUME NEW c \in Clients
        PROVE  due'[c] = Burst \/ due'[c] >= Refill * (now' - seen'[c] - Pause)
    <3> DEFINE n == now - seen[c] - Pause
    <3>1. n \in Int /\ now' - seen'[c] - Pause = n + 1 /\ due[c] \in 0..Burst
      BY <1>0, <2>1 DEF TypeOK
    <3>2. due[c] = Burst \/ due[c] >= Refill * n
      BY <1>0 DEF BucketInv
    <3>3. Refill * (n + 1) = Refill * n + Refill /\ Refill * n \in Int
      BY <3>1, Multiples
    <3>4. due'[c] = IF due[c] + Refill > Burst THEN Burst ELSE due[c] + Refill
      BY <2>1 DEF Filled
    <3> HIDE DEF n
    <3>5. due'[c] = Burst \/ due'[c] >= Refill * (n + 1)
      BY <3>1, <3>2, <3>3, <3>4
    <3> QED BY <3>1, <3>5
  <2>4. ASSUME NEW c \in Clients, bucketOf'[c] # None
        PROVE  /\ client'[bucketOf'[c]] = c /\ pc'[bucketOf'[c]] # "new"
               /\ tokens'[bucketOf'[c]] <= due'[c]
    <3>1. bucketOf[c] \in Requests /\ tokens[bucketOf[c]] \in 0..Burst /\ due[c] \in 0..Burst
      BY <1>0, <2>1, <2>4 DEF TypeOK
    <3>2. tokens[bucketOf[c]] <= due[c]
      BY <1>0, <2>1, <2>4 DEF BucketInv
    <3>3. Filled(tokens[bucketOf[c]]) <= Filled(due[c])
      BY <3>1, <3>2 DEF Filled
    <3> QED BY <1>0, <2>1, <2>4, <3>1, <3>3 DEF BucketInv
  <2>5. ASSUME NEW c \in Clients
        PROVE  seen'[c] <= now' /\ (bucketOf'[c] = None => due'[c] = Burst \/ Away(c)')
    BY <1>0, <2>1 DEF BucketInv, TypeOK, Filled, Away
  <2> QED BY <2>2, <2>3, <2>4, <2>5 DEF BucketInv
<1>6. ASSUME NEW r \in Requests, GetBucket(r) PROVE HolderInv' /\ BucketInv'
  <2> DEFINE c == client[r]
  <2>1. /\ c \in Clients /\ pc[r] = "new" /\ tokens[r] = Burst
        /\ pc'[r] = "limited" /\ since'[r] = now /\ seen' = [seen EXCEPT ![c] = now]
        /\ \A q \in Requests \ {r} : pc'[q] = pc[q] /\ since'[q] = since[q]
        /\ due' = [due EXCEPT ![c] = IF Away(c) THEN Burst ELSE @]
        /\ UNCHANGED <<now, client, tokens>>
    BY <1>0, <1>6 DEF GetBucket, GoTo, Hurried, TypeOK, HolderInv, server
  <2>2. /\ holds'[r] = bucketOf'[c] /\ holds'[r] \in Requests
        /\ \A q \in Requests \ {r} : holds'[q] = holds[q]
        /\ \A d \in Clients \ {c} :
             \/ bucketOf'[d] = bucketOf[d]
             \/ bucketOf'[d] = None /\ Away(d)
        /\ \/ bucketOf'[c] = bucketOf[c] /\ bucketOf[c] # None
           \/ bucketOf'[c] = r /\ bucketOf[c] = None
    <3>1. CASE bucketOf[c] = None
      BY <3>1, <1>6, InsertStep
    <3>2. CASE bucketOf[c] # None
      BY <1>0, <1>6, <2>1, <3>2 DEF GetBucket, TypeOK
    <3> QED BY <3>1, <3>2
  <2>3. HolderInv'
    <3>1. ASSUME NEW q \in Requests, q # r, pc'[q] = "limited"
          PROVE  /\ holds'[q] = bucketOf'[client'[q]] /\ holds'[q] \in Requests
                 /\ since'[q] <= seen'[client'[q]]
      <4>1. /\ holds[q] = bucketOf[client[q]] /\ holds[q] \in Requests /\ client[q] \in Clients
            /\ since[q] <= seen[client[q]] /\ seen[client[q]] <= now /\ pc[q] = "limited"
        BY <1>0, <2>1, <3>1 DEF HolderInv, BucketInv
      <4>2. CASE client[q] = c
        BY <1>0, <2>1, <2>2, <3>1, <4>1, <4>2 DEF TypeOK
      <4>3. CASE client[q] # c
        <5>1. ~Away(client[q])
          BY <4>1, IdleIsFree
        <5> QED BY <1>0, <2>1, <2>2, <3>1, <4>1, <4>3, <5>1 DEF TypeOK
      <4> QED BY <4>2, <4>3
    <3>2. since'[r] <= seen'[c]
      BY <1>0, <2>1 DEF TypeOK
    <3>3. \A q \in Requests : /\ pc'[q] # "absent" => client'[q] \in Clients
                              /\ pc'[q] = "new" => tokens'[q] = Burst
      BY <1>0, <2>1 DEF HolderInv
    <3> QED BY <2>1, <2>2, <3>1, <3>2, <3>3 DEF HolderInv
  <2>4. ASSUME NEW d \in Clients, d # c
        PROVE  /\ seen'[d] <= now'
               /\ bucketOf'[d] # None => /\ client'[bucketOf'[d]] = d /\ pc'[bucketOf'[d]] # "new"
                                         /\ tokens'[bucketOf'[d]] <= due'[d]
               /\ bucketOf'[d] = None => due'[d] = Burst \/ Away(d)'
               /\ due'[d] = Burst \/ due'[d] >= Refill * (now' - seen'[d] - Pause)
    <3>1. /\ seen[d] <= now
          /\ bucketOf[d] # None => /\ client[bucketOf[d]] = d /\ pc[bucketOf[d]] # "new"
                                   /\ tokens[bucketOf[d]] <= due[d]
          /\ bucketOf[d] = None => due[d] = Burst \/ Away(d)
          /\ due[d] = Burst \/ due[d] >= Refill * (now - seen[d] - Pause)
      BY <1>0 DEF BucketInv
    <3>2. /\ seen'[d] = seen[d] /\ now' = now /\ due'[d] = due[d]
          /\ Away(d)' <=> Away(d)
      BY <1>0, <2>1, <2>4 DEF TypeOK, Away
    <3>3. CASE bucketOf'[d] = bucketOf[d]
      BY <1>0, <2>1, <3>1, <3>2, <3>3 DEF TypeOK
    <3>4. CASE bucketOf'[d] = None /\ Away(d)
      BY <3>1, <3>2, <3>4
    <3> QED BY <2>2, <2>4, <3>3, <3>4
  <2>5. /\ seen'[c] <= now'
        /\ bucketOf'[c] # None => /\ client'[bucketOf'[c]] = c /\ pc'[bucketOf'[c]] # "new"
                                  /\ tokens'[bucketOf'[c]] <= due'[c]
        /\ bucketOf'[c] # None
    <3>1. /\ bucketOf[c] # None => /\ client[bucketOf[c]] = c /\ pc[bucketOf[c]] # "new"
                                   /\ tokens[bucketOf[c]] <= due[c]
          /\ bucketOf[c] = None => due[c] = Burst \/ Away(c)
      BY <1>0, <2>1 DEF BucketInv
    <3>2. seen'[c] = now /\ due'[c] = (IF Away(c) THEN Burst ELSE due[c])
      BY <1>0, <2>1 DEF TypeOK
    <3>3. /\ tokens[r] = Burst /\ due[c] \in 0..Burst
          /\ bucketOf[c] # None => tokens[bucketOf[c]] \in 0..Burst
      BY <1>0, <2>1 DEF TypeOK
    <3>4. CASE bucketOf'[c] = bucketOf[c] /\ bucketOf[c] # None
      BY <1>0, <2>1, <3>1, <3>2, <3>3, <3>4 DEF TypeOK
    <3>5. CASE bucketOf'[c] = r /\ bucketOf[c] = None
      BY <1>0, <2>1, <3>1, <3>2, <3>3, <3>5 DEF TypeOK
    <3> QED BY <2>2, <3>4, <3>5
  <2>6. due'[c] >= Refill * (now' - seen'[c] - Pause)
    <3>1. now' - seen'[c] - Pause = 0 - Pause
      BY <1>0, <2>1 DEF TypeOK
    <3>2. Refill * (0 - Pause) <= 0 /\ Refill * (0 - Pause) \in Int
      BY Multiples
    <3>3. due'[c] \in 0..Burst
      BY <2>1 DEF TypeOK
    <3> QED BY <3>1, <3>2, <3>3
  <2> QED BY <2>3, <2>4, <2>5, <2>6 DEF BucketInv
<1>7. ASSUME NEW r \in Requests, Allow(r) PROVE HolderInv' /\ BucketInv'
  <2> DEFINE c == client[r]  b == holds[r]
  <2>1. /\ pc[r] = "limited" /\ c \in Clients /\ b \in Requests /\ b = bucketOf[c]
        /\ since[r] <= seen[c] /\ client[b] = c /\ pc[b] # "new" /\ tokens[b] <= due[c]
    BY <1>0, <1>7 DEF Allow, HolderInv, BucketInv
  <2>2. /\ pc'[r] \in {"serve", "refused", "look"}
        /\ \A q \in Requests \ {r} : pc'[q] = pc[q] /\ since'[q] = since[q] /\ holds'[q] = holds[q]
        /\ UNCHANGED <<now, client, bucketOf, seen>>
    BY <1>0, <1>7, AuthPlaces DEF Allow, GoTo, TypeOK, server
  <2>3. \A q \in Requests : pc'[q] = "new" => pc[q] = "new" /\ q # b
    BY <2>1, <2>2
  <2>4. \/ tokens' = tokens /\ due' = due
        \/ /\ tokens[b] >= Token
           /\ tokens' = [tokens EXCEPT ![b] = @ - Token]
           /\ due' = [due EXCEPT ![c] = @ - Token]
    BY <1>7 DEF Allow
  <2>5. HolderInv'
    BY <1>0, <2>1, <2>2, <2>3, <2>4 DEF HolderInv, TypeOK
  <2>6. ASSUME NEW d \in Clients, d # c
        PROVE  /\ due'[d] = due[d]
               /\ bucketOf[d] # None => tokens'[bucketOf[d]] = tokens[bucketOf[d]]
    <3>1. bucketOf[d] # None => client[bucketOf[d]] = d /\ bucketOf[d] \in Requests
      BY <1>0 DEF BucketInv, TypeOK
    <3> QED BY <1>0, <2>1, <2>4, <2>6, <3>1 DEF TypeOK
  <2>7. tokens'[bucketOf[c]] <= due'[c]
    BY <1>0, <2>1, <2>4 DEF TypeOK
  <2>8. Refill * (now - seen[c] - Pause) <= 0
    <3>1. now - since[r] <= Pause /\ since[r] <= now
      BY <2>1 DEF IInv, TimeInv, Hurried, Patience
    <3>2. now - seen[c] - Pause \in Int /\ now - seen[c] - Pause <= 0
      BY <1>0, <2>1, <3>1 DEF TypeOK
    <3> QED BY <3>2, Multiples
  <2>9. due'[c] \in 0..Burst /\ Refill * (now - seen[c] - Pause) \in Int
    <3>1. now - seen[c] - Pause \in Int
      BY <1>0, <2>1 DEF TypeOK
    <3> QED BY <2>1, <3>1 DEF TypeOK
  <2>10. due'[c] >= Refill * (now - seen[c] - Pause)
    BY <2>8, <2>9
  <2>11. BucketInv'
    <3>1. ASSUME NEW d \in Clients, d # c
          PROVE  /\ seen'[d] <= now'
                 /\ bucketOf'[d] # None => /\ client'[bucketOf'[d]] = d /\ pc'[bucketOf'[d]] # "new"
                                           /\ tokens'[bucketOf'[d]] <= due'[d]
                 /\ bucketOf'[d] = None => due'[d] = Burst \/ Away(d)'
                 /\ due'[d] = Burst \/ due'[d] >= Refill * (now' - seen'[d] - Pause)
      BY <1>0, <2>2, <2>3, <2>6, <3>1 DEF BucketInv, TypeOK, Away
    <3>2. /\ seen'[c] <= now' /\ bucketOf'[c] # None
          /\ client'[bucketOf'[c]] = c /\ pc'[bucketOf'[c]] # "new"
      BY <1>0, <2>1, <2>2, <2>3 DEF BucketInv
    <3> QED BY <2>2, <2>7, <2>10, <3>1, <3>2 DEF BucketInv
  <2> QED BY <2>5, <2>11
<1>8. ASSUME NEW r \in Requests, Handle(r), ~GetBucket(r), ~Allow(r)
      PROVE  HolderInv' /\ BucketInv'
  <2>1. ASSUME NEW where, GoTo(r, where), where \notin {"absent", "new", "limited"}, pc[r] # "absent"
        PROVE  \A q \in Requests :
                 /\ pc'[q] = "absent" <=> pc[q] = "absent"
                 /\ pc'[q] = "new" => pc[q] = "new"
                 /\ pc'[q] = "limited" => pc[q] = "limited" /\ since'[q] = since[q]
    BY <1>0, <2>1 DEF GoTo, TypeOK
  <2>2. CASE TooLarge(r) \/ CheckToken(r) \/ Serve(r)
    BY <1>1, <2>1, <2>2 DEF TooLarge, CheckToken, Serve, limiter
  <2>3. CASE Unlimited(r)
    BY <1>1, <2>1, <2>3, AuthPlaces DEF Unlimited, limiter
  <2>4. CASE Verify(r)
    <3>1. CASE Fetch(r)
      BY <1>0, <1>1, <2>4, <3>1 DEF Verify, Fetch, TypeOK, limiter
    <3>2. CASE KeyByID(r)
      BY <1>1, <2>1, <2>4, <3>2 DEF Verify, KeyByID, limiter
    <3>3. CASE FetchFails(r) \/ Install(r)
      BY <1>1, <2>1, <2>4, <3>3 DEF Verify, FetchFails, Install, limiter
    <3>4. CASE Reread(r)
      <4>1. GoTo(r, IF kid[r] \in keys THEN "found" ELSE Missing(r)) /\ pc[r] = "reread"
        BY <3>4 DEF Reread
      <4>2. (IF kid[r] \in keys THEN "found" ELSE Missing(r)) \notin {"absent", "new", "limited"}
        BY DEF Missing
      <4> QED BY <1>1, <2>1, <2>4, <4>1, <4>2 DEF Verify, limiter
    <3> QED BY <2>4, <3>1, <3>2, <3>3, <3>4 DEF Verify, FindKey
  <2> QED BY <1>8, <2>2, <2>3, <2>4 DEF Handle
<1> QED BY <1>2, <1>3, <1>4, <1>5, <1>6, <1>7, <1>8 DEF Next

-----------------------------------------------------------------------------
(* The keys. *)
LEMMA KeysStep == IInv /\ TypeOK' /\ [Next]_vars => KeysInv'
<1> SUFFICES ASSUME IInv, TypeOK', [Next]_vars PROVE KeysInv'
  OBVIOUS
<1>0. TypeOK /\ KeysInv
  BY DEF IInv
<1>1. ASSUME UNCHANGED <<cache, provider, got, overtaken>>, now' >= now,
             \A q \in Requests : pc'[q] \in {"install", "reread"} =>
               pc[q] = pc'[q] /\ since'[q] = since[q]
      PROVE  KeysInv'
  <2>1. fetchedAt' <= now'
    BY <1>0, <1>1 DEF KeysInv, TypeOK, cache
  <2> QED BY <1>0, <1>1, <2>1 DEF KeysInv, cache, provider
<1>2. CASE UNCHANGED vars
  BY <1>0, <1>1, <1>2 DEF vars, keysetVars, TypeOK
<1>3. CASE Boot \/ Discover \/ Signal
  BY <1>0, <1>1, <1>3 DEF Boot, Discover, Signal, keysetVars, TypeOK
<1>4. CASE Shutdown
  BY <1>0, <1>1, <1>4 DEF Shutdown, keysetVars, InFlight, Over, TypeOK
<1>5. CASE Tick
  BY <1>0, <1>1, <1>5 DEF Tick, keysetVars, TypeOK
<1>6. CASE KeysRotate
  <2>1. PICK k \in Kids : Rotate(k)
    BY <1>6 DEF KeysRotate
  <2>2. UNCHANGED <<now, pc, since, got, keys, fetchedAt, overtaken>>
    BY <1>6, <2>1 DEF KeysRotate, Rotate, cache
  <2>3. CASE k \notin published /\ withdrawn[k] = Never /\ published' = published \cup {k}
             /\ withdrawn' = withdrawn
    BY <1>0, <2>2, <2>3 DEF KeysInv
  <2>4. CASE k \in published /\ published' = published \ {k}
             /\ withdrawn' = [withdrawn EXCEPT ![k] = now]
    <3>1. \A m \in Kids : withdrawn'[m] = IF m = k THEN now ELSE withdrawn[m]
      BY <1>0, <2>4 DEF TypeOK
    <3>2. now <= now + FetchMax
      BY <1>0 DEF TypeOK
    <3>3. \A m \in published' : withdrawn'[m] = Never
      BY <1>0, <2>4, <3>1 DEF KeysInv, TypeOK
    <3>4. \A m \in keys : withdrawn'[m] # Never => fetchedAt <= withdrawn'[m] + FetchMax
      BY <1>0, <3>1 DEF KeysInv, TypeOK
    <3>5. \A q \in Requests : pc[q] = "install" =>
            \A m \in got[q] : withdrawn'[m] # Never => since[q] <= withdrawn'[m]
      BY <1>0, <3>1 DEF KeysInv, TypeOK, IInv, TimeInv, Hurried
    <3> QED BY <1>0, <2>2, <3>3, <3>4, <3>5 DEF KeysInv
  <2> QED BY <2>1, <2>3, <2>4 DEF Rotate
<1>7. ASSUME NEW r \in Requests, Handle(r), ~Verify(r) PROVE KeysInv'
  <2>1. ASSUME NEW where, GoTo(r, where), where \notin {"install", "reread"}
        PROVE  \A q \in Requests : pc'[q] \in {"install", "reread"} =>
                 pc[q] = pc'[q] /\ since'[q] = since[q]
    BY <1>0, <2>1 DEF GoTo, TypeOK
  <2>2. now' >= now /\ UNCHANGED <<cache, provider, got, overtaken>>
    BY <1>0, <1>7 DEF Handle, TooLarge, GetBucket, Allow, Unlimited, CheckToken, Serve,
                      keysetVars, TypeOK
  <2>3. \E where : GoTo(r, where) /\ where \notin {"install", "reread"}
    BY <1>7, AuthPlaces DEF Handle, TooLarge, GetBucket, Allow, Unlimited, CheckToken, Serve
  <2> QED BY <1>1, <2>1, <2>2, <2>3
<1>8. ASSUME NEW r \in Requests, Verify(r) PROVE KeysInv'
  <2>0. now' = now
    BY <1>8 DEF Verify
  <2>1. ASSUME NEW where, GoTo(r, where)
        PROVE  /\ pc'[r] = where
               /\ where \in Hurried => since'[r] = now
               /\ \A q \in Requests \ {r} : pc'[q] = pc[q] /\ since'[q] = since[q]
    BY <1>0, <2>1 DEF GoTo, TypeOK
  <2>2. CASE KeyByID(r)
    <3>1. PICK where : GoTo(r, where) /\ where \notin {"install", "reread"}
      BY <2>2 DEF KeyByID
    <3> QED BY <1>0, <1>1, <2>0, <2>1, <2>2, <3>1 DEF KeyByID, TypeOK
  <2>3. CASE Fetch(r)
    <3>1. /\ got'[r] = published /\ pc'[r] = "install" /\ since' = since
          /\ \A q \in Requests \ {r} : got'[q] = got[q] /\ pc'[q] = pc[q]
          /\ UNCHANGED <<keys, fetchedAt, published, withdrawn, overtaken>>
      BY <1>0, <2>3 DEF Fetch, TypeOK, cache, provider
    <3> QED BY <1>0, <2>0, <3>1 DEF KeysInv
  <2>4. CASE FetchFails(r)
    <3>1. /\ pc'[r] = "refused"
          /\ \A q \in Requests \ {r} : got'[q] = got[q] /\ pc'[q] = pc[q] /\ since'[q] = since[q]
          /\ UNCHANGED <<keys, fetchedAt, published, withdrawn, overtaken>>
      BY <1>0, <2>1, <2>4 DEF FetchFails, TypeOK, cache, provider
    <3> QED BY <1>0, <2>0, <3>1 DEF KeysInv
  <2>5. CASE Install(r)
    <3>1. /\ pc[r] = "install" /\ pc'[r] = "reread" /\ since'[r] = now
          /\ \A q \in Requests \ {r} : pc'[q] = pc[q] /\ since'[q] = since[q]
          /\ keys' = got[r] /\ fetchedAt' = now /\ got' = got
          /\ UNCHANGED <<published, withdrawn>>
          /\ overtaken' = overtaken \cup {q \in Requests : pc[q] = "reread"}
      BY <2>1, <2>5 DEF Install, provider, Hurried
    <3>2. \A k \in got[r] : withdrawn[k] # Never => now <= withdrawn[k] + FetchMax
      <4>1. since[r] <= now /\ now - since[r] <= FetchMax
        BY <3>1 DEF IInv, TimeInv, Hurried, Patience
      <4>2. \A k \in got[r] : k \in Kids /\ withdrawn[k] \in Int
        BY <1>0 DEF TypeOK
      <4>3. \A k \in got[r] : withdrawn[k] # Never => since[r] <= withdrawn[k]
        BY <1>0, <3>1 DEF KeysInv
      <4> QED BY <1>0, <4>1, <4>2, <4>3 DEF TypeOK
    <3>3. \A q \in Requests : pc[q] = "reread" => since[q] <= now
      BY DEF IInv, TimeInv, Hurried
    <3>4. now <= now
      BY <1>0 DEF TypeOK
    <3> QED BY <1>0, <2>0, <3>1, <3>2, <3>3, <3>4 DEF KeysInv
  <2>6. CASE Reread(r)
    <3>1. PICK where : GoTo(r, where) /\ where \notin {"install", "reread"}
      BY <2>6 DEF Reread, Missing
    <3>2. /\ pc'[r] \notin {"install", "reread"}
          /\ \A q \in Requests \ {r} : /\ got'[q] = got[q] /\ pc'[q] = pc[q]
                                       /\ since'[q] = since[q]
                                       /\ q \notin overtaken' => q \notin overtaken
          /\ UNCHANGED <<keys, fetchedAt, published, withdrawn>>
      BY <1>0, <2>1, <2>6, <3>1 DEF Reread, TypeOK, cache, provider
    <3> QED BY <1>0, <2>0, <3>2 DEF KeysInv
  <2> QED BY <1>8, <2>2, <2>3, <2>4, <2>5, <2>6 DEF Verify, FindKey
<1> QED BY <1>2, <1>3, <1>4, <1>5, <1>6, <1>7, <1>8 DEF Next

LEMMA IInvStep == IInv /\ [Next]_vars => IInv'
<1> SUFFICES ASSUME IInv, [Next]_vars PROVE IInv'
  OBVIOUS
<1>1. TypeOK'
  BY TypeStep DEF IInv
<1> QED BY <1>1, TimeStep, LimiterStep, KeysStep DEF IInv

(* The invariant of the limiter and of the key cache. *)
THEOREM Inductive == Spec => []IInv
  BY InitInv, IInvStep, PTL DEF Spec

-----------------------------------------------------------------------------
(* What passes is due to a client that keeps coming, whatever the settings and
   whatever is forgotten: one that stayed away for longer than the TTL begins
   with a full bucket (http_ratelimit.go:58-91). *)
THEOREM RateIsKept == Spec => RateHolds
<1>1. ASSUME IInv, NEW r \in Requests, Allow(r), tokens' # tokens
      PROVE  due[client[r]] >= Token
  <2>1. tokens[holds[r]] >= Token /\ pc[r] = "limited"
    BY <1>1 DEF Allow
  <2>2. /\ client[r] \in Clients /\ holds[r] = bucketOf[client[r]] /\ holds[r] \in Requests
        /\ tokens[holds[r]] <= due[client[r]]
    BY <2>1, <1>1, VisitsAssumption DEF IInv, HolderInv, BucketInv
  <2> QED BY <1>1, <2>1, <2>2 DEF IInv, TypeOK
<1>2. IInv /\ [Next]_vars =>
        [\A r \in Requests : Allow(r) /\ tokens' # tokens => due[client[r]] >= Token]_vars
  BY <1>1
<1> QED BY <1>2, Inductive, PTL DEF Spec, RateHolds

(* When a bucket fills within the TTL, an absence makes nothing due that was not
   due before: forgetting is free (http_ratelimit.go:34, 75-79). *)
THEOREM ForgettingCostsNothing == Spec => []ForgettingIsFree
<1>1. IInv => ForgettingIsFree
  <2> SUFFICES ASSUME IInv, Fills, NEW c \in Clients, Away(c) PROVE due[c] = Burst
    BY DEF ForgettingIsFree
  <2> DEFINE n == now - seen[c] - Pause  m == LimiterTTL + 1 - Pause
  <2>1. n \in Int /\ m \in Int /\ n >= m
    BY DEF IInv, TypeOK, Away
  <2>2. due[c] = Burst \/ due[c] >= Refill * n
    BY DEF IInv, BucketInv
  <2>3. due[c] \in 0..Burst /\ Burst <= Refill * m
    BY DEF IInv, TypeOK, Fills
  <2> HIDE DEF n, m
  <2>4. Refill * n >= Refill * m /\ Refill * n \in Int /\ Refill * m \in Int
    BY <2>1
  <2> QED BY <2>2, <2>3, <2>4
<1> QED BY <1>1, Inductive, PTL

(* A request moves on by its own steps, or is lost in the shutdown. *)
LEMMA OwnStep ==
  ASSUME TypeOK, [Next]_vars, NEW r \in Requests, pc'[r] # pc[r]
  PROVE  Handle(r) \/ pc'[r] = "lost"
<1>1. ~UNCHANGED vars
  BY DEF vars
<1>2. ~(Boot \/ Discover \/ Signal \/ Tick \/ KeysRotate)
  BY DEF Boot, Discover, Signal, Tick, KeysRotate
<1>3. Shutdown => pc'[r] = "lost"
  BY DEF Shutdown, TypeOK
<1>4. ASSUME NEW q \in Requests, Handle(q) PROVE q = r
  <2>1. (\E where : GoTo(q, where)) => q = r
    BY DEF GoTo, TypeOK
  <2>2. CASE TooLarge(q) \/ GetBucket(q) \/ Allow(q) \/ Unlimited(q) \/ CheckToken(q) \/ Serve(q)
    BY <2>1, <2>2 DEF TooLarge, GetBucket, Allow, Unlimited, CheckToken, Serve
  <2>3. CASE Verify(q)
    <3>1. CASE Fetch(q)
      BY <3>1 DEF Fetch, TypeOK
    <3> QED BY <2>1, <2>3, <3>1 DEF Verify, FindKey, KeyByID, FetchFails, Install, Reread
  <2> QED BY <1>4, <2>2, <2>3 DEF Handle
<1> QED BY <1>1, <1>2, <1>3, <1>4 DEF Next

(* Who has just found its key looked into the cache. *)
LEMMA FoundInCache ==
  ASSUME TypeOK, [Next]_vars, NEW r \in Requests, pc[r] # "found", pc'[r] = "found"
  PROVE  kid[r] \in keys /\ (pc[r] = "reread" \/ ~stale)
<1>0. \A where : GoTo(r, where) => pc'[r] = where
  BY DEF GoTo, TypeOK
<1>1. Handle(r)
  BY OwnStep
<1>2. ~(TooLarge(r) \/ GetBucket(r) \/ CheckToken(r) \/ Serve(r))
  BY <1>0 DEF TooLarge, GetBucket, CheckToken, Serve
<1>3. ~(Allow(r) \/ Unlimited(r))
  BY <1>0, AuthPlaces DEF Allow, Unlimited
<1>4. KeyByID(r) => kid[r] \in keys /\ ~stale
  BY <1>0 DEF KeyByID
<1>5. Reread(r) => kid[r] \in keys /\ pc[r] = "reread"
  BY <1>0 DEF Reread, Missing
<1>6. ~(Fetch(r) \/ FetchFails(r) \/ Install(r))
  BY <1>0 DEF Fetch, FetchFails, Install, TypeOK
<1> QED BY <1>1, <1>2, <1>3, <1>4, <1>5, <1>6 DEF Handle, Verify, FindKey

(* A withdrawn key is accepted for no longer than a cache may be old and a fetch
   may take, whatever other requests fetch and install (jwks.go). *)
THEOREM KeysExpire == Spec => WithdrawnKeyExpires
<1>1. ASSUME IInv, [Next]_vars, NEW r \in Requests,
             pc[r] # "found", pc'[r] = "found", withdrawn[kid[r]] # Never
      PROVE  now - withdrawn[kid[r]] <= KeyTTL + FetchMax
  <2>1. kid[r] \in keys /\ (pc[r] = "reread" \/ ~stale)
    BY <1>1, FoundInCache DEF IInv
  <2>2. /\ now \in Int /\ fetchedAt \in Int /\ withdrawn[kid[r]] \in Int
        /\ fetchedAt <= withdrawn[kid[r]] + FetchMax
    BY <1>1, <2>1 DEF IInv, TypeOK, KeysInv
  <2>3. now - fetchedAt <= KeyTTL
    <3>1. CASE pc[r] = "reread"
      <4>1. since[r] <= fetchedAt /\ now - since[r] <= Pause /\ since[r] \in Nat
        BY <1>1, <3>1 DEF IInv, TypeOK, KeysInv, TimeInv, Hurried, Patience
      <4> QED BY <2>2, <4>1, PauseAssumption
    <3>2. CASE ~stale
      BY <2>2, <3>2 DEF stale
    <3> QED BY <2>1, <3>1, <3>2
  <2> QED BY <2>2, <2>3
<1>2. IInv /\ [Next]_vars =>
        [\A r \in Requests :
           pc[r] # "found" /\ pc'[r] = "found" /\ withdrawn[kid[r]] # Never
             => now - withdrawn[kid[r]] <= KeyTTL + FetchMax]_<<pc, keysetVars, now>>
  BY <1>1
<1> QED BY <1>2, Inductive, PTL DEF Spec, WithdrawnKeyExpires

(* A request that fetched its key is refused only if another one installed
   what it had fetched in between (jwks.go). *)
THEOREM PublishedIsFound == Spec => PublishedKeyIsFound
<1>1. ASSUME IInv, [Next]_vars, NEW r \in Requests,
             pc[r] = "reread", pc'[r] = "refused", kid[r] \in got[r]
      PROVE  r \in overtaken
  <2>1. Handle(r)
    BY <1>1, OwnStep DEF IInv
  <2>2. Reread(r)
    BY <1>1, <2>1 DEF Handle, TooLarge, GetBucket, Allow, Unlimited, CheckToken, Serve,
                      Verify, FindKey, KeyByID, Fetch, FetchFails, Install
  <2>3. kid[r] \notin keys
    BY <1>1, <2>2 DEF Reread, GoTo, IInv, TypeOK
  <2> QED BY <1>1, <2>3 DEF IInv, KeysInv
<1>2. IInv /\ [Next]_vars =>
        [\A r \in Requests :
           pc[r] = "reread" /\ pc'[r] = "refused" /\ kid[r] \in got[r]
             => r \in overtaken]_<<pc, keysetVars, now>>
  BY <1>1
<1> QED BY <1>2, Inductive, PTL DEF Spec, PublishedKeyIsFound
=============================================================================
