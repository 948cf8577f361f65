------------------------------ MODULE FrontDoor ------------------------------
(***************************************************************************)
(* The HTTP transport (internal/mcp/server.go, RunHTTP and what it builds; *)
(* http_ratelimit.go, httpauth.go, http_observe.go, internal/oauth): the   *)
(* server starts or refuses to, a request passes the body cap, the bucket  *)
(* of its client, the authentication and the handler, and a signal stops   *)
(* the server with the requests it has.                                    *)
(*                                                                         *)
(* Time passes while a request waits: for the provider's answer, at most   *)
(* FetchMax, and between two statements, where the scheduler may leave it  *)
(* for Pause.                                                              *)
(***************************************************************************)
EXTENDS Keyset, FiniteSets

CONSTANTS
  Clients,       \* source addresses
  Visits(_),     \* who comes, under which settings: functions from requests
                 \* to [client, carries], carries "none", "token" or a key id
  Published,     \* the keys published at first
  Settings,      \* configurations: [token, issuer, audience, loopback, limits]
  None,
  Token,         \* the parts of a token: what a request costs
  Burst,         \* the size of a bucket, in parts of a token
  Refill,        \* the parts a bucket gets back in one tick
  LimiterTTL,    \* a bucket is idle when it was not used for longer
  EvictEvery,    \* new buckets between two sweeps
  Pause,         \* how long a request may be left between two statements
  MaxNow         \* bound: the clock

(* Any positive rate and burst are settings (config.go:225-239): a bucket may
   take longer to fill than to be forgotten.  A request is not left alone
   between two statements for the ten minutes that make a bucket idle. *)
ASSUME LimiterAssumption ==
  /\ Token \in Nat \ {0} /\ Burst \in Nat /\ Burst >= Token
  /\ Refill \in Nat /\ LimiterTTL \in Nat /\ Pause \in Nat /\ Pause <= LimiterTTL

(* Nor is it left alone for as long as keys are cached. *)
ASSUME PauseAssumption == Pause <= KeyTTL

ASSUME VisitsAssumption ==
  /\ None \notin Requests \cup Clients /\ Published \subseteq Kids
  /\ \A s \in Settings : \A visit \in Visits(s) :
       \A r \in Requests \cap DOMAIN visit : visit[r].client \in Clients

VARIABLES
  phase,         \* the server: boot, up, closing, down
  settings,      \* its configuration
  client,        \* request -> its source address
  bucketOf,      \* address -> its bucket in the map, or None
  tokens,        \* bucket -> what is left in it; a bucket is named for the
                 \* request it was made for
  seen,          \* address -> when its entry was last used
  inserts,       \* insertsSinceSweep
  lastSweep,
  holds,         \* request -> the bucket get returned
  due            \* address -> what a bucket would hold that is kept while the
                 \* client comes and is new when it was away (history)

limiter == <<bucketOf, tokens, seen, inserts, lastSweep, holds, due>>
server == <<phase, settings>>
vars == <<now, pc, since, keysetVars, server, client, limiter>>

Init ==
  /\ KeysetInit(Published)
  /\ now = 0
  /\ since = [r \in Requests |-> 0]
  /\ phase = "boot"
  /\ settings \in Settings
  /\ \E visit \in Visits(settings) :
       /\ pc = [r \in Requests |-> IF r \in DOMAIN visit THEN "new" ELSE "absent"]
       /\ client = [r \in Requests |->
                      IF r \in DOMAIN visit THEN visit[r].client ELSE None]
       /\ kid = [r \in Requests |->
                   IF r \in DOMAIN visit THEN visit[r].carries ELSE "none"]
  /\ bucketOf = [c \in Clients |-> None]
  /\ tokens = [r \in Requests |-> Burst]
  /\ seen = [c \in Clients |-> 0]
  /\ inserts = 0 /\ lastSweep = 0
  /\ holds = [r \in Requests |-> None]
  /\ due = [c \in Clients |-> Burst]

-----------------------------------------------------------------------------
(* Start: config.validate, buildOAuthVerifier, buildHTTPHandler. *)

validate(s) ==
  /\ s.token \/ s.issuer \/ s.loopback
  /\ s.issuer = s.audience
  /\ ~(s.token /\ s.issuer)

Boot ==
  /\ phase = "boot"
  /\ phase' = IF validate(settings) THEN (IF settings.issuer THEN "discover" ELSE "up")
              ELSE "down"
  /\ UNCHANGED <<now, pc, since, keysetVars, settings, client, limiter>>

(* The provider answers and is who it should be, or the server stays down. *)
Discover ==
  /\ phase = "discover"
  /\ phase' \in {"up", "down"}
  /\ UNCHANGED <<now, pc, since, keysetVars, settings, client, limiter>>

-----------------------------------------------------------------------------
(* maxBodyHandler, then rateLimitByIP. *)

(* A body that announces more than the cap costs no token. *)
TooLarge(r) ==
  /\ phase = "up" /\ pc[r] = "new"
  /\ GoTo(r, "refused")
  /\ UNCHANGED <<now, keysetVars, server, client, limiter>>

(* A client that did not come for longer than the TTL. *)
Away(c) == now - seen[c] > LimiterTTL

(* Buckets in use go as well: a mutant. *)
Others(c) == Clients \ {c}

(* The entries a sweep deletes. *)
Idle(c) == {d \in Clients \ {c} : Away(d)}

Sweeps == inserts + 1 >= EvictEvery /\ now - lastSweep >= LimiterTTL

Insert(r, c) ==
  LET gone == IF Sweeps THEN Idle(c) ELSE {} IN
  /\ bucketOf' = [d \in Clients |->
                    IF d = c THEN r ELSE IF d \in gone THEN None ELSE bucketOf[d]]
  /\ holds' = [holds EXCEPT ![r] = r]
  /\ inserts' = IF Sweeps THEN 0 ELSE inserts + 1
  /\ lastSweep' = IF Sweeps THEN now ELSE lastSweep

(* perIPLimiter.get: the bucket of the client, or a new one. *)
GetBucket(r) ==
  LET c == client[r] IN
  /\ phase = "up" /\ settings.limits /\ pc[r] = "new"
  /\ \/ bucketOf[c] = None /\ Insert(r, c)
     \/ /\ bucketOf[c] # None
        /\ holds' = [holds EXCEPT ![r] = bucketOf[c]]
        /\ UNCHANGED <<bucketOf, inserts, lastSweep>>
  /\ seen' = [seen EXCEPT ![c] = now]
  /\ due' = [due EXCEPT ![c] = IF Away(c) THEN Burst ELSE @]
  /\ GoTo(r, "limited")
  /\ UNCHANGED <<now, keysetVars, server, client, tokens>>

(* The handler behind the limiter: requireBearer, RequireOAuth or, on a
   loopback address without either, the tools themselves. *)
authMW(r) ==
  IF settings.token THEN IF kid[r] = "token" THEN "serve" ELSE "refused"
  ELSE IF settings.issuer THEN IF kid[r] \in {"none", "token"} THEN "refused" ELSE "look"
  ELSE "serve"

(* Allow, after the mutex of the map was released. *)
Allow(r) ==
  LET b == holds[r] IN
  /\ pc[r] = "limited"
  /\ \/ /\ tokens[b] >= Token
        /\ tokens' = [tokens EXCEPT ![b] = @ - Token]
        /\ due' = [due EXCEPT ![client[r]] = @ - Token]
        /\ GoTo(r, authMW(r))
     \/ tokens[b] < Token /\ GoTo(r, "refused") /\ UNCHANGED <<tokens, due>>
  /\ holds' = [holds EXCEPT ![r] = None]
  /\ UNCHANGED <<now, keysetVars, server, client, bucketOf, seen, inserts, lastSweep>>

(* HTTPRateDisabled: nothing stands before the authentication. *)
Unlimited(r) ==
  /\ phase = "up" /\ ~settings.limits /\ pc[r] = "new"
  /\ GoTo(r, authMW(r))
  /\ UNCHANGED <<now, keysetVars, server, client, limiter>>

-----------------------------------------------------------------------------
Verify(r) == FindKey(r) /\ UNCHANGED <<now, server, client, limiter>>

(* The signature and the claims hold, or they do not. *)
CheckToken(r) ==
  /\ pc[r] = "found"
  /\ \E how \in {"serve", "refused"} : GoTo(r, how)
  /\ UNCHANGED <<now, keysetVars, server, client, limiter>>

(* The handler answers; recoverPanics makes an answer of a panic. *)
Serve(r) ==
  /\ pc[r] = "serve"
  /\ GoTo(r, "served")
  /\ UNCHANGED <<now, keysetVars, server, client, limiter>>

-----------------------------------------------------------------------------
(* runHTTP: the signal, then Shutdown until the requests are done or five
   seconds are over. *)

Over == {"absent", "refused", "served", "lost"}
InFlight == {r \in Requests : pc[r] \notin Over \cup {"new"}}

Signal ==
  /\ phase = "up"
  /\ phase' = "closing"
  /\ UNCHANGED <<now, pc, since, keysetVars, settings, client, limiter>>

Shutdown ==
  /\ phase = "closing"
  /\ phase' = "down"
  /\ pc' = [r \in Requests |-> IF r \in InFlight THEN "lost" ELSE pc[r]]
  /\ since' = [r \in Requests |-> IF r \in InFlight THEN 0 ELSE since[r]]
  /\ UNCHANGED <<now, keysetVars, settings, client, limiter>>

-----------------------------------------------------------------------------
Patience(where) == IF where \in {"fetch", "install"} THEN FetchMax ELSE Pause

Filled(n) == IF n + Refill > Burst THEN Burst ELSE n + Refill

Tick ==
  /\ phase = "up" /\ now < MaxNow
  /\ \A r \in Requests : pc[r] \in Hurried => now - since[r] < Patience(pc[r])
  /\ now' = now + 1
  /\ tokens' = [b \in Requests |-> Filled(tokens[b])]
  /\ due' = [c \in Clients |-> Filled(due[c])]
  /\ UNCHANGED <<pc, since, keysetVars, server, client, bucketOf, seen, inserts,
                 lastSweep, holds>>

KeysRotate ==
  /\ phase = "up" /\ settings.issuer
  /\ \E k \in Kids : Rotate(k)
  /\ UNCHANGED <<now, pc, since, server, client, limiter>>

Handle(r) ==
  \/ TooLarge(r) \/ GetBucket(r) \/ Allow(r) \/ Unlimited(r)
  \/ Verify(r) \/ CheckToken(r) \/ Serve(r)

Next ==
  \/ Boot \/ Discover \/ Signal \/ Shutdown
  \/ Tick \/ KeysRotate
  \/ \E r \in Requests : Handle(r)

Spec == Init /\ [][Next]_vars

-----------------------------------------------------------------------------
Places == {"absent", "new", "limited", "look", "fetch", "install", "reread", "found",
           "serve", "served", "refused", "lost"}

TypeOK ==
  /\ now \in Nat /\ phase \in {"boot", "discover", "up", "closing", "down"}
  /\ pc \in [Requests -> Places] /\ since \in [Requests -> Nat]
  /\ client \in [Requests -> Clients \cup {None}]
  /\ bucketOf \in [Clients -> Requests \cup {None}]
  /\ tokens \in [Requests -> 0..Burst] /\ due \in [Clients -> 0..Burst]
  /\ seen \in [Clients -> Nat] /\ holds \in [Requests -> Requests \cup {None}]
  /\ got \in [Requests -> SUBSET Kids] /\ keys \subseteq Kids /\ fetchedAt \in Int
  /\ published \subseteq Kids /\ withdrawn \in [Kids -> Int]
  /\ overtaken \subseteq Requests

(* Who is in a hurry has not been there for longer than it may. *)
TimeInv ==
  \A r \in Requests : pc[r] \in Hurried =>
     since[r] <= now /\ now - since[r] <= Patience(pc[r])

(* Who is about to take a token holds the bucket of its client. *)
HolderInv ==
  \A r \in Requests :
     /\ pc[r] # "absent" => client[r] \in Clients
     /\ pc[r] = "new" => tokens[r] = Burst
     /\ pc[r] = "limited" => /\ holds[r] = bucketOf[client[r]] /\ holds[r] \in Requests
                             /\ since[r] <= seen[client[r]]

(* A bucket has no more than is due, and only a client that has all or is away
   is without one.  What came back since the last request is due. *)
BucketInv ==
  \A c \in Clients :
     /\ seen[c] <= now
     /\ bucketOf[c] # None => /\ client[bucketOf[c]] = c /\ pc[bucketOf[c]] # "new"
                              /\ tokens[bucketOf[c]] <= due[c]
     /\ bucketOf[c] = None => due[c] = Burst \/ Away(c)
     /\ due[c] = Burst \/ due[c] >= Refill * (now - seen[c] - Pause)

(* A key that is cached, or about to be, was published not long before. *)
KeysInv ==
  /\ \A k \in published : withdrawn[k] = Never
  /\ fetchedAt <= now
  /\ \A k \in keys : withdrawn[k] # Never => fetchedAt <= withdrawn[k] + FetchMax
  /\ \A r \in Requests : pc[r] = "install" =>
       \A k \in got[r] : withdrawn[k] # Never => since[r] <= withdrawn[k]
  /\ \A r \in Requests : pc[r] = "reread" =>
       since[r] <= fetchedAt /\ (r \notin overtaken => keys = got[r])

IInv == TypeOK /\ TimeInv /\ HolderInv /\ BucketInv /\ KeysInv

(* While a client keeps coming, forgetting buckets gives it nothing: what
   passes is due, whatever was evicted between its requests or while one of
   them held its bucket.  Who stays away for longer than the TTL may find a
   new, full bucket, once for each absence (http_ratelimit.go:58-91). *)
RateHolds ==
  [][\A r \in Requests :
       Allow(r) /\ tokens' # tokens => due[client[r]] >= Token]_vars

(* A bucket fills within the TTL: one request a second and a burst of ten, the
   defaults, take ten seconds of ten minutes. *)
Fills == Burst <= Refill * (LimiterTTL + 1 - Pause)

(* With such settings that full bucket is no gift either: it is what was due
   already, so nobody ever gets more than from buckets that are never evicted
   (http_ratelimit.go:34, 75-79; config.go:225-239). *)
ForgettingIsFree == Fills => \A c \in Clients : Away(c) => due[c] = Burst
=============================================================================
