------------------------------- MODULE Keyset -------------------------------
(***************************************************************************)
(* The keys of the identity provider as the server caches them             *)
(* (internal/oauth/jwks.go).  A caller of KeyByID looks into the cache,    *)
(* fetches when it is empty or stale and looks again, fetches once more    *)
(* when the key is missing and looks a last time.  The fetch runs outside  *)
(* the mutex: several callers fetch at once and each installs what it got. *)
(*                                                                         *)
(* The module that EXTENDS this one owns the rest of a request.            *)
(***************************************************************************)
EXTENDS Integers

CONSTANTS
  Requests,      \* the callers
  Kids,          \* key ids the provider publishes at some time
  KeyTTL,        \* ttl: 15 minutes
  FetchMax,      \* metadataHTTPTimeout: 10 seconds
  MaxFaults      \* bound: fetches that fail

ASSUME KeysetAssumption == KeyTTL \in Nat /\ FetchMax \in Nat /\ MaxFaults \in Nat

VARIABLES
  now,           \* the clock
  pc,            \* request -> where it is
  since,         \* request -> when it got there
  kid,           \* request -> the key id its token names
  last,          \* request -> it fetches for the last time
  got,           \* request -> what its fetch brought
  keys,          \* the cached keys
  fetchedAt,     \* when they were installed
  published,     \* the keys the provider publishes now
  withdrawn,     \* key -> when the provider withdrew it, or Never
  faults,        \* fetches that failed so far
  overtaken      \* requests that looked into somebody else's keys (history)

Never == -1
cache == <<keys, fetchedAt>>
provider == <<published, withdrawn>>
keysetVars == <<kid, last, got, cache, provider, faults, overtaken>>

KeysetInit(first) ==
  /\ last = [r \in Requests |-> FALSE]
  /\ got = [r \in Requests |-> {}]
  /\ keys = {} /\ fetchedAt = Never
  /\ published = first
  /\ withdrawn = [k \in Kids |-> Never]
  /\ faults = 0
  /\ overtaken = {}

\* Where a request may not stay for long.
Hurried == {"limited", "fetch", "install", "reread"}

GoTo(r, where) ==
  /\ pc' = [pc EXCEPT ![r] = where]
  /\ since' = [since EXCEPT ![r] = IF where \in Hurried THEN now ELSE 0]

-----------------------------------------------------------------------------
(* The age of the cache does not matter: a mutant. *)
NeverStale == FALSE
stale == now - fetchedAt > KeyTTL

(* KeyByID up to its first loop over the keys. *)
KeyByID(r) ==
  /\ pc[r] = "look"
  /\ IF keys # {} /\ ~stale /\ kid[r] \in keys
     THEN GoTo(r, "found") /\ UNCHANGED last
     ELSE /\ GoTo(r, "fetch")
          /\ last' = [last EXCEPT ![r] = keys # {} /\ ~stale]
  /\ UNCHANGED <<kid, got, cache, provider, faults, overtaken>>

(* FetchJWKS: the provider answers, or the exchange fails. *)
Fetch(r) ==
  /\ pc[r] = "fetch"
  /\ got' = [got EXCEPT ![r] = published]
  /\ pc' = [pc EXCEPT ![r] = "install"]
  /\ UNCHANGED <<since, kid, last, cache, provider, faults, overtaken>>

FetchFails(r) ==
  /\ pc[r] \in {"fetch", "install"}
  /\ faults < MaxFaults
  /\ faults' = faults + 1
  /\ got' = [got EXCEPT ![r] = {}]
  /\ GoTo(r, "refused")
  /\ UNCHANGED <<kid, last, cache, provider, overtaken>>

(* What another request cached meanwhile is kept: a mutant. *)
InstallUnlessFresh(r) ==
  /\ pc[r] = "install"
  /\ IF keys # {} /\ ~stale THEN UNCHANGED cache
     ELSE keys' = got[r] /\ fetchedAt' = now
  /\ overtaken' = overtaken \cup {q \in Requests : pc[q] = "reread"}
  /\ GoTo(r, "reread")
  /\ UNCHANGED <<kid, last, got, provider, faults>>

(* refresh replaces the cache, also for those about to read it again. *)
Install(r) ==
  /\ pc[r] = "install"
  /\ keys' = got[r]
  /\ fetchedAt' = now
  /\ overtaken' = overtaken \cup {q \in Requests : pc[q] = "reread"}
  /\ GoTo(r, "reread")
  /\ UNCHANGED <<kid, last, got, provider, faults>>

Missing(r) == IF last[r] THEN "refused" ELSE "fetch"

(* The keys are taken as they are, whoever installed them. *)
Reread(r) ==
  /\ pc[r] = "reread"
  /\ GoTo(r, IF kid[r] \in keys THEN "found" ELSE Missing(r))
  /\ last' = [last EXCEPT ![r] = TRUE]
  /\ got' = [got EXCEPT ![r] = {}]
  /\ overtaken' = overtaken \ {r}
  /\ UNCHANGED <<kid, cache, provider, faults>>

FindKey(r) == KeyByID(r) \/ Fetch(r) \/ FetchFails(r) \/ Install(r) \/ Reread(r)

-----------------------------------------------------------------------------
(* The provider (external) publishes a key, and withdraws one. *)
Rotate(k) ==
  /\ \/ withdrawn[k] = Never /\ k \notin published
        /\ published' = published \cup {k} /\ UNCHANGED withdrawn
     \/ k \in published
        /\ published' = published \ {k} /\ withdrawn' = [withdrawn EXCEPT ![k] = now]
  /\ UNCHANGED <<kid, last, got, cache, faults, overtaken>>

-----------------------------------------------------------------------------
(* A key is not accepted when it was withdrawn longer ago than the cache may
   be old and a fetch may take, however refreshes overlap and fail
   (jwks.go:186-246). *)
WithdrawnKeyExpires ==
  [][\A r \in Requests :
       pc[r] # "found" /\ pc'[r] = "found" /\ withdrawn[kid[r]] # Never
         => now - withdrawn[kid[r]] <= KeyTTL + FetchMax]_<<pc, keysetVars, now>>

(* A key the provider publishes is found, unless a fetch failed or an older
   one was installed over the newer before it was looked at
   (jwks.go:198-246). *)
PublishedKeyIsFound ==
  [][\A r \in Requests :
       pc[r] = "reread" /\ pc'[r] = "refused" /\ kid[r] \in got[r]
         => r \in overtaken]_<<pc, keysetVars, now>>
=============================================================================
