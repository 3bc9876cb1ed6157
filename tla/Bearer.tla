------------------------------- MODULE Bearer -------------------------------
(***************************************************************************)
(* Verification of the bearer tokens of requests (internal/gcpbearer and   *)
(* internal/azurebearer), before a handler of a gcp or azure frontend is   *)
(* called.  The two differ in the claims they look at only.                *)
(*                                                                         *)
(* The backend is "remote" for a verifier with a JWKSURL, which keeps the  *)
(* issuer's key set in a cache and holds the mutex of the cache while it   *)
(* fetches, and "inmem" for one that was given its keys (JWKS).            *)
(*                                                                         *)
(* Keys are named by their kid.  Time passes in ticks; the verifier takes  *)
(* no time but for its fetches.  What the claims of a token say is left to *)
(* chance.  The symmetric test key (HS256) and the bypass by environment   *)
(* variable are left out.                                                  *)
(***************************************************************************)
EXTENDS Shim

CONSTANTS
    Kids,       \* keys of the issuer
    Ttl,        \* JWKSCacheTTL
    FetchTime   \* Timeout of the http client

ASSUME TimesAreNumbers == Ttl \in Nat \ {0} /\ FetchTime \in Nat

VARIABLES
    offered,    \* the keys the issuer publishes now
    cached,     \* remoteJWKS.cached, and the kids of it (fetchedKid)
    age,        \* ticks since fetched, counted up to Ttl
    holder,     \* the client that holds the mutex for its fetch
    waited,     \* ticks this fetch has taken
    gone,       \* history: per key, ticks since it was last published
    steady      \* history: clients whose key was published since they asked

bearerVars == <<offered, cached, age, holder, waited, gone, steady>>

\* Ticks beyond which gone is not counted.
LongGone == Ttl + FetchTime

BearerInit ==
    /\ offered \in SUBSET Kids
    /\ cached = IF backend = "inmem" THEN offered ELSE None
    /\ age = 0
    /\ holder = None
    /\ waited = 0
    /\ gone = [k \in Kids |-> IF k \in offered THEN 0 ELSE LongGone]
    /\ steady = {}

TokenIn(c, at) == req[c] # Idle /\ req[c].at = at

-----------------------------------------------------------------------------
(* Requests *)

\* signed: whether the signature is that of the key the token names.
Presents(c) ==
    \E k \in Kids, signed \in BOOLEAN :
        /\ Begin(c, [op |-> "verify", at |-> "lookup", kid |-> k, signed |-> signed, body |-> {}])
        /\ steady' = IF k \in offered THEN steady \cup {c} ELSE steady
        /\ UNCHANGED <<offered, cached, age, holder, waited, gone>>
Refuses(c) == Fails(c) /\ steady' = steady \ {c}

\* The key is kept after the mutex was released.
findLocked(c, keys) ==
    IF req[c].kid \in keys THEN Goes(c, [req[c] EXCEPT !.at = "check", !.body = {}]) /\ UNCHANGED steady
    ELSE Refuses(c)

LooksUpGiven(c) ==
    /\ TokenIn(c, "lookup") /\ backend = "inmem"
    /\ findLocked(c, cached)
    /\ UNCHANGED <<offered, cached, age, holder, waited, gone>>

\* Mutant: the cache does not age.
HitAtAnyAge(c) == cached # None /\ req[c].kid \in cached
Hit(c) == cached # None /\ age < Ttl /\ req[c].kid \in cached
lookup(c) ==
    /\ TokenIn(c, "lookup") /\ backend = "remote"
    /\ holder = None
    /\ IF Hit(c) THEN findLocked(c, cached) /\ UNCHANGED holder
       ELSE /\ holder' = c
            /\ Goes(c, [req[c] EXCEPT !.at = "get"])
            /\ UNCHANGED steady
    /\ waited' = 0
    /\ UNCHANGED <<offered, cached, age, gone>>
\* The issuer answers with what it publishes then; the answer arrives later.
IssuerAnswers(c) ==
    /\ TokenIn(c, "get")
    /\ Goes(c, [req[c] EXCEPT !.at = "store", !.body = offered])
    /\ UNCHANGED bearerVars
fetchLocked(c) ==
    /\ TokenIn(c, "store")
    /\ cached' = req[c].body
    /\ age' = 0
    /\ holder' = None
    /\ waited' = 0
    /\ findLocked(c, req[c].body)
    /\ UNCHANGED <<offered, gone>>
\* No answer in time, an error status, or a body that is no key set: the
\* cache stays as it was, and the token is refused.
FetchFails(c) ==
    /\ TokenIn(c, "get") \/ TokenIn(c, "store")
    /\ holder' = None
    /\ waited' = 0
    /\ Refuses(c)
    /\ UNCHANGED <<offered, cached, age, gone>>
\* The signature, then the claims.
Verify(c) ==
    /\ TokenIn(c, "check")
    /\ \/ req[c].signed /\ Ends(c, "accepted")
       \/ Fails(c)
    /\ steady' = steady \ {c}
    /\ UNCHANGED <<offered, cached, age, holder, waited, gone>>

-----------------------------------------------------------------------------
(* The issuer, time and the process *)

Publishes(k) ==
    /\ k \notin offered
    /\ offered' = offered \cup {k}
    /\ gone' = [gone EXCEPT ![k] = 0]
    /\ UNCHANGED <<cached, age, holder, waited, steady>>
Withdraws(k) ==
    /\ k \in offered
    /\ offered' = offered \ {k}
    /\ steady' = {c \in steady : req[c].kid # k}
    /\ UNCHANGED <<cached, age, holder, waited, gone>>
UpTo(n, bound) == IF n < bound THEN n + 1 ELSE bound
KeyTick ==
    /\ holder # None => waited < FetchTime
    /\ waited' = IF holder = None THEN 0 ELSE waited + 1
    /\ age' = UpTo(age, Ttl)
    /\ gone' = [k \in Kids |-> IF k \in offered THEN 0 ELSE UpTo(gone[k], LongGone)]
    /\ UNCHANGED <<offered, cached, holder, steady>>
\* The process is replaced by another, which has fetched nothing yet.
Restarts ==
    /\ req' = [c \in Clients |-> Idle]
    /\ alone' = None
    /\ answer' = None
    /\ UNCHANGED <<service, backend>>
    /\ cached' = IF backend = "inmem" THEN cached ELSE None
    /\ age' = 0
    /\ holder' = None
    /\ waited' = 0
    /\ steady' = {}
    /\ UNCHANGED <<offered, gone>>

BearerNext ==
    /\ service = "bearer"
    /\ \/ \E c \in Clients :
            \/ Presents(c) \/ LooksUpGiven(c) \/ lookup(c) \/ IssuerAnswers(c)
            \/ fetchLocked(c) \/ FetchFails(c) \/ Verify(c)
       \/ UNCHANGED shimVars /\ (KeyTick \/ \E k \in Kids : Publishes(k) \/ Withdraws(k))
       \/ Restarts
BearerSpec == ShimInit /\ BearerInit /\ [][BearerNext]_<<shimVars, bearerVars>>

-----------------------------------------------------------------------------
(* Properties *)

\* What a lookup of the cached key set finds was published less than the
\* time-to-live and one fetch ago, whatever other lookups, rotations and
\* failed fetches happened meanwhile; and it refuses no key, for want of it,
\* that was published from the request on: a key that is new to the cache
\* makes it fetch.  (The package comment of gcpbearer says that a rotation
\* fails until restart; lookup does not.)
LookupsAreTimely ==
    [][\A c \in Clients :
         /\ service = "bearer" /\ backend = "remote" /\ req[c] # Idle
         /\ lookup(c) \/ fetchLocked(c)
         => /\ TokenIn(c, "check")' => gone[req[c].kid] < Ttl + FetchTime
            /\ c \in steady => req'[c] # Idle]_<<shimVars, bearerVars>>
=============================================================================
