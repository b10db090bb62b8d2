----------------------------- MODULE VaultCache -----------------------------
(***************************************************************************)
(* repositories/vault_repository.py: the credentials cache in front of     *)
(* Vault, two dictionaries that are kept in step.                          *)
(*                                                                         *)
(* A secret has numbered versions; the database engine makes a new lease   *)
(* for every request, and a role's credentials are the number of theirs.   *)
(* One thread uses a repository, so a call is one step; a call to Vault    *)
(* may fail, before or after it has had its effect.                        *)
(***************************************************************************)
EXTENDS Naturals, Sequences, Functions

CONSTANTS
    Secrets,        \* paths of the key-value engine
    Roles,          \* paths of the database engine
    Empty,          \* versions without a field, which are falsy in Python
    Ttls,           \* the cache_ttl_hours callers pass: any, longer than a lease or not
    Lease, MaxTtl,  \* the role's default_ttl and max_ttl, in hours
    MaxHour, MaxVersion, MaxLeases  \* bounds on the counters

Paths == Secrets \cup Roles

ASSUME VaultAssumption ==
    /\ Secrets \cap Roles = {}
    /\ Lease \in Nat \ {0} /\ MaxTtl \in Nat /\ Lease <= MaxTtl
    /\ Ttls \subseteq Nat
    /\ {MaxHour, MaxVersion, MaxLeases} \subseteq Nat

VARIABLES
    credentials_cache,  \* path -> credentials, for the paths that are cached
    cache_expiry,       \* path -> the hour its entry ends
    now,
    version,            \* secret -> its latest version
    replaced,           \* secret -> the hour each older version was replaced
    leases,             \* the leases made, each [issued, ends]
    token,              \* does the repository's token live?
    last,               \* history: what the latest call returned, and from where
    refreshed           \* history: secret -> its version at the last refresh

cache == <<credentials_cache, cache_expiry>>
vault == <<version, replaced, leases, token>>
vars == <<cache, now, vault, last, refreshed>>

Nothing == [path |-> {}, value |-> 0, cached |-> FALSE]

Init ==
    /\ credentials_cache = [p \in {} |-> 0]
    /\ cache_expiry = [p \in {} |-> 0]
    /\ now = 0
    /\ version = [s \in Secrets |-> 1]
    /\ replaced = [s \in Secrets |-> <<>>]
    /\ leases = <<>>
    /\ token = TRUE
    /\ last = Nothing
    /\ refreshed = [s \in Secrets |-> 0]

-----------------------------------------------------------------------------
(* Vault *)

Tick ==
    /\ now < MaxHour
    /\ now' = now + 1
    /\ last' = Nothing
    /\ UNCHANGED <<cache, vault, refreshed>>

\* Somebody writes a new version of a secret.
Rotate ==
    /\ \E s \in Secrets :
          /\ version[s] < MaxVersion
          /\ version' = [version EXCEPT ![s] = @ + 1]
          /\ replaced' = [replaced EXCEPT ![s] = Append(@, now)]
    /\ last' = Nothing
    /\ UNCHANGED <<cache, now, leases, token, refreshed>>

\* With its token Vault revokes the leases the token has asked for.
TokenExpires ==
    /\ token
    /\ token' = FALSE
    /\ leases' = [i \in DOMAIN leases |->
                     [leases[i] EXCEPT !.ends = IF @ < now THEN @ ELSE now]]
    /\ last' = Nothing
    /\ UNCHANGED <<cache, now, version, replaced, refreshed>>

-----------------------------------------------------------------------------
(* The cache *)

Expired(p) == p \in DOMAIN credentials_cache /\ ~(now < cache_expiry[p])

Falsy(p) == p \in Secrets /\ credentials_cache[p] \in Empty

Hit(p) == p \in DOMAIN credentials_cache /\ ~Expired(p) /\ ~Falsy(p)

\* What _get_from_cache throws away.
Stale(p, useCache) == IF useCache /\ Expired(p) THEN {p} ELSE {}

Drop(P) ==
    /\ credentials_cache' = Restrict(credentials_cache, DOMAIN credentials_cache \ P)
    /\ cache_expiry' = Restrict(cache_expiry, DOMAIN cache_expiry \ P)

With(f, p, x) == [q \in DOMAIN f \cup {p} |-> IF q = p THEN x ELSE f[q]]

Put(p, value, ttl) ==
    /\ credentials_cache' = With(credentials_cache, p, value)
    /\ cache_expiry' = With(cache_expiry, p, now + ttl)

Returns(p, value, cached) == last' = [path |-> {p}, value |-> value, cached |-> cached]

\* A mistake: a hit keeps the entry alive.
HitSlides(p) ==
    /\ Hit(p)
    /\ Returns(p, credentials_cache[p], TRUE)
    /\ \E ttl \in Ttls : cache_expiry' = [cache_expiry EXCEPT ![p] = now + ttl]
    /\ UNCHANGED <<credentials_cache, vault>>

FromCache(p) ==
    /\ Hit(p)
    /\ Returns(p, credentials_cache[p], TRUE)
    /\ UNCHANGED <<cache, vault>>

\* The engine's answer is cached when the caller uses the cache.
FromVault(p, value, useCache, ttl) ==
    /\ token
    /\ Returns(p, value, FALSE)
    /\ IF useCache THEN Put(p, value, ttl) ELSE UNCHANGED cache

\* read_secret_version of the key-value engine, which has no path of the other one.
ReadSecret(p, useCache, ttl) ==
    /\ p \in Secrets
    /\ FromVault(p, version[p], useCache, ttl)
    /\ UNCHANGED vault

Raises(gone) ==
    /\ Drop(gone)
    /\ last' = Nothing

GetCredentials ==
    /\ \E p \in Paths, useCache \in BOOLEAN, ttl \in Ttls :
          \/ useCache /\ FromCache(p)
          \/ /\ ~(useCache /\ Hit(p))
             /\ \/ ReadSecret(p, useCache, ttl)
                \/ Raises(Stale(p, useCache)) /\ UNCHANGED vault
    /\ UNCHANGED <<now, refreshed>>

Granted == [issued |-> now, ends |-> now + Lease]

GenerateCredentials ==
    /\ token /\ Len(leases) < MaxLeases
    /\ leases' = Append(leases, Granted)
    /\ UNCHANGED <<version, replaced, token>>

GetDatabaseCredentials ==
    /\ \E r \in Roles, useCache \in BOOLEAN, ttl \in Ttls :
          \/ useCache /\ FromCache(r)
          \/ /\ ~(useCache /\ Hit(r))
             /\ \/ GenerateCredentials /\ FromVault(r, Len(leases'), useCache, ttl)
                \/ /\ UNCHANGED vault \/ GenerateCredentials
                   /\ Raises(Stale(r, useCache))
    /\ UNCHANGED <<now, refreshed>>

\* A mistake: the entry is not deleted first.
RefreshCached ==
    \E p \in Paths, ttl \in Ttls :
       /\ \/ FromCache(p)
          \/ ~Hit(p) /\ ReadSecret(p, TRUE, ttl)
          \/ ~Hit(p) /\ Raises({p}) /\ UNCHANGED vault
       /\ refreshed' = IF p \in Secrets /\ last' # Nothing
                       THEN [refreshed EXCEPT ![p] = version[p]] ELSE refreshed
       /\ UNCHANGED now

\* The entry is deleted first; a path of the database engine is then not found.
RefreshCredentials ==
    \E p \in Paths, ttl \in Ttls :
       /\ ReadSecret(p, TRUE, ttl) \/ (Raises({p}) /\ UNCHANGED vault)
       /\ refreshed' = IF p \in Secrets /\ last' # Nothing
                       THEN [refreshed EXCEPT ![p] = version[p]] ELSE refreshed
       /\ UNCHANGED now

\* A mistake: the 24 hours are taken for seconds.
LongerBySeconds(lease) == [lease EXCEPT !.ends = now]

\* By the default increment, 24 hours from now, and never beyond the role's max_ttl.
Longer(lease) ==
    LET asked == now + Lease
        most == lease.issued + MaxTtl
    IN  [lease EXCEPT !.ends = IF asked < most THEN asked ELSE most]

RenewLease ==
    /\ token
    /\ \E i \in DOMAIN leases :
          leases[i].ends > now /\ leases' = [leases EXCEPT ![i] = Longer(@)]
    /\ last' = Nothing
    /\ UNCHANGED <<cache, now, version, replaced, token, refreshed>>

Close ==
    /\ Drop(Paths)
    /\ last' = Nothing
    /\ UNCHANGED <<now, vault, refreshed>>

Next ==
    \/ Tick \/ Rotate \/ TokenExpires
    \/ GetCredentials \/ GetDatabaseCredentials \/ RefreshCredentials
    \/ RenewLease \/ Close

Spec == Init /\ [][Next]_vars

-----------------------------------------------------------------------------
\* The two dictionaries have the same keys: the second del of an entry never raises.
TypeOK ==
    /\ credentials_cache \in [DOMAIN credentials_cache -> Nat \ {0}]
    /\ cache_expiry \in [DOMAIN credentials_cache -> Nat]
    /\ DOMAIN credentials_cache \subseteq Paths
    /\ now \in Nat /\ token \in BOOLEAN
    /\ version \in [Secrets -> Nat \ {0}]
    /\ replaced \in [Secrets -> Seq(Nat)]
    /\ \A s \in Secrets : Len(replaced[s]) + 1 = version[s]
    /\ leases \in Seq([issued : Nat, ends : Nat])
    /\ refreshed \in [Secrets -> Nat]

\* The entry of r was made, with its lease, for more hours than the lease.
CachedTooLong(r) ==
    /\ r \in DOMAIN credentials_cache
    /\ cache_expiry[r] > leases[credentials_cache[r]].issued + Lease

\* Credentials of the database that are handed out after their lease has ended, however
\* they were cached and renewed, were made with a token that has expired since, or cached
\* by a caller that asked for longer than the lease.
LeaseOutlivesCache ==
    \A r \in Roles :
       last.path = {r} => now < leases[last.value].ends \/ ~token \/ CachedTooLong(r)

\* A secret that has been rotated is handed out for less than the longest cache_ttl_hours
\* after that.
BriefStaleness ==
    \A s \in Secrets :
       last.path = {s} /\ last.value < version[s] =>
          \E ttl \in Ttls : now < replaced[s][last.value] + ttl

\* Once refresh_credentials has returned, the version it replaced is not seen again.
RefreshLasts ==
    \A s \in Secrets : last.path = {s} => last.value >= refreshed[s]
=============================================================================
