-------------------------- MODULE VaultCacheProofs --------------------------
(***************************************************************************)
(* What the cache may hand out, for any paths, lease and cache lengths.    *)
(***************************************************************************)
EXTENDS VaultCache, TLAPS

Leases == [issued : Nat, ends : Nat]

\* A lease cannot be made longer than a renewal now would make it.
Renewable ==
    \A i \in 1..Len(leases) : /\ leases[i].ends <= now + Lease
                              /\ leases[i].ends <= leases[i].issued + MaxTtl

\* An entry of a role ends before its lease, unless it was made for longer.
RoleEntry(r) ==
    r \in DOMAIN credentials_cache =>
       /\ credentials_cache[r] \in 1..Len(leases)
       /\ token => \/ cache_expiry[r] <= leases[credentials_cache[r]].ends
                   \/ CachedTooLong(r)

\* An entry of a secret is not from before the last refresh, and ends within a
\* cache_ttl_hours of its replacement.
SecretEntry(s) ==
    s \in DOMAIN credentials_cache =>
       /\ credentials_cache[s] \in 1..version[s]
       /\ credentials_cache[s] >= refreshed[s]
       /\ \E ttl \in Ttls :
             IF credentials_cache[s] = version[s]
             THEN cache_expiry[s] <= now + ttl
             ELSE cache_expiry[s] <= replaced[s][credentials_cache[s]] + ttl

CacheInv ==
    /\ TypeOK
    /\ Renewable
    /\ \A r \in Roles : RoleEntry(r)
    /\ \A s \in Secrets : refreshed[s] <= version[s] /\ SecretEntry(s)
    /\ LeaseOutlivesCache /\ BriefStaleness /\ RefreshLasts

\* Nothing is cached at first.
LEMMA CacheInit == Init => CacheInv
BY VaultAssumption DEF Init, CacheInv, TypeOK, Renewable, RoleEntry, SecretEntry,
   LeaseOutlivesCache, BriefStaleness, RefreshLasts, Nothing

\* Drop takes whole entries out and leaves the others.
LEMMA Dropped ==
    ASSUME TypeOK, NEW P, Drop(P)
    PROVE  /\ DOMAIN credentials_cache' = DOMAIN credentials_cache \ P
           /\ DOMAIN cache_expiry' = DOMAIN credentials_cache'
           /\ \A q \in DOMAIN credentials_cache' :
                 /\ credentials_cache'[q] = credentials_cache[q]
                 /\ cache_expiry'[q] = cache_expiry[q]
           /\ credentials_cache' \in [DOMAIN credentials_cache' -> Nat \ {0}]
           /\ cache_expiry' \in [DOMAIN credentials_cache' -> Nat]
BY DEF TypeOK, Drop, Restrict

\* Put makes one whole entry and leaves the others.
LEMMA Stored ==
    ASSUME TypeOK, NEW p, NEW value \in Nat \ {0}, NEW ttl \in Nat, Put(p, value, ttl)
    PROVE  /\ DOMAIN credentials_cache' = DOMAIN credentials_cache \cup {p}
           /\ DOMAIN cache_expiry' = DOMAIN credentials_cache'
           /\ credentials_cache'[p] = value /\ cache_expiry'[p] = now + ttl
           /\ \A q \in DOMAIN credentials_cache' \ {p} :
                 /\ credentials_cache'[q] = credentials_cache[q]
                 /\ cache_expiry'[q] = cache_expiry[q]
           /\ credentials_cache' \in [DOMAIN credentials_cache' -> Nat \ {0}]
           /\ cache_expiry' \in [DOMAIN credentials_cache' -> Nat]
BY DEF TypeOK, Put, With

\* The hours of a lease are numbers.
LEMMA LeaseHours ==
    ASSUME leases \in Seq(Leases), NEW i \in 1..Len(leases)
    PROVE  /\ leases[i] \in Leases
           /\ leases[i].issued \in Nat /\ leases[i].ends \in Nat
<1>1. leases[i] \in Leases
    OBVIOUS
<1> QED
    BY <1>1 DEF Leases

\* An hour passes: entries and leases stay as they are.
LEMMA TickKeeps == ASSUME CacheInv, Tick PROVE CacheInv'
<1> USE VaultAssumption DEF CacheInv, Tick, cache, vault
<1>1. TypeOK'
    BY DEF TypeOK
<1>2. ASSUME NEW i \in 1..Len(leases)
      PROVE  leases[i].ends <= now' + Lease /\ leases[i].ends <= leases[i].issued + MaxTtl
    BY LeaseHours DEF Renewable, TypeOK, Leases
<1>3. ASSUME NEW r \in Roles PROVE RoleEntry(r)'
    BY DEF RoleEntry, CachedTooLong
<1>4. ASSUME NEW s \in Secrets PROVE refreshed'[s] <= version'[s] /\ SecretEntry(s)'
  <2>1. refreshed'[s] <= version'[s]
    OBVIOUS
  <2>2. CASE s \in DOMAIN credentials_cache
    <3>1. PICK ttl \in Ttls :
             IF credentials_cache[s] = version[s]
             THEN cache_expiry[s] <= now + ttl
             ELSE cache_expiry[s] <= replaced[s][credentials_cache[s]] + ttl
      BY <2>2 DEF SecretEntry
    <3>2. /\ cache_expiry[s] \in Nat /\ now \in Nat /\ ttl \in Nat /\ now' = now + 1
          /\ UNCHANGED <<credentials_cache, cache_expiry, version, replaced, refreshed>>
      BY <2>2 DEF TypeOK
    <3> QED
      BY <2>2, <3>1, <3>2 DEF SecretEntry
  <2>3. CASE s \notin DOMAIN credentials_cache
    BY <2>3 DEF SecretEntry
  <2> QED
    BY <2>1, <2>2, <2>3
<1>5. LeaseOutlivesCache' /\ BriefStaleness' /\ RefreshLasts'
    BY DEF LeaseOutlivesCache, BriefStaleness, RefreshLasts, Nothing
<1> QED
    BY <1>1, <1>2, <1>3, <1>4, <1>5 DEF Renewable

\* A rotation dates the entries of the version it replaces.
LEMMA RotateKeeps == ASSUME CacheInv, Rotate PROVE CacheInv'
<1> USE VaultAssumption DEF CacheInv
<1>1. PICK r \in Secrets : /\ version' = [version EXCEPT ![r] = @ + 1]
                           /\ replaced' = [replaced EXCEPT ![r] = Append(@, now)]
    BY DEF Rotate
<1>2. UNCHANGED <<cache, now, leases, token, refreshed>> /\ last' = Nothing
    BY DEF Rotate
<1>3. TypeOK'
  <2>1. version' \in [Secrets -> Nat \ {0}] /\ replaced' \in [Secrets -> Seq(Nat)]
    BY <1>1 DEF TypeOK
  <2>2. ASSUME NEW s \in Secrets PROVE Len(replaced'[s]) + 1 = version'[s]
    BY <1>1 DEF TypeOK
  <2> QED
    BY <1>2, <2>1, <2>2 DEF TypeOK, cache
<1>4. Renewable' /\ \A q \in Roles : RoleEntry(q)'
    BY <1>2 DEF Renewable, RoleEntry, CachedTooLong, cache
<1>5. ASSUME NEW s \in Secrets PROVE refreshed'[s] <= version'[s] /\ SecretEntry(s)'
  <2>1. CASE s # r
    BY <1>1, <1>2, <2>1 DEF SecretEntry, cache, TypeOK
  <2>2. CASE s = r /\ s \in DOMAIN credentials_cache
    <3> DEFINE v == credentials_cache[s]
    <3>1. /\ version'[s] = version[s] + 1 /\ v \in 1..version[s]
          /\ version[s] = Len(replaced[s]) + 1 /\ version[s] \in Nat
          /\ replaced'[s] = Append(replaced[s], now) /\ replaced[s] \in Seq(Nat)
      BY <1>1, <2>2 DEF SecretEntry, TypeOK
    <3>2. IF v = version[s] THEN replaced'[s][v] = now
                            ELSE replaced'[s][v] = replaced[s][v]
      BY <3>1
    <3>3. /\ s \in DOMAIN credentials_cache' /\ credentials_cache'[s] = v
          /\ cache_expiry'[s] = cache_expiry[s] /\ refreshed'[s] = refreshed[s]
          /\ refreshed[s] \in Nat
      BY <1>2, <2>2 DEF cache, TypeOK
    <3>4. PICK ttl \in Ttls : IF v = version[s]
                              THEN cache_expiry[s] <= now + ttl
                              ELSE cache_expiry[s] <= replaced[s][v] + ttl
      BY <2>2 DEF SecretEntry
    <3>5. v >= refreshed[s]
      BY <2>2 DEF SecretEntry
    <3>6. cache_expiry'[s] <= replaced'[s][v] + ttl
      BY <3>2, <3>3, <3>4
    <3>7. /\ v # version'[s] /\ v \in 1..version'[s]
      BY <3>1
    <3>8. refreshed'[s] <= version'[s]
      BY <3>1, <3>3
    <3> HIDE DEF v
    <3>9. IF credentials_cache'[s] = version'[s]
          THEN cache_expiry'[s] <= now' + ttl
          ELSE cache_expiry'[s] <= replaced'[s][credentials_cache'[s]] + ttl
      BY <3>3, <3>6, <3>7
    <3> QED
      BY <3>3, <3>5, <3>7, <3>8, <3>9 DEF SecretEntry
  <2>3. CASE s = r /\ s \notin DOMAIN credentials_cache
    BY <1>1, <1>2, <2>3 DEF SecretEntry, cache, TypeOK
  <2> QED
    BY <2>1, <2>2, <2>3
<1>6. LeaseOutlivesCache' /\ BriefStaleness' /\ RefreshLasts'
    BY <1>2 DEF LeaseOutlivesCache, BriefStaleness, RefreshLasts, Nothing
<1> QED
    BY <1>3, <1>4, <1>5, <1>6

\* The token's end ends leases, of which entries promise nothing any more.
LEMMA TokenExpiresKeeps == ASSUME CacheInv, TokenExpires PROVE CacheInv'
<1> USE VaultAssumption DEF CacheInv
<1>1. /\ token' = FALSE /\ last' = Nothing
      /\ leases' = [i \in DOMAIN leases |->
                      [leases[i] EXCEPT !.ends = IF @ < now THEN @ ELSE now]]
      /\ UNCHANGED <<cache, now, version, replaced, refreshed>>
    BY DEF TokenExpires
<1>2. /\ leases' \in Seq(Leases) /\ Len(leases') = Len(leases)
      /\ \A i \in 1..Len(leases) : /\ leases'[i].issued = leases[i].issued
                                   /\ leases'[i].ends <= leases[i].ends
  <2>1. leases \in Seq(Leases) /\ DOMAIN leases = 1..Len(leases) /\ Len(leases) \in Nat
    BY DEF TypeOK, Leases
  <2>2. ASSUME NEW i \in 1..Len(leases)
        PROVE  /\ leases'[i] \in Leases
               /\ leases'[i].issued = leases[i].issued
               /\ leases'[i].ends <= leases[i].ends
    <3>1. leases'[i] = [leases[i] EXCEPT !.ends = IF @ < now THEN @ ELSE now]
      BY <1>1, <2>1
    <3>2. leases[i] \in Leases /\ now \in Nat
      BY <2>1, LeaseHours DEF TypeOK
    <3> QED
      BY <3>1, <3>2 DEF Leases
  <2>3. leases' \in [1..Len(leases) -> Leases]
    BY <1>1, <2>1, <2>2
  <2> QED
    BY <2>1, <2>2, <2>3
<1>3. TypeOK'
    BY <1>1, <1>2 DEF TypeOK, Leases, cache
<1>4. ASSUME NEW i \in 1..Len(leases')
      PROVE  leases'[i].ends <= now' + Lease /\ leases'[i].ends <= leases'[i].issued + MaxTtl
  <2>1. leases[i].issued \in Nat /\ leases[i].ends \in Nat /\ now \in Nat
    BY <1>2, LeaseHours DEF TypeOK, Leases
  <2>2. leases'[i].ends \in Nat
    <3>1. leases'[i] \in Leases
      BY <1>2
    <3> QED
      BY <3>1 DEF Leases
  <2>3. leases[i].ends <= now + Lease /\ leases[i].ends <= leases[i].issued + MaxTtl
    BY <1>2 DEF Renewable
  <2>4. leases'[i].issued = leases[i].issued /\ leases'[i].ends <= leases[i].ends
    BY <1>2
  <2>5. now' = now
    BY <1>1
  <2>6. Lease \in Nat /\ MaxTtl \in Nat
    OBVIOUS
  <2>7. leases'[i].ends <= now + Lease /\ leases'[i].ends <= leases[i].issued + MaxTtl
    BY <2>1, <2>2, <2>3, <2>4, <2>6
  <2> QED
    BY <2>4, <2>5, <2>7
<1>5. \A r \in Roles : RoleEntry(r)'
    BY <1>1, <1>2 DEF RoleEntry, cache
<1>6. \A s \in Secrets : refreshed'[s] <= version'[s] /\ SecretEntry(s)'
    BY <1>1 DEF SecretEntry, cache
<1>7. LeaseOutlivesCache' /\ BriefStaleness' /\ RefreshLasts'
    BY <1>1 DEF LeaseOutlivesCache, BriefStaleness, RefreshLasts, Nothing
<1> QED
    BY <1>3, <1>4, <1>5, <1>6, <1>7 DEF Renewable
-----------------------------------------------------------------------------
(* What a call leaves and makes *)

Serves ==
    /\ UNCHANGED <<now, version, replaced, token>>
    /\ UNCHANGED leases \/ GenerateCredentials

SameEntry(p) ==
    p \in DOMAIN credentials_cache' =>
       /\ p \in DOMAIN credentials_cache
       /\ credentials_cache'[p] = credentials_cache[p] /\ cache_expiry'[p] = cache_expiry[p]

\* A lease that is granted comes after those there are.
LEMMA LeasesGrow ==
    ASSUME CacheInv, Serves
    PROVE  /\ leases' \in Seq(Leases)
           /\ Len(leases) \in Nat /\ Len(leases') \in Nat /\ Len(leases) <= Len(leases')
           /\ \A i \in 1..Len(leases) : leases'[i] = leases[i]
           /\ Renewable'
<1> USE VaultAssumption
<1>1. leases \in Seq(Leases) /\ now \in Nat /\ now' = now
    BY DEF CacheInv, TypeOK, Leases, Serves
<1>2. CASE leases' = leases
    BY <1>1, <1>2 DEF CacheInv, Renewable
<1>3. CASE GenerateCredentials
  <2>1. Granted \in Leases
    BY <1>1 DEF Granted, Leases
  <2>2. leases' = Append(leases, Granted)
    BY <1>3 DEF GenerateCredentials
  <2>3. /\ leases' \in Seq(Leases)
        /\ Len(leases) \in Nat /\ Len(leases') = Len(leases) + 1
        /\ \A i \in 1..Len(leases) : leases'[i] = leases[i]
        /\ leases'[Len(leases) + 1] = Granted
    BY <1>1, <2>1, <2>2
  <2>4. Granted.ends <= now + Lease /\ Granted.ends <= Granted.issued + MaxTtl
    BY <1>1 DEF Granted
  <2>5. ASSUME NEW i \in 1..Len(leases')
        PROVE  leases'[i].ends <= now' + Lease /\ leases'[i].ends <= leases'[i].issued + MaxTtl
    <3>1. CASE i \in 1..Len(leases)
      BY <1>1, <2>3, <3>1 DEF CacheInv, Renewable
    <3>2. CASE i = Len(leases) + 1
      BY <1>1, <2>3, <2>4, <3>2
    <3> QED
      BY <2>3, <3>1, <3>2
  <2> QED
    BY <2>3, <2>5 DEF Renewable
<1> QED
    BY <1>2, <1>3 DEF Serves

\* An entry that is left is covered by its lease as before.
LEMMA KeptRole ==
    ASSUME CacheInv, Serves, NEW r \in Roles, SameEntry(r)
    PROVE  RoleEntry(r)'
<1>1. /\ Len(leases) \in Nat /\ Len(leases') \in Nat /\ Len(leases) <= Len(leases')
      /\ \A i \in 1..Len(leases) : leases'[i] = leases[i]
    BY LeasesGrow
<1>2. RoleEntry(r) /\ token' = token /\ TypeOK
    BY DEF CacheInv, Serves
<1> QED
    BY <1>1, <1>2 DEF RoleEntry, SameEntry, CachedTooLong, TypeOK

\* An entry that is left is as old as before.
LEMMA KeptSecret ==
    ASSUME CacheInv, Serves, NEW s \in Secrets, SameEntry(s), refreshed'[s] = refreshed[s]
    PROVE  refreshed'[s] <= version'[s] /\ SecretEntry(s)'
<1>1. /\ SecretEntry(s) /\ refreshed[s] <= version[s]
      /\ UNCHANGED <<now, version, replaced>>
    BY DEF CacheInv, Serves
<1> QED
    BY <1>1 DEF SecretEntry, SameEntry

\* An entry made from Vault's answer is the latest version.
LEMMA NewSecret ==
    ASSUME CacheInv, Serves, NEW s \in Secrets, NEW ttl \in Ttls,
           credentials_cache'[s] = version[s], cache_expiry'[s] = now + ttl,
           refreshed'[s] \in {refreshed[s], version[s]}
    PROVE  refreshed'[s] <= version'[s] /\ SecretEntry(s)'
<1>1. /\ version[s] \in Nat \ {0} /\ refreshed[s] \in Nat /\ refreshed[s] <= version[s]
      /\ now \in Nat /\ ttl \in Nat /\ now' = now /\ version'[s] = version[s]
    BY VaultAssumption DEF CacheInv, TypeOK, Serves
<1>2. refreshed'[s] <= version'[s] /\ credentials_cache'[s] = version'[s]
    BY <1>1
<1>3. cache_expiry'[s] <= now' + ttl /\ credentials_cache'[s] \in 1..version'[s]
    BY <1>1
<1> QED
    BY <1>2, <1>3 DEF SecretEntry

\* An entry made with a new lease ends before the lease does, unless it was made for longer.
LEMMA NewRole ==
    ASSUME CacheInv, Serves, GenerateCredentials, NEW r \in Roles, NEW ttl \in Ttls,
           credentials_cache'[r] = Len(leases'), cache_expiry'[r] = now + ttl
    PROVE  RoleEntry(r)'
<1>1. leases \in Seq(Leases) /\ now \in Nat
    BY DEF CacheInv, TypeOK, Leases
<1>2. leases' = Append(leases, Granted)
    BY DEF GenerateCredentials
<1>3. Len(leases') \in 1..Len(leases') /\ leases'[Len(leases')] = Granted
    BY <1>1, <1>2
<1>4. ttl \in Nat /\ Lease \in Nat
    BY VaultAssumption
<1>5. CASE ttl <= Lease
    BY <1>1, <1>3, <1>4, <1>5 DEF RoleEntry, Granted
<1>6. CASE ttl > Lease
  <2>1. cache_expiry'[r] > leases'[credentials_cache'[r]].issued + Lease
    BY <1>1, <1>3, <1>4, <1>6 DEF Granted
  <2> QED
    BY <1>3, <2>1 DEF RoleEntry, CachedTooLong
<1> QED
    BY <1>4, <1>5, <1>6

\* The types of what a call does not touch.
LEMMA TypesKept ==
    ASSUME CacheInv, Serves,
           DOMAIN credentials_cache' \subseteq Paths,
           credentials_cache' \in [DOMAIN credentials_cache' -> Nat \ {0}],
           cache_expiry' \in [DOMAIN credentials_cache' -> Nat],
           refreshed' \in [Secrets -> Nat]
    PROVE  TypeOK'
<1>1. leases' \in Seq(Leases)
    BY LeasesGrow
<1> QED
    BY <1>1 DEF CacheInv, TypeOK, Serves, Leases

\* A step that returns nothing hands nothing out.
LEMMA NothingReturned ==
    ASSUME last' = Nothing
    PROVE  LeaseOutlivesCache' /\ BriefStaleness' /\ RefreshLasts'
BY DEF LeaseOutlivesCache, BriefStaleness, RefreshLasts, Nothing

\* What Vault has answered is up to date.
LEMMA SecretReturned ==
    ASSUME CacheInv, Serves, NEW s \in Secrets, last'.path = {s}, last'.value = version[s],
           refreshed'[s] <= version[s]
    PROVE  LeaseOutlivesCache' /\ BriefStaleness' /\ RefreshLasts'
<1>1. version'[s] = version[s] /\ version[s] \in Nat
    BY DEF CacheInv, TypeOK, Serves
<1>2. \A r \in Roles : last'.path # {r}
    BY VaultAssumption
<1>3. \A t \in Secrets : last'.path = {t} => t = s
    OBVIOUS
<1>4. refreshed'[s] <= last'.value /\ ~(last'.value < version'[s])
    BY <1>1
<1> QED
    BY <1>1, <1>2, <1>3, <1>4 DEF LeaseOutlivesCache, BriefStaleness, RefreshLasts

\* A hit is covered by its entry.
LEMMA HitReturned ==
    ASSUME CacheInv, NEW p \in Paths, FromCache(p), UNCHANGED <<now, refreshed>>
    PROVE  CacheInv'
<1> USE VaultAssumption
<1>1. /\ p \in DOMAIN credentials_cache /\ now < cache_expiry[p]
      /\ last'.path = {p} /\ last'.value = credentials_cache[p]
      /\ UNCHANGED <<credentials_cache, cache_expiry, version, replaced, leases, token>>
    BY DEF FromCache, Hit, Expired, Returns, cache, vault
<1>2. TypeOK' /\ Renewable' /\ \A r \in Roles : RoleEntry(r)'
    BY <1>1 DEF CacheInv, TypeOK, Renewable, RoleEntry, CachedTooLong
<1>3. \A s \in Secrets : refreshed'[s] <= version'[s] /\ SecretEntry(s)'
    BY <1>1 DEF CacheInv, SecretEntry
<1>4. LeaseOutlivesCache'
  <2> SUFFICES ASSUME NEW r \in Roles, last'.path = {r}, token', ~CachedTooLong(r)'
               PROVE  now' < leases'[last'.value].ends
    BY DEF LeaseOutlivesCache
  <2>1. p = r
    BY <1>1
  <2>2. /\ credentials_cache[p] \in 1..Len(leases)
        /\ cache_expiry[p] <= leases[credentials_cache[p]].ends
    BY <1>1, <2>1 DEF CacheInv, RoleEntry, CachedTooLong
  <2>3. leases[credentials_cache[p]].ends \in Nat
    BY <2>2, LeaseHours DEF CacheInv, TypeOK, Leases
  <2>4. now \in Nat /\ cache_expiry[p] \in Nat
    BY <1>1 DEF CacheInv, TypeOK
  <2> QED
    BY <1>1, <2>2, <2>3, <2>4
<1>5. BriefStaleness'
  <2> SUFFICES ASSUME NEW s \in Secrets, last'.path = {s}, last'.value < version'[s]
               PROVE  \E ttl \in Ttls : now' < replaced'[s][last'.value] + ttl
    BY DEF BriefStaleness
  <2>1. p = s /\ credentials_cache[s] \in 1..version[s] /\ credentials_cache[s] # version[s]
    <3>1. p = s
      BY <1>1
    <3>2. credentials_cache[s] \in 1..version[s]
      BY <1>1, <3>1 DEF CacheInv, SecretEntry
    <3>3. credentials_cache[s] < version[s] /\ version[s] \in Nat
      BY <1>1, <3>1 DEF CacheInv, TypeOK
    <3> QED
      BY <3>1, <3>2, <3>3
  <2>2. PICK ttl \in Ttls : cache_expiry[s] <= replaced[s][credentials_cache[s]] + ttl
    BY <1>1, <2>1 DEF CacheInv, SecretEntry
  <2>3. replaced[s][credentials_cache[s]] \in Nat
    <3>1. /\ replaced[s] \in Seq(Nat) /\ version[s] = Len(replaced[s]) + 1
          /\ version[s] \in Nat
      BY DEF CacheInv, TypeOK
    <3>2. credentials_cache[s] \in 1..Len(replaced[s])
      BY <2>1, <3>1
    <3> QED
      BY <3>1, <3>2
  <2>4. now \in Nat /\ cache_expiry[s] \in Nat /\ ttl \in Nat
    BY <1>1, <2>1 DEF CacheInv, TypeOK
  <2>5. now < replaced[s][credentials_cache[s]] + ttl
    BY <1>1, <2>1, <2>2, <2>3, <2>4
  <2> QED
    BY <1>1, <2>1, <2>5
<1>6. RefreshLasts'
    BY <1>1 DEF CacheInv, SecretEntry, RefreshLasts
<1> QED
    BY <1>2, <1>3, <1>4, <1>5, <1>6 DEF CacheInv

\* A call that raises may have dropped an entry, and asked Vault for a lease.
LEMMA RaisesKeeps ==
    ASSUME CacheInv, Serves, NEW gone, Raises(gone), UNCHANGED refreshed
    PROVE  CacheInv'
<1>1. Drop(gone) /\ last' = Nothing /\ TypeOK
    BY DEF Raises, CacheInv
<1>2. TypeOK'
    BY <1>1, Dropped, TypesKept DEF TypeOK
<1>3. \A p \in Paths : SameEntry(p)
    BY <1>1, Dropped DEF SameEntry
<1>4. \A r \in Roles : RoleEntry(r)'
    BY <1>3, KeptRole DEF Paths
<1>5. \A s \in Secrets : refreshed'[s] <= version'[s] /\ SecretEntry(s)'
    BY <1>3, KeptSecret DEF Paths
<1> QED
    BY <1>1, <1>2, <1>4, <1>5, LeasesGrow, NothingReturned DEF CacheInv

\* The entry that a call makes is as good as the answer; the others are left.
LEMMA ReadSecretKeeps ==
    ASSUME CacheInv, NEW s \in Paths, NEW useCache \in BOOLEAN, NEW ttl \in Ttls,
           ReadSecret(s, useCache, ttl), UNCHANGED now,
           \/ UNCHANGED refreshed
           \/ useCache /\ refreshed' = [refreshed EXCEPT ![s] = version[s]]
    PROVE  CacheInv'
<1>1. s \in Secrets /\ Serves /\ last'.path = {s} /\ last'.value = version[s]
    BY DEF ReadSecret, FromVault, Returns, Serves, vault
<1>2. version[s] \in Nat \ {0} /\ ttl \in Nat /\ TypeOK
    BY <1>1, VaultAssumption DEF CacheInv, TypeOK
<1>3. /\ refreshed' \in [Secrets -> Nat] /\ refreshed'[s] \in {refreshed[s], version[s]}
      /\ \A t \in Secrets \ {s} : refreshed'[t] = refreshed[t]
    BY <1>1, <1>2 DEF TypeOK
<1>4. CASE useCache
  <2>1. Put(s, version[s], ttl)
    BY <1>4 DEF ReadSecret, FromVault
  <2>2. TypeOK'
    BY <1>1, <1>2, <1>3, <2>1, Stored, TypesKept DEF TypeOK
  <2>3. credentials_cache'[s] = version[s] /\ cache_expiry'[s] = now + ttl
    BY <1>2, <2>1, Stored
  <2>4. \A p \in Paths \ {s} : SameEntry(p)
    BY <1>2, <2>1, Stored DEF SameEntry
  <2>5. \A r \in Roles : RoleEntry(r)'
    BY <1>1, <2>4, KeptRole, VaultAssumption DEF Paths
  <2>6. ASSUME NEW t \in Secrets PROVE refreshed'[t] <= version'[t] /\ SecretEntry(t)'
    <3>1. CASE t = s
      BY <1>1, <1>3, <2>3, <3>1, NewSecret
    <3>2. CASE t # s
      BY <1>1, <1>3, <2>4, <3>2, KeptSecret DEF Paths
    <3> QED
      BY <3>1, <3>2
  <2>7. refreshed'[s] <= version[s]
    BY <1>1, <2>6 DEF Serves
  <2> QED
    BY <1>1, <2>2, <2>5, <2>6, <2>7, LeasesGrow, SecretReturned DEF CacheInv
<1>5. CASE ~useCache
  <2>1. UNCHANGED <<cache, refreshed>>
    BY <1>5 DEF ReadSecret, FromVault
  <2>2. TypeOK'
    BY <1>1, <1>2, <1>3, <2>1, TypesKept DEF TypeOK, cache
  <2>3. \A p \in Paths : SameEntry(p)
    BY <2>1 DEF SameEntry, cache
  <2>4. \A r \in Roles : RoleEntry(r)'
    BY <1>1, <2>3, KeptRole DEF Paths
  <2>5. \A t \in Secrets : refreshed'[t] <= version'[t] /\ SecretEntry(t)'
    BY <1>1, <2>1, <2>3, KeptSecret DEF Paths
  <2>6. refreshed'[s] <= version[s]
    BY <1>1, <2>5 DEF Serves
  <2> QED
    BY <1>1, <2>2, <2>4, <2>5, <2>6, LeasesGrow, SecretReturned DEF CacheInv
<1> QED
    BY <1>4, <1>5

\* New credentials of a role are handed out, and cached when the caller uses the cache.
LEMMA GenerateKeeps ==
    ASSUME CacheInv, NEW r \in Roles, NEW useCache \in BOOLEAN, NEW ttl \in Ttls,
           GenerateCredentials, FromVault(r, Len(leases'), useCache, ttl),
           UNCHANGED <<now, refreshed>>
    PROVE  CacheInv'
<1> USE VaultAssumption
<1>1. Serves /\ last'.path = {r} /\ last'.value = Len(leases')
    BY DEF FromVault, Returns, Serves, GenerateCredentials
<1>2. /\ leases \in Seq(Leases) /\ leases' = Append(leases, Granted)
      /\ now \in Nat /\ now' = now /\ TypeOK
    BY DEF CacheInv, TypeOK, Leases, GenerateCredentials
<1>3. Len(leases') \in Nat \ {0} /\ ttl \in Nat /\ leases'[Len(leases')] = Granted
    BY <1>2
<1>4. LeaseOutlivesCache' /\ BriefStaleness' /\ RefreshLasts'
  <2>1. \A s \in Secrets : last'.path # {s}
    BY <1>1
  <2>2. now' < leases'[last'.value].ends
    BY <1>1, <1>2, <1>3 DEF Granted
  <2> QED
    BY <2>1, <2>2 DEF LeaseOutlivesCache, BriefStaleness, RefreshLasts
<1>5. CASE useCache
  <2>1. Put(r, Len(leases'), ttl)
    BY <1>5 DEF FromVault
  <2>2. TypeOK'
    <3>1. /\ DOMAIN credentials_cache' = DOMAIN credentials_cache \cup {r}
          /\ credentials_cache' \in [DOMAIN credentials_cache' -> Nat \ {0}]
          /\ cache_expiry' \in [DOMAIN credentials_cache' -> Nat]
      BY <1>2, <1>3, <2>1, Stored
    <3>2. DOMAIN credentials_cache' \subseteq Paths /\ refreshed' \in [Secrets -> Nat]
      BY <1>2, <3>1 DEF TypeOK, Paths
    <3> QED
      BY <1>1, <3>1, <3>2, TypesKept
  <2>3. credentials_cache'[r] = Len(leases') /\ cache_expiry'[r] = now + ttl
    BY <1>2, <1>3, <2>1, Stored
  <2>4. \A p \in Paths \ {r} : SameEntry(p)
    BY <1>2, <1>3, <2>1, Stored DEF SameEntry
  <2>5. ASSUME NEW q \in Roles PROVE RoleEntry(q)'
    <3>1. CASE q = r
      BY <1>1, <2>3, <3>1, NewRole
    <3>2. CASE q # r
      BY <1>1, <2>4, <3>2, KeptRole DEF Paths
    <3> QED
      BY <3>1, <3>2
  <2>6. \A t \in Secrets : refreshed'[t] <= version'[t] /\ SecretEntry(t)'
    BY <1>1, <2>4, KeptSecret DEF Paths
  <2> QED
    BY <1>1, <1>4, <2>2, <2>5, <2>6, LeasesGrow DEF CacheInv
<1>6. CASE ~useCache
  <2>1. UNCHANGED cache
    BY <1>6 DEF FromVault
  <2>2. TypeOK'
    BY <1>1, <1>2, <2>1, TypesKept DEF TypeOK, cache
  <2>3. \A p \in Paths : SameEntry(p)
    BY <2>1 DEF SameEntry, cache
  <2>4. \A q \in Roles : RoleEntry(q)'
    BY <1>1, <2>3, KeptRole DEF Paths
  <2>5. \A t \in Secrets : refreshed'[t] <= version'[t] /\ SecretEntry(t)'
    BY <1>1, <2>3, KeptSecret DEF Paths
  <2> QED
    BY <1>1, <1>4, <2>2, <2>4, <2>5, LeasesGrow DEF CacheInv
<1> QED
    BY <1>5, <1>6

\* A renewal makes a lease no shorter.
LEMMA RenewKeeps == ASSUME CacheInv, RenewLease PROVE CacheInv'
<1> USE VaultAssumption
<1>1. PICK i \in DOMAIN leases : leases' = [leases EXCEPT ![i] = Longer(@)]
    BY DEF RenewLease
<1>2. UNCHANGED <<cache, now, version, replaced, token, refreshed>> /\ last' = Nothing
    BY DEF RenewLease
<1>3. leases \in Seq(Leases) /\ now \in Nat /\ i \in 1..Len(leases)
    BY DEF CacheInv, TypeOK, Leases
<1>4. leases[i] \in Leases /\ leases[i].issued \in Nat /\ leases[i].ends \in Nat
    BY <1>3, LeaseHours
<1>5. leases[i].ends <= now + Lease /\ leases[i].ends <= leases[i].issued + MaxTtl
    BY <1>3 DEF CacheInv, Renewable
<1>6. /\ Longer(leases[i]) \in Leases
      /\ Longer(leases[i]).ends >= leases[i].ends
      /\ Longer(leases[i]).ends <= now + Lease
      /\ Longer(leases[i]).ends <= Longer(leases[i]).issued + MaxTtl
  <2>1. /\ Longer(leases[i]).issued = leases[i].issued
        /\ Longer(leases[i]).ends = IF now + Lease < leases[i].issued + MaxTtl
                                    THEN now + Lease ELSE leases[i].issued + MaxTtl
        /\ Longer(leases[i]) = [issued |-> Longer(leases[i]).issued,
                                ends |-> Longer(leases[i]).ends]
    BY <1>4 DEF Longer, Leases
  <2>2. Lease \in Nat /\ MaxTtl \in Nat
    OBVIOUS
  <2>3. Longer(leases[i]).ends \in Nat
    BY <1>3, <1>4, <2>1, <2>2
  <2>4. Longer(leases[i]) \in Leases
    BY <1>4, <2>1, <2>3 DEF Leases
  <2> QED
    BY <1>3, <1>4, <1>5, <2>1, <2>2, <2>4
<1>7. /\ leases' \in Seq(Leases) /\ Len(leases') = Len(leases)
      /\ leases'[i] = Longer(leases[i])
      /\ \A j \in 1..Len(leases) : j # i => leases'[j] = leases[j]
    BY <1>1, <1>3, <1>6
<1>8. TypeOK'
    BY <1>2, <1>7 DEF CacheInv, TypeOK, Leases, cache
<1>9. Renewable'
    BY <1>2, <1>6, <1>7 DEF CacheInv, Renewable
<1>10. ASSUME NEW r \in Roles PROVE RoleEntry(r)'
  <2>1. CASE r \notin DOMAIN credentials_cache
    BY <1>2, <2>1 DEF RoleEntry, cache
  <2>2. CASE r \in DOMAIN credentials_cache
    <3> DEFINE k == credentials_cache[r]
    <3>1. /\ k \in 1..Len(leases)
          /\ token => cache_expiry[r] <= leases[k].ends \/ CachedTooLong(r)
      BY <2>2 DEF CacheInv, RoleEntry
    <3>2. cache_expiry[r] \in Nat /\ leases[k].ends \in Nat
      BY <1>3, <2>2, <3>1, LeaseHours DEF CacheInv, TypeOK
    <3>3. leases'[k].ends \in Nat /\ leases'[k].ends >= leases[k].ends
      <4>1. leases'[k] \in Leases
        BY <1>7, <3>1
      <4>2. leases'[k].ends \in Nat
        BY <4>1 DEF Leases
      <4>3. CASE k = i
        BY <1>6, <1>7, <4>2, <4>3
      <4>4. CASE k # i
        BY <1>7, <3>1, <3>2, <4>2, <4>4
      <4> QED
        BY <4>3, <4>4
    <3>4. leases'[k].issued = leases[k].issued
      <4>1. CASE k = i
        <5>1. Longer(leases[i]).issued = leases[i].issued
          BY <1>4 DEF Longer, Leases
        <5> QED
          BY <1>7, <4>1, <5>1
      <4>2. CASE k # i
        BY <1>7, <3>1, <4>2
      <4> QED
        BY <4>1, <4>2
    <3>5. CachedTooLong(r) => CachedTooLong(r)'
      BY <1>2, <2>2, <3>4 DEF CachedTooLong, cache
    <3> QED
      BY <1>2, <1>7, <2>2, <3>1, <3>2, <3>3, <3>5 DEF RoleEntry, cache
  <2> QED
    BY <2>1, <2>2
<1>11. \A s \in Secrets : refreshed'[s] <= version'[s] /\ SecretEntry(s)'
    BY <1>2 DEF CacheInv, SecretEntry, cache
<1> QED
    BY <1>2, <1>8, <1>9, <1>10, <1>11, NothingReturned DEF CacheInv

\* Every step keeps the invariant.
LEMMA CacheStep == CacheInv /\ [Next]_vars => CacheInv'
<1> SUFFICES ASSUME CacheInv, [Next]_vars PROVE CacheInv'
    OBVIOUS
<1>1. CASE GetCredentials
  <2>1. PICK p \in Paths, useCache \in BOOLEAN, ttl \in Ttls :
           \/ FromCache(p)
           \/ ReadSecret(p, useCache, ttl)
           \/ Raises(Stale(p, useCache)) /\ UNCHANGED vault
    BY <1>1 DEF GetCredentials
  <2>2. UNCHANGED <<now, refreshed>>
    BY <1>1 DEF GetCredentials
  <2> QED
    BY <2>1, <2>2, HitReturned, ReadSecretKeeps, RaisesKeeps DEF Serves, vault
<1>2. CASE GetDatabaseCredentials
  <2>1. PICK r \in Roles, useCache \in BOOLEAN, ttl \in Ttls :
           \/ FromCache(r)
           \/ GenerateCredentials /\ FromVault(r, Len(leases'), useCache, ttl)
           \/ (UNCHANGED vault \/ GenerateCredentials) /\ Raises(Stale(r, useCache))
    BY <1>2 DEF GetDatabaseCredentials
  <2>2. UNCHANGED <<now, refreshed>>
    BY <1>2 DEF GetDatabaseCredentials
  <2>3. UNCHANGED vault \/ GenerateCredentials => Serves
    BY <2>2 DEF Serves, vault, GenerateCredentials
  <2> QED
    BY <2>1, <2>2, <2>3, HitReturned, GenerateKeeps, RaisesKeeps DEF Paths
<1>3. CASE RefreshCredentials
  <2>1. PICK p \in Paths, ttl \in Ttls :
           /\ ReadSecret(p, TRUE, ttl) \/ (Raises({p}) /\ UNCHANGED vault)
           /\ refreshed' = IF p \in Secrets /\ last' # Nothing
                           THEN [refreshed EXCEPT ![p] = version[p]] ELSE refreshed
           /\ UNCHANGED now
    BY <1>3 DEF RefreshCredentials
  <2>2. CASE ReadSecret(p, TRUE, ttl)
    BY <2>1, <2>2, ReadSecretKeeps
  <2>3. CASE Raises({p}) /\ UNCHANGED vault
    <3>1. Serves /\ UNCHANGED refreshed
      BY <2>1, <2>3 DEF Serves, vault, Raises
    <3> QED
      BY <2>3, <3>1, RaisesKeeps
  <2> QED
    BY <2>1, <2>2, <2>3
<1>4. CASE Close
  <2>1. Raises(Paths) /\ Serves /\ UNCHANGED refreshed
    BY <1>4 DEF Close, Raises, Serves, vault
  <2> QED
    BY <2>1, RaisesKeeps
<1>5. CASE UNCHANGED vars
    BY <1>5 DEF vars, cache, vault, CacheInv, TypeOK, Renewable, RoleEntry, SecretEntry,
                LeaseOutlivesCache, CachedTooLong, BriefStaleness, RefreshLasts
<1> QED
    BY <1>1, <1>2, <1>3, <1>4, <1>5, TickKeeps, RotateKeeps, TokenExpiresKeeps, RenewKeeps
    DEF Next

\* CacheInv holds in every state, for any paths, lease and cache_ttl_hours.
LEMMA CacheAlways == Spec => []CacheInv
BY CacheInit, CacheStep, PTL DEF Spec

\* LeaseOutlivesCache: no role's credentials are handed out after their lease, unless the
\* token has expired or the entry was made for longer than the lease.
THEOREM CachedLeasesLive == Spec => [](TypeOK /\ LeaseOutlivesCache)
<1>1. CacheInv => TypeOK /\ LeaseOutlivesCache
    BY DEF CacheInv
<1> QED
    BY <1>1, CacheAlways, PTL

\* BriefStaleness: no secret is handed out for longer than a cache_ttl_hours after it
\* has been rotated.
THEOREM StaleOnlyBriefly == Spec => []BriefStaleness
<1>1. CacheInv => BriefStaleness
    BY DEF CacheInv
<1> QED
    BY <1>1, CacheAlways, PTL

\* RefreshLasts: no call goes back behind a refresh.
THEOREM RefreshAlwaysLasts == Spec => []RefreshLasts
<1>1. CacheInv => RefreshLasts
    BY DEF CacheInv
<1> QED
    BY <1>1, CacheAlways, PTL
=============================================================================
