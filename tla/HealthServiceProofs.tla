-------------------------- MODULE HealthServiceProofs --------------------------
(* What the health service is made of, for any number of requests. *)
EXTENDS HealthService, FiniteSetTheorems, TLAPS

Labels == Initializing \cup {"new", "return", "queued", "checking", "answered"}

\* What a thread at a label has assigned.
Assigned(label) ==
    IF label = "cassandra" THEN {"cassandra"}
    ELSE IF label = "postgresql" THEN {"cassandra", "postgresql"}
    ELSE IF label \in {"vault", "build"} THEN Repos
    ELSE {}

\* A repository that somebody can reach has a connection, is just getting one, or some
\* connect() has failed.
Accounted(service, conns, labels, failed) ==
    \A s \in Repos :
       service[s] # Nobody =>
          <<service[s], s>> \in conns \/ labels[service[s]] = s \/ failed

Whole(service, conns, labels, failed) ==
    service # Nobody =>
       /\ service = Bare \/ \A s \in Repos : service[s] # Nobody
       /\ service = Bare => failed
       /\ Accounted(service, conns, labels, failed)

HealthTypes ==
    /\ _health_service \in Services \cup {Nobody}
    /\ globals \in Services
    /\ pc \in [Requests -> Labels]
    /\ holds \in [Requests -> Services \cup {Nobody}]
    /\ raised \in BOOLEAN

HealthInv ==
    /\ HealthTypes
    /\ \A r \in Requests : \A s \in Assigned(pc[r]) : globals[s] # Nobody
    /\ Accounted(globals, opened, pc, raised)
    /\ Whole(_health_service, opened, pc, raised)
    /\ \A r \in Requests : Whole(holds[r], opened, pc, raised)

-----------------------------------------------------------------------------
LEMMA HealthInit == Init => HealthInv
<1> SUFFICES ASSUME Init PROVE HealthInv
    OBVIOUS
<1>1. HealthTypes
  BY DEF Init, HealthTypes, Bare, Services, Labels
<1>2. \A r \in Requests : Assigned(pc[r]) = {}
  BY DEF Init, Assigned
<1>3. Accounted(globals, opened, pc, raised)
  BY DEF Init, Accounted, Bare
<1>4. _health_service = Nobody /\ \A r \in Requests : holds[r] = Nobody
  BY DEF Init
<1> QED
  BY <1>1, <1>2, <1>3, <1>4 DEF HealthInv, Whole

\* A step after which everybody who was getting a connection still is, or has it, or a
\* connect() has failed.
Steady(conns, conns2, labels, labels2, failed, failed2) ==
    /\ conns \subseteq conns2
    /\ failed => failed2
    /\ \A q \in Requests, s \in Repos :
          labels[q] = s => labels2[q] = s \/ <<q, s>> \in conns2 \/ failed2

LEMMA AccountedKeeps ==
    ASSUME NEW service \in Services,
           NEW conns, NEW conns2, NEW labels, NEW labels2, NEW failed, NEW failed2,
           Accounted(service, conns, labels, failed),
           Steady(conns, conns2, labels, labels2, failed, failed2)
    PROVE  Accounted(service, conns2, labels2, failed2)
<1> SUFFICES ASSUME NEW s \in Repos, service[s] # Nobody
             PROVE  <<service[s], s>> \in conns2 \/ labels2[service[s]] = s \/ failed2
    BY DEF Accounted
<1>1. service[s] \in Requests
  BY DEF Services
<1> QED
  BY <1>1 DEF Accounted, Steady

LEMMA WholeKeeps ==
    ASSUME NEW service \in Services \cup {Nobody},
           NEW conns, NEW conns2, NEW labels, NEW labels2, NEW failed, NEW failed2,
           Whole(service, conns, labels, failed),
           Steady(conns, conns2, labels, labels2, failed, failed2)
    PROVE  Whole(service, conns2, labels2, failed2)
<1> SUFFICES ASSUME service # Nobody PROVE Whole(service, conns2, labels2, failed2)
    BY DEF Whole
<1>1. service \in Services /\ Accounted(service, conns, labels, failed)
  BY DEF Whole
<1>2. Accounted(service, conns2, labels2, failed2)
  BY <1>1, AccountedKeeps
<1> QED
  BY <1>2 DEF Whole, Steady

LEMMA HealthStep == HealthInv /\ [Next]_vars => HealthInv'
<1> SUFFICES ASSUME HealthInv, [Next]_vars PROVE HealthInv'
    OBVIOUS
<1> USE HealthAssumption
<1> DEFINE S == Steady(opened, opened', pc, pc', raised, raised')
<1>t. HealthTypes
  BY DEF HealthInv
<1>b. Bare \in Services /\ \A x, y, z : Accounted(Bare, x, y, z)
  BY DEF Bare, Services, Accounted
<1>g. ASSUME S, UNCHANGED globals PROVE Accounted(globals', opened', pc', raised')
  BY <1>g, <1>t, AccountedKeeps DEF HealthTypes, HealthInv
<1>h. ASSUME S, UNCHANGED _health_service PROVE Whole(_health_service', opened', pc', raised')
  BY <1>h, <1>t, WholeKeeps DEF HealthTypes, HealthInv
<1>w. ASSUME S, NEW r \in Requests PROVE Whole(holds[r], opened', pc', raised')
  BY <1>w, <1>t, WholeKeeps DEF HealthTypes, HealthInv
<1>n. ASSUME S, UNCHANGED <<_health_service, globals, holds>>, HealthTypes',
             \A r \in Requests : Assigned(pc'[r]) \subseteq Assigned(pc[r])
      PROVE  HealthInv'
  BY <1>n, <1>g, <1>h, <1>w DEF HealthInv
<1>1. ASSUME NEW r \in Requests, Enter(r) PROVE HealthInv'
  <2>1. S /\ HealthTypes'
    BY <1>1, <1>t DEF Enter, Finds, Goes, shared, HealthTypes, Labels, Initializing, Steady, Repos
  <2>2. \A q \in Requests : Assigned(pc'[q]) = {} \/ pc'[q] = pc[q]
    BY <1>1, <1>t DEF Enter, Finds, Goes, HealthTypes, Assigned
  <2>3. \A q \in Requests : holds'[q] = holds[q] \/ holds'[q] = _health_service
    BY <1>1, <1>t DEF Enter, Finds, HealthTypes
  <2>4. UNCHANGED <<_health_service, globals>>
    BY <1>1 DEF Enter, shared
  <2> QED
    BY <2>1, <2>2, <2>3, <2>4, <1>g, <1>h, <1>w DEF HealthInv
<1>2. ASSUME NEW r \in Requests, AssignCassandra(r) PROVE HealthInv'
  <2>1. S /\ HealthTypes'
    BY <1>2, <1>t DEF AssignCassandra, Assigns, Goes, history, HealthTypes, Labels,
       Initializing, Steady, Repos, Services
  <2>2. Accounted(globals', opened', pc', raised')
    <3>1. Accounted(globals, opened', pc', raised')
      BY <2>1, <1>t, AccountedKeeps DEF HealthTypes, HealthInv
    <3>2. pc'[r] = "cassandra" /\ globals' = [globals EXCEPT !["cassandra"] = r]
      BY <1>2, <1>t DEF AssignCassandra, Assigns, Goes, HealthTypes
    <3> QED
      BY <3>1, <3>2, <1>t DEF Accounted, HealthTypes, Services
  <2>3. \A q \in Requests : \A s \in Assigned(pc'[q]) : globals'[s] # Nobody
    BY <1>2, <1>t DEF HealthInv, AssignCassandra, Assigns, Goes, HealthTypes, Assigned, Services,
       Repos, HealthAssumption
  <2>4. UNCHANGED <<_health_service, holds>>
    BY <1>2 DEF AssignCassandra
  <2> QED
    BY <2>1, <2>2, <2>3, <2>4, <1>h, <1>w DEF HealthInv
<1>3. ASSUME NEW r \in Requests, MakeVaultClient(r) PROVE HealthInv'
  <2>1. S /\ HealthTypes'
    BY <1>3, <1>t DEF MakeVaultClient, history, HealthTypes, Steady
  <2> QED
    BY <1>3, <2>1, <1>n DEF MakeVaultClient
<1>4. ASSUME NEW r \in Requests, NEW s, NEW next, Connects(r, s, next),
             \/ s = "cassandra" /\ next = "postgresql"
             \/ s = "postgresql" /\ next = "vault"
      PROVE  HealthInv'
  <2>0. /\ pc[r] = s /\ pc' = [pc EXCEPT ![r] = next]
        /\ opened' = opened \cup {<<r, s>>} /\ globals' = [globals EXCEPT ![next] = r]
        /\ UNCHANGED <<_health_service, holds, raised>>
    BY <1>4 DEF Connects, Goes, Assigns, history
  <2>1. S /\ HealthTypes'
    BY <1>4, <2>0, <1>t DEF HealthTypes, Labels, Initializing, Steady, Repos, Services
  <2>2. Accounted(globals', opened', pc', raised')
    <3>1. Accounted(globals, opened', pc', raised')
      BY <2>1, <1>t, AccountedKeeps DEF HealthTypes, HealthInv
    <3>2. pc'[r] = next
      BY <2>0, <1>t DEF HealthTypes
    <3> QED
      BY <2>0, <3>1, <3>2, <1>t DEF Accounted, HealthTypes, Services
  <2>3. \A q \in Requests : \A x \in Assigned(pc'[q]) : globals'[x] # Nobody
    BY <1>4, <2>0, <1>t DEF HealthInv, HealthTypes, Assigned, Services, Repos, HealthAssumption
  <2> QED
    BY <2>0, <2>1, <2>2, <2>3, <1>h, <1>w DEF HealthInv
<1>5. ASSUME NEW r \in Requests, Connects(r, "vault", "build") PROVE HealthInv'
  <2>0. /\ pc[r] = "vault" /\ pc' = [pc EXCEPT ![r] = "build"]
        /\ <<r, "vault">> \in opened
        /\ UNCHANGED <<opened, globals, _health_service, holds, raised>>
    BY <1>5 DEF Connects, Goes, history
  <2>1. S /\ HealthTypes'
    BY <2>0, <1>t DEF HealthTypes, Labels, Initializing, Steady, Repos
  <2>2. \A q \in Requests : Assigned(pc'[q]) \subseteq Assigned(pc[q])
    BY <2>0, <1>t DEF HealthTypes, Assigned
  <2> QED
    BY <2>0, <2>1, <2>2, <1>n
<1>6. ASSUME NEW r \in Requests, NEW s \in Repos, ConnectRaises(r, s) PROVE HealthInv'
  <2>0. /\ pc' = [pc EXCEPT ![r] = "install"] /\ holds' = [holds EXCEPT ![r] = Bare]
        /\ raised' = TRUE /\ UNCHANGED <<opened, globals, _health_service>>
    BY <1>6 DEF ConnectRaises, Goes, shared
  <2>1. S /\ HealthTypes'
    BY <2>0, <1>b, <1>t DEF HealthTypes, Labels, Initializing, Steady
  <2>2. \A q \in Requests : Assigned(pc'[q]) \subseteq Assigned(pc[q])
    BY <2>0, <1>t DEF HealthTypes, Assigned
  <2>3. \A q \in Requests : Whole(holds'[q], opened', pc', raised')
    BY <2>0, <2>1, <1>b, <1>w, <1>t DEF HealthTypes, Whole
  <2> QED
    BY <2>0, <2>1, <2>2, <2>3, <1>g, <1>h DEF HealthInv
<1>7. ASSUME NEW r \in Requests, Build(r) PROVE HealthInv'
  <2>0. /\ pc[r] = "build" /\ pc' = [pc EXCEPT ![r] = "install"]
        /\ holds' = [holds EXCEPT ![r] = globals]
        /\ UNCHANGED <<opened, globals, _health_service, raised>>
    BY <1>7 DEF Build, Goes, shared, history
  <2>1. S /\ HealthTypes'
    BY <2>0, <1>t DEF HealthTypes, Labels, Initializing, Steady, Repos
  <2>2. \A q \in Requests : Assigned(pc'[q]) \subseteq Assigned(pc[q])
    BY <2>0, <1>t DEF HealthTypes, Assigned
  <2>3. \A x \in Repos : globals[x] # Nobody
    BY <2>0 DEF HealthInv, Assigned
  <2>4. globals # Bare
    BY <2>3 DEF Bare, Repos
  <2>5. \A q \in Requests : Whole(holds'[q], opened', pc', raised')
    BY <2>0, <2>1, <2>3, <2>4, <1>g, <1>w, <1>t DEF HealthTypes, Whole
  <2> QED
    BY <2>0, <2>1, <2>2, <2>5, <1>g, <1>h DEF HealthInv
<1>8. ASSUME NEW r \in Requests, Install(r) PROVE HealthInv'
  <2>0. /\ pc[r] = "install" /\ pc' = [pc EXCEPT ![r] = "return"]
        /\ _health_service' = holds[r] /\ UNCHANGED <<opened, globals, holds, raised>>
    BY <1>8 DEF Install, Goes, history
  <2>1. S /\ HealthTypes'
    BY <2>0, <1>t DEF HealthTypes, Labels, Initializing, Steady, Repos
  <2>2. \A q \in Requests : Assigned(pc'[q]) \subseteq Assigned(pc[q])
    BY <2>0, <1>t DEF HealthTypes, Assigned
  <2> QED
    BY <2>0, <2>1, <2>2, <1>g, <1>w DEF HealthInv
<1>9. ASSUME NEW r \in Requests, Return(r) \/ Answer(r) PROVE HealthInv'
  <2>0. /\ \E label \in {"queued", "answered"} : pc' = [pc EXCEPT ![r] = label]
        /\ \E x \in {_health_service, Nobody} : holds' = [holds EXCEPT ![r] = x]
        /\ pc[r] \in {"return", "queued", "checking"}
        /\ UNCHANGED <<opened, globals, _health_service, raised>>
    BY <1>9 DEF Return, Answer, Goes, shared, history
  <2>1. S /\ HealthTypes'
    BY <2>0, <1>t DEF HealthTypes, Labels, Initializing, Steady, Repos
  <2>2. \A q \in Requests : Assigned(pc'[q]) \subseteq Assigned(pc[q])
    BY <2>0, <1>t DEF HealthTypes, Assigned
  <2>3. Accounted(globals', opened', pc', raised')
    BY <2>0, <2>1, <1>g
  <2>4. Whole(_health_service', opened', pc', raised') /\ _health_service' = _health_service
    BY <2>0, <2>1, <1>h
  <2>5. Whole(Nobody, opened', pc', raised')
    BY DEF Whole
  <2>6. ASSUME NEW q \in Requests PROVE Whole(holds'[q], opened', pc', raised')
    <3>1. holds'[q] \in {holds[q], _health_service, Nobody}
      BY <2>0, <1>t DEF HealthTypes
    <3>2. Whole(holds[q], opened', pc', raised')
      BY <2>1, <1>w
    <3> QED
      BY <3>1, <3>2, <2>4, <2>5
  <2>7. \A q \in Requests : \A s \in Assigned(pc'[q]) : globals'[s] # Nobody
    BY <2>0, <2>2 DEF HealthInv
  <2> QED
    BY <2>1, <2>3, <2>4, <2>6, <2>7 DEF HealthInv
<1>10. ASSUME NEW r \in Requests, RunCheck(r) PROVE HealthInv'
  <2>0. /\ pc[r] \in {"queued", "checking"} /\ pc' = [pc EXCEPT ![r] = "checking"]
        /\ UNCHANGED <<opened, globals, _health_service, holds, raised>>
    BY <1>10 DEF RunCheck, shared, history
  <2>1. S /\ HealthTypes'
    BY <2>0, <1>t DEF HealthTypes, Labels, Initializing, Steady, Repos
  <2>2. \A q \in Requests : Assigned(pc'[q]) \subseteq Assigned(pc[q])
    BY <2>0, <1>t DEF HealthTypes, Assigned
  <2> QED
    BY <2>0, <2>1, <2>2, <1>n
<1>11. CASE Environment \/ UNCHANGED vars
  <2>0. UNCHANGED <<pc, opened, globals, _health_service, holds, raised>>
    BY <1>11 DEF Environment, GoesDown, ComesUp, shared, history, vars
  <2>1. S /\ HealthTypes'
    BY <2>0, <1>t DEF HealthTypes, Steady
  <2> QED
    BY <2>0, <2>1, <1>n
<1>12. ASSUME NEW r \in Requests,
              Connects(r, "cassandra", "postgresql") \/ Connects(r, "postgresql", "vault")
       PROVE  HealthInv'
  BY <1>12, <1>4
<1>13. ASSUME NEW r \in Requests, Step(r) PROVE HealthInv'
  BY <1>13, <1>1, <1>2, <1>3, <1>5, <1>6, <1>7, <1>8, <1>9, <1>10, <1>12 DEF Step
<1> QED
  BY <1>11, <1>13 DEF Next

THEOREM HealthInvariant == Spec => []HealthInv
<1>1. HealthInv /\ [Next]_vars => HealthInv'
  BY HealthStep
<1> QED
  BY HealthInit, <1>1, PTL DEF Spec

\* However the threads interleave, no request is checked with a service that mixes
\* repositories and None (get_health_service).
THEOREM ServiceIsWhole == Spec => []AllOrNoRepos
<1>1. HealthInv => AllOrNoRepos
  BY DEF HealthInv, Whole, AllOrNoRepos
<1> QED
  BY <1>1, HealthInvariant, PTL

\* When nobody initializes and no connect() has raised, every repository of the service
\* has got its connection.
THEOREM QuietServiceIsConnected == Spec => []QuietServiceConnected
<1>1. HealthInv => QuietServiceConnected
  <2> SUFFICES ASSUME HealthInv, Quiet, _health_service # Nobody, ~raised, NEW s \in Repos
               PROVE  <<_health_service[s], s>> \in opened
      BY DEF QuietServiceConnected
  <2>1. /\ _health_service \in Services /\ _health_service[s] # Nobody
        /\ Accounted(_health_service, opened, pc, raised)
    BY DEF HealthInv, HealthTypes, Whole
  <2>2. _health_service[s] \in Requests
    BY <2>1 DEF Services
  <2>3. pc[_health_service[s]] # s
    BY <2>2 DEF Quiet, Initializing, Repos
  <2> QED
    BY <2>1, <2>3 DEF Accounted
<1> QED
  BY <1>1, HealthInvariant, PTL

-----------------------------------------------------------------------------
(* What a request has seen *)

SeenTypes ==
    /\ pc \in [Requests -> Labels]
    /\ absent \in [Requests -> SUBSET Components]
    /\ answer \in [Requests -> {0, 200, 404, 503}]
    /\ DOMAIN seen = Requests
    /\ seen = [r \in Requests |-> seen[r]]

\* What is up is not counted as absent, and what has answered a check never is again.
SeenInv ==
    /\ SeenTypes
    /\ \A r \in Requests :
          /\ pc[r] \notin {"new", "answered"} => absent[r] \cap up = {}
          /\ pc[r] = "new" => DOMAIN seen[r] = {}
          /\ answer[r] = 200 => pc[r] = "answered" /\ DOMAIN seen[r] = Checks(r)
          /\ \A c \in DOMAIN seen[r] : seen[r][c] = "healthy" => c \notin absent[r]

LEMMA SeenInit == Init => SeenInv
  BY DEF Init, SeenInv, SeenTypes, Labels, Initializing

LEMMA HealthyCheck ==
    ASSUME NEW service, NEW c, Check(service, c) = "healthy"
    PROVE  c \in up
  BY DEF Check, CheckRepo, CheckVault, CheckService, Verdict

LEMMA SeenStep == SeenInv /\ [Next]_vars => SeenInv'
<1> SUFFICES ASSUME SeenInv, [Next]_vars PROVE SeenInv'
    OBVIOUS
<1>t. SeenTypes
  BY DEF SeenInv
<1>1. ASSUME NEW r \in Requests, Enter(r) PROVE SeenInv'
  <2>0. /\ \E label \in {"settings", "queued"} : pc' = [pc EXCEPT ![r] = label]
        /\ pc[r] = "new" /\ absent' = [absent EXCEPT ![r] = Components \ up]
        /\ UNCHANGED <<seen, answer, up>>
    BY <1>1 DEF Enter, Finds, Goes, environment
  <2>1. SeenTypes'
    BY <2>0, <1>t DEF SeenTypes, Labels, Initializing
  <2>2. \A q \in Requests \ {r} : pc'[q] = pc[q] /\ absent'[q] = absent[q]
    BY <2>0, <1>t DEF SeenTypes
  <2>3. /\ pc'[r] \in {"settings", "queued"} /\ absent'[r] \cap up = {}
        /\ DOMAIN seen[r] = {} /\ answer[r] # 200
    BY <2>0, <1>t DEF SeenInv, SeenTypes
  <2>4. ASSUME NEW q \in Requests
        PROVE  /\ pc'[q] \notin {"new", "answered"} => absent'[q] \cap up' = {}
               /\ pc'[q] = "new" => DOMAIN seen'[q] = {}
               /\ answer'[q] = 200 => pc'[q] = "answered" /\ DOMAIN seen'[q] = Checks(q)
               /\ \A c \in DOMAIN seen'[q] : seen'[q][c] = "healthy" => c \notin absent'[q]
    <3>1. CASE q = r
      BY <2>0, <2>3, <3>1
    <3>2. CASE q # r
      BY <2>0, <2>2, <3>2 DEF SeenInv
    <3> QED
      BY <3>1, <3>2
  <2> QED
    BY <2>1, <2>4 DEF SeenInv, Checks
<1>2. ASSUME NEW r \in Requests,
             \/ AssignCassandra(r) \/ MakeVaultClient(r)
             \/ Connects(r, "cassandra", "postgresql") \/ Connects(r, "postgresql", "vault")
             \/ Connects(r, "vault", "build")
             \/ \E s \in Repos : ConnectRaises(r, s)
             \/ Build(r) \/ Install(r) \/ Return(r)
      PROVE  SeenInv'
  <2>0. /\ pc[r] \notin {"new", "answered"}
        /\ \E label \in Labels \ {"new", "answered"} : pc' = [pc EXCEPT ![r] = label]
        /\ UNCHANGED <<absent, seen, answer, up>>
    BY <1>2, <1>t DEF AssignCassandra, MakeVaultClient, Connects, ConnectRaises, Build, Install,
       Return, Goes, environment, history, Labels, Initializing, Repos, SeenTypes
  <2>1. SeenTypes'
    BY <2>0, <1>t DEF SeenTypes
  <2> QED
    BY <2>0, <2>1, <1>t DEF SeenInv, SeenTypes, Checks
<1>3. ASSUME NEW r \in Requests, RunCheck(r) PROVE SeenInv'
  <2> DEFINE c == NextCheck(r)
  <2>0. /\ pc[r] \in {"queued", "checking"} /\ pc' = [pc EXCEPT ![r] = "checking"]
        /\ seen' = [seen EXCEPT ![r] = [d \in DOMAIN @ \cup {c} |->
                                           IF d = c THEN Check(holds[r], c) ELSE @[d]]]
        /\ UNCHANGED <<absent, answer, up>>
    BY <1>3 DEF RunCheck, environment, history
  <2> HIDE DEF c
  <2>1. SeenTypes'
    BY <2>0, <1>t DEF SeenTypes, Labels, Initializing
  <2>2. \A q \in Requests \ {r} : seen'[q] = seen[q] /\ pc'[q] = pc[q]
    BY <2>0, <1>t DEF SeenTypes
  <2>3. /\ pc'[r] = "checking" /\ absent[r] \cap up = {} /\ answer[r] # 200
        /\ DOMAIN seen'[r] = DOMAIN seen[r] \cup {c}
        /\ \A d \in DOMAIN seen'[r] :
              seen'[r][d] = IF d = c THEN Check(holds[r], c) ELSE seen[r][d]
    BY <2>0, <1>t DEF SeenInv, SeenTypes
  <2>4. \A d \in DOMAIN seen'[r] : seen'[r][d] = "healthy" => d \notin absent[r]
    BY <2>3, HealthyCheck DEF SeenInv
  <2>5. ASSUME NEW q \in Requests \ {r}
        PROVE  /\ pc'[q] \notin {"new", "answered"} => absent'[q] \cap up' = {}
               /\ pc'[q] = "new" => DOMAIN seen'[q] = {}
               /\ answer'[q] = 200 => pc'[q] = "answered" /\ DOMAIN seen'[q] = Checks(q)
               /\ \A d \in DOMAIN seen'[q] : seen'[q][d] = "healthy" => d \notin absent'[q]
    BY <2>0, <2>2 DEF SeenInv
  <2> QED
    BY <2>0, <2>1, <2>3, <2>4, <2>5 DEF SeenInv, Checks
<1>4. ASSUME NEW r \in Requests, Answer(r) PROVE SeenInv'
  <2>0. /\ pc' = [pc EXCEPT ![r] = "answered"] /\ DOMAIN seen[r] = Checks(r)
        /\ pc[r] \in {"queued", "checking"}
        /\ answer' = [answer EXCEPT ![r] = StatusCode(r)]
        /\ UNCHANGED <<absent, seen, up>>
    BY <1>4 DEF Answer, environment, history
  <2>1. StatusCode(r) \in {200, 404, 503}
    BY DEF StatusCode
  <2>2. SeenTypes'
    BY <2>0, <2>1, <1>t DEF SeenTypes, Labels, Initializing
  <2>3. \A q \in Requests \ {r} : pc'[q] = pc[q] /\ answer'[q] = answer[q]
    BY <2>0, <1>t DEF SeenTypes
  <2>4. pc'[r] = "answered"
    BY <2>0, <1>t DEF SeenTypes
  <2>5. ASSUME NEW q \in Requests
        PROVE  /\ pc'[q] \notin {"new", "answered"} => absent'[q] \cap up' = {}
               /\ pc'[q] = "new" => DOMAIN seen'[q] = {}
               /\ answer'[q] = 200 => pc'[q] = "answered" /\ DOMAIN seen'[q] = Checks(q)
               /\ \A d \in DOMAIN seen'[q] : seen'[q][d] = "healthy" => d \notin absent'[q]
    <3>1. CASE q = r
      BY <2>0, <2>4, <3>1 DEF SeenInv
    <3>2. CASE q # r
      BY <2>0, <2>3, <3>2 DEF SeenInv
    <3> QED
      BY <3>1, <3>2
  <2> QED
    BY <2>2, <2>5 DEF SeenInv, Checks
<1>5. ASSUME NEW c \in Components, GoesDown(c) PROVE SeenInv'
  BY <1>5, <1>t DEF GoesDown, history, SeenInv, SeenTypes, Checks
<1>6. ASSUME NEW c \in Components, ComesUp(c) PROVE SeenInv'
  <2>0. /\ up' = up \cup {c}
        /\ absent' = [r \in Requests |->
                         IF pc[r] = "answered" THEN absent[r] ELSE absent[r] \ {c}]
        /\ UNCHANGED <<pc, seen, answer>>
    BY <1>6 DEF ComesUp
  <2>1. SeenTypes'
    BY <2>0, <1>t DEF SeenTypes
  <2> QED
    BY <2>0, <2>1 DEF SeenInv, Checks
<1>7. CASE UNCHANGED vars
  <2>0. UNCHANGED <<pc, absent, answer, seen, up>>
    BY <1>7 DEF vars, history, environment
  <2>1. SeenTypes'
    BY <2>0, <1>t DEF SeenTypes
  <2> QED
    BY <2>0, <2>1 DEF SeenInv, Checks
<1>8. ASSUME NEW r \in Requests, Step(r) PROVE SeenInv'
  BY <1>1, <1>2, <1>3, <1>4, <1>8 DEF Step
<1> QED
  BY <1>5, <1>6, <1>7, <1>8 DEF Next, Environment

\* A request answered with every component healthy met each of them up (check_all and the
\* component checks): no answer is taken from a connection that only looks alive.
THEOREM HealthyAnswersAreEarned == Spec => []HealthyIsEarned
<1>1. SeenInv => HealthyIsEarned
  BY DEF SeenInv, HealthyIsEarned
<1>2. SeenInv /\ [Next]_vars => SeenInv'
  BY SeenStep
<1> QED
  BY <1>1, <1>2, SeenInit, PTL DEF Spec

-----------------------------------------------------------------------------
(* False alarms *)

Solo == \A a, b \in initializers : a = b

Fine == outages = 0 /\ ~raised

\* What a request knows, and what it has seen and been answered while all was fine.
AlarmFacts(r) ==
    /\ pc[r] \in Initializing \cup {"return"} => r \in initializers
    /\ pc[r] = "new" => r \notin initializers
    /\ pc[r] = "install" => holds[r] # Nobody
    /\ pc[r] \in {"return", "queued", "checking"} => _health_service # Nobody
    /\ pc[r] \in {"queued", "checking"} => holds[r] # Nobody
    /\ DOMAIN seen[r] \subseteq Checks(r)
    /\ Fine => \A c \in DOMAIN seen[r] : seen[r][c] # "degraded"
    /\ Fine /\ Solo => answer[r] # 503 /\ \A c \in DOMAIN seen[r] : seen[r][c] = "healthy"

\* Who initializes alone is done when there is a service.
AlarmInv ==
    /\ outages \in Nat /\ IsFiniteSet(initializers)
    /\ outages = 0 => up = Components /\ dead = {}
    /\ Solo /\ _health_service # Nobody => Quiet
    /\ \A r \in Requests : AlarmFacts(r)

LEMMA AlarmInit == Init => AlarmInv
<1> SUFFICES ASSUME Init PROVE AlarmInv
    OBVIOUS
<1>1. IsFiniteSet(initializers)
  BY FS_EmptySet DEF Init
<1> QED
  BY <1>1 DEF Init, AlarmInv, AlarmFacts, Quiet, Initializing

\* Of the components still to be checked, one is the first in the order.
LEMMA NextIsChecked ==
    ASSUME NEW r, DOMAIN seen[r] \subseteq Checks(r), DOMAIN seen[r] # Checks(r)
    PROVE  NextCheck(r) \in Checks(r) \ DOMAIN seen[r] /\ NextCheck(r) \in Components
<1> DEFINE S == Checks(r) \ DOMAIN seen[r]
           First(c) == \A i, j \in DOMAIN Order : Order[i] \in S /\ Order[j] = c => j <= i
<1>1. S # {} /\ S \subseteq Components
  BY DEF Checks
<1>2. DOMAIN Order = 1..5 /\ Components = {Order[1], Order[2], Order[3], Order[4], Order[5]}
  BY DEF Order, Components
<1>3. \A i, j \in 1..5 : Order[i] = Order[j] => i = j
  BY DEF Order
<1>4. \E c \in S : First(c)
  <2> HIDE DEF S
  <2>1. CASE Order[1] \in S
    BY <1>2, <1>3, <2>1
  <2>2. CASE Order[1] \notin S /\ Order[2] \in S
    BY <1>2, <1>3, <2>2
  <2>3. CASE Order[1] \notin S /\ Order[2] \notin S /\ Order[3] \in S
    BY <1>2, <1>3, <2>3
  <2>4. CASE Order[1] \notin S /\ Order[2] \notin S /\ Order[3] \notin S /\ Order[4] \in S
    BY <1>2, <1>3, <2>4
  <2>5. CASE Order[1] \notin S /\ Order[2] \notin S /\ Order[3] \notin S /\ Order[4] \notin S
    BY <1>1, <1>2, <1>3, <2>5
  <2> QED
    BY <2>1, <2>2, <2>3, <2>4, <2>5
<1>5. NextCheck(r) \in S
  BY <1>4 DEF NextCheck
<1> QED
  BY <1>1, <1>5

\* A step on which fine stays fine only if it was, and alone only who was alone.
LEMMA AlarmStep == HealthInv /\ SeenInv /\ AlarmInv /\ [Next]_vars => AlarmInv'
<1> SUFFICES ASSUME HealthInv, SeenInv, AlarmInv, [Next]_vars PROVE AlarmInv'
    OBVIOUS
<1> USE HealthAssumption
<1>t. HealthTypes /\ SeenTypes
  BY DEF HealthInv, SeenInv
<1>s. Nobody \notin Services /\ Bare \in Services
  BY DEF Services, Bare
<1>1. ASSUME NEW r \in Requests, Enter(r) PROVE AlarmInv'
  <2>0. pc[r] = "new" /\ r \notin initializers
        /\ UNCHANGED <<_health_service, dead, seen, answer, up, outages, raised>>
    BY <1>1 DEF Enter, Finds, Goes, shared, environment, AlarmInv, AlarmFacts
  <2>1. CASE _health_service = Nobody
    <3>1. /\ pc' = [pc EXCEPT ![r] = "settings"] /\ initializers' = initializers \cup {r}
          /\ UNCHANGED holds
      BY <1>1, <2>1 DEF Enter, Finds, Goes
    <3>2. IsFiniteSet(initializers')
      BY <3>1, FS_AddElement DEF AlarmInv
    <3>3. Solo' => Solo
      BY <3>1 DEF Solo
    <3>4. \A q \in Requests : AlarmFacts(q)'
      BY <1>t, <2>0, <3>1, <3>3 DEF AlarmInv, AlarmFacts, Fine, Checks, HealthTypes
    <3> QED
      BY <2>0, <2>1, <3>2, <3>4 DEF AlarmInv
  <2>2. CASE _health_service # Nobody
    <3>1. /\ pc' = [pc EXCEPT ![r] = "queued"] /\ holds' = [holds EXCEPT ![r] = _health_service]
          /\ UNCHANGED initializers
      BY <1>1, <2>2 DEF Enter, Finds, Goes
    <3>2. Solo' <=> Solo
      BY <3>1 DEF Solo
    <3>3. \A q \in Requests : AlarmFacts(q)'
      BY <1>t, <2>0, <2>2, <3>1, <3>2
         DEF AlarmInv, AlarmFacts, Fine, Checks, HealthTypes, Initializing
    <3>4. Quiet => Quiet'
      BY <1>t, <3>1 DEF Quiet, Initializing, HealthTypes
    <3> QED
      BY <2>0, <3>1, <3>2, <3>3, <3>4 DEF AlarmInv
  <2> QED
    BY <2>1, <2>2
\* On its way to the service a request goes from label to label.
<1>2. ASSUME NEW r \in Requests, NEW to \in Initializing,
             pc[r] \in Initializing, pc' = [pc EXCEPT ![r] = to],
             holds' \in [Requests -> Services \cup {Nobody}],
             \A q \in Requests \ {r} : holds'[q] = holds[q],
             to = "install" => holds'[r] # Nobody,
             raised => raised',
             UNCHANGED <<_health_service, dead, seen, answer, up, outages, initializers>>
      PROVE  AlarmInv'
  <2>1. \A q \in Requests : pc'[q] = IF q = r THEN to ELSE pc[q]
    BY <1>2, <1>t DEF HealthTypes
  <2>2. (Solo' <=> Solo) /\ (Fine' => Fine)
    BY <1>2 DEF Solo, Fine
  <2>3. AlarmFacts(r)'
    BY <1>2, <2>1, <2>2 DEF AlarmInv, AlarmFacts, Checks, Initializing
  <2>4. ASSUME NEW q \in Requests \ {r} PROVE AlarmFacts(q)'
    BY <1>2, <2>1, <2>2 DEF AlarmInv, AlarmFacts, Checks
  <2>5. ~Quiet
    BY <1>2 DEF Quiet
  <2> QED
    BY <1>2, <2>2, <2>3, <2>4, <2>5 DEF AlarmInv
<1>3. ASSUME NEW r \in Requests,
             \/ AssignCassandra(r) \/ MakeVaultClient(r)
             \/ Connects(r, "cassandra", "postgresql") \/ Connects(r, "postgresql", "vault")
             \/ Connects(r, "vault", "build")
      PROVE  AlarmInv'
  <2>1. /\ pc[r] \in Initializing
        /\ \E to \in Initializing \ {"install"} : pc' = [pc EXCEPT ![r] = to]
        /\ UNCHANGED <<_health_service, dead, holds, seen, answer, up, outages, initializers, raised>>
    BY <1>3, <1>t DEF AssignCassandra, MakeVaultClient, Connects, Goes, environment, history,
       Initializing, HealthTypes
  <2> QED
    BY <1>2, <2>1, <1>t DEF HealthTypes
<1>4. ASSUME NEW r \in Requests, NEW s \in Repos, ConnectRaises(r, s) PROVE AlarmInv'
  <2>1. /\ pc[r] \in Initializing /\ pc' = [pc EXCEPT ![r] = "install"]
        /\ holds' = [holds EXCEPT ![r] = Bare] /\ raised' = TRUE
        /\ UNCHANGED <<_health_service, dead, seen, answer, up, outages, initializers>>
    BY <1>4 DEF ConnectRaises, Goes, shared, environment, Initializing, Repos
  <2>2. "install" \in Initializing
    BY DEF Initializing
  <2>3. /\ holds' \in [Requests -> Services \cup {Nobody}] /\ holds'[r] # Nobody
        /\ \A q \in Requests \ {r} : holds'[q] = holds[q]
    BY <2>1, <1>s, <1>t DEF HealthTypes
  <2> QED
    BY <1>2, <2>1, <2>2, <2>3
<1>5. ASSUME NEW r \in Requests, Build(r) PROVE AlarmInv'
  <2>1. /\ pc[r] \in Initializing /\ pc' = [pc EXCEPT ![r] = "install"]
        /\ holds' = [holds EXCEPT ![r] = globals]
        /\ UNCHANGED <<_health_service, dead, seen, answer, up, outages, initializers, raised>>
    BY <1>5 DEF Build, Goes, shared, environment, history, Initializing
  <2>2. "install" \in Initializing
    BY DEF Initializing
  <2>3. /\ holds' \in [Requests -> Services \cup {Nobody}] /\ holds'[r] # Nobody
        /\ \A q \in Requests \ {r} : holds'[q] = holds[q]
    BY <2>1, <1>s, <1>t DEF HealthTypes
  <2> QED
    BY <1>2, <2>1, <2>2, <2>3
<1>6. ASSUME NEW r \in Requests, Install(r) PROVE AlarmInv'
  <2>1. /\ pc[r] = "install" /\ pc' = [pc EXCEPT ![r] = "return"]
        /\ _health_service' = holds[r] /\ holds[r] # Nobody
        /\ UNCHANGED <<dead, holds, seen, answer, up, outages, initializers, raised>>
    BY <1>6 DEF Install, Goes, environment, history, AlarmInv, AlarmFacts
  <2>2. \A q \in Requests : pc'[q] = IF q = r THEN "return" ELSE pc[q]
    BY <2>1, <1>t DEF HealthTypes
  <2>3. (Solo' <=> Solo) /\ (Fine' <=> Fine)
    BY <2>1 DEF Solo, Fine
  <2>4. \A q \in Requests : AlarmFacts(q)'
    BY <2>1, <2>2, <2>3 DEF AlarmInv, AlarmFacts, Checks, Initializing
  <2>5. Solo => Quiet'
    <3> SUFFICES ASSUME Solo, NEW q \in Requests PROVE pc'[q] \notin Initializing
      BY DEF Quiet
    <3>1. r \in initializers /\ (pc[q] \in Initializing => q \in initializers)
      BY <2>1 DEF AlarmInv, AlarmFacts, Initializing
    <3> QED
      BY <2>2, <3>1 DEF Solo, Initializing
  <2> QED
    BY <2>1, <2>3, <2>4, <2>5 DEF AlarmInv
<1>7. ASSUME NEW r \in Requests, Return(r) PROVE AlarmInv'
  <2>1. /\ pc[r] = "return" /\ pc' = [pc EXCEPT ![r] = "queued"]
        /\ holds' = [holds EXCEPT ![r] = _health_service] /\ _health_service # Nobody
        /\ UNCHANGED <<_health_service, dead, seen, answer, up, outages, initializers, raised>>
    BY <1>7 DEF Return, Goes, shared, environment, history, AlarmInv, AlarmFacts
  <2>2. \A q \in Requests : /\ pc'[q] = IF q = r THEN "queued" ELSE pc[q]
                            /\ holds'[q] = IF q = r THEN _health_service ELSE holds[q]
    BY <2>1, <1>t DEF HealthTypes
  <2>3. (Solo' <=> Solo) /\ (Fine' <=> Fine) /\ (Quiet => Quiet')
    BY <2>1, <2>2 DEF Solo, Fine, Quiet, Initializing
  <2>4. \A q \in Requests : AlarmFacts(q)'
    BY <2>1, <2>2, <2>3 DEF AlarmInv, AlarmFacts, Checks, Initializing
  <2> QED
    BY <2>1, <2>3, <2>4 DEF AlarmInv
<1>8. ASSUME NEW r \in Requests, RunCheck(r) PROVE AlarmInv'
  <2> DEFINE c == NextCheck(r)
             status == Check(holds[r], c)
  <2>1. /\ pc[r] \in {"queued", "checking"} /\ pc' = [pc EXCEPT ![r] = "checking"]
        /\ DOMAIN seen[r] # Checks(r)
        /\ seen' = [seen EXCEPT ![r] = [d \in DOMAIN @ \cup {c} |->
                                           IF d = c THEN status ELSE @[d]]]
        /\ UNCHANGED <<_health_service, dead, holds, answer, up, outages, initializers, raised>>
    BY <1>8 DEF RunCheck, shared, environment, history
  <2>2. c \in Checks(r) /\ c \in Components
    BY <2>1, NextIsChecked DEF AlarmInv, AlarmFacts
  <2>3. /\ holds[r] \in Services /\ _health_service # Nobody
        /\ Whole(holds[r], opened, pc, raised) /\ holds[r] # Nobody
    BY <2>1, <1>t DEF AlarmInv, AlarmFacts, HealthTypes, HealthInv
  <2>4. ASSUME ~raised, NEW s \in Repos
        PROVE  holds[r][s] # Nobody
    BY <2>3, <2>4 DEF Whole
  <2>5. ASSUME Fine PROVE status # "degraded"
    <3>1. c \in Repos => holds[r][c] # Nobody
      BY <2>4, <2>5 DEF Fine
    <3> QED
      BY <3>1 DEF Check, CheckService, CheckVault, CheckRepo, Verdict, Repos
  <2>6. ASSUME Fine, Solo PROVE status = "healthy"
    <3>1. up = Components /\ dead = {} /\ Quiet
      BY <2>3, <2>6 DEF AlarmInv, Fine
    <3>2. CASE c \in Repos
      <4>1. holds[r][c] # Nobody /\ holds[r][c] \in Requests
        BY <2>3, <2>4, <2>6, <3>2 DEF Fine, Services
      <4>2. pc[holds[r][c]] # c
        BY <3>1, <3>2, <4>1 DEF Quiet, Initializing, Repos
      <4>3. <<holds[r][c], c>> \in opened
        BY <2>3, <2>6, <3>2, <4>1, <4>2 DEF Whole, Accounted, Fine
      <4> QED
        BY <2>2, <3>1, <3>2, <4>1, <4>3 DEF Check, CheckVault, CheckRepo, Live, Verdict, Repos
    <3>3. CASE c \notin Repos
      BY <2>2, <3>1, <3>3 DEF Check, CheckService, Verdict
    <3> QED
      BY <3>2, <3>3
  <2> HIDE DEF c, status
  <2>7. /\ pc'[r] = "checking" /\ \A q \in Requests \ {r} : pc'[q] = pc[q] /\ seen'[q] = seen[q]
        /\ DOMAIN seen'[r] = DOMAIN seen[r] \cup {c}
        /\ \A d \in DOMAIN seen'[r] : seen'[r][d] = IF d = c THEN status ELSE seen[r][d]
    BY <2>1, <1>t DEF HealthTypes, SeenTypes
  <2>8. (Solo' <=> Solo) /\ (Fine' <=> Fine) /\ (Quiet => Quiet')
    BY <2>1, <2>7 DEF Solo, Fine, Quiet, Initializing
  <2>9. AlarmFacts(r)'
    <3>1. AlarmFacts(r) /\ Checks(r)' = Checks(r)
      BY DEF AlarmInv, Checks
    <3>2. DOMAIN seen'[r] \subseteq Checks(r)
      BY <2>2, <2>7, <3>1 DEF AlarmFacts
    <3>3. Fine => \A d \in DOMAIN seen'[r] : seen'[r][d] # "degraded"
      BY <2>5, <2>7, <3>1 DEF AlarmFacts
    <3>4. Fine /\ Solo => answer[r] # 503 /\ \A d \in DOMAIN seen'[r] : seen'[r][d] = "healthy"
      BY <2>6, <2>7, <3>1 DEF AlarmFacts
    <3> QED
      BY <2>1, <2>3, <2>7, <2>8, <3>1, <3>2, <3>3, <3>4 DEF AlarmFacts, Initializing
  <2>10. ASSUME NEW q \in Requests \ {r} PROVE AlarmFacts(q)'
    BY <2>1, <2>7, <2>8 DEF AlarmInv, AlarmFacts, Checks
  <2> QED
    BY <2>1, <2>8, <2>9, <2>10 DEF AlarmInv
<1>9. ASSUME NEW r \in Requests, Answer(r) PROVE AlarmInv'
  <2>1. /\ pc' = [pc EXCEPT ![r] = "answered"] /\ DOMAIN seen[r] = Checks(r)
        /\ answer' = [answer EXCEPT ![r] = StatusCode(r)]
        /\ holds' = [holds EXCEPT ![r] = Nobody]
        /\ UNCHANGED <<_health_service, dead, seen, up, outages, initializers, raised>>
    BY <1>9 DEF Answer, shared, environment, history
  <2>2. ASSUME Fine, Solo PROVE StatusCode(r) # 503
    <3>1. \A c \in DOMAIN seen[r] : seen[r][c] = "healthy"
      BY <2>2 DEF AlarmInv, AlarmFacts
    <3>2. CASE Checks(r) = {}
      BY <3>2 DEF StatusCode
    <3>3. CASE Checks(r) # {}
      <4>1. {seen[r][c] : c \in DOMAIN seen[r]} = {"healthy"}
        BY <2>1, <3>1, <3>3
      <4> QED
        BY <3>3, <4>1 DEF StatusCode, Overall
    <3> QED
      BY <3>2, <3>3
  <2>3. /\ pc'[r] = "answered" /\ answer'[r] = StatusCode(r)
        /\ \A q \in Requests \ {r} : pc'[q] = pc[q] /\ answer'[q] = answer[q] /\ holds'[q] = holds[q]
    BY <2>1, <1>t DEF HealthTypes, SeenTypes
  <2>4. (Solo' <=> Solo) /\ (Fine' <=> Fine) /\ (Quiet => Quiet')
    BY <2>1, <2>3 DEF Solo, Fine, Quiet, Initializing
  <2>5. AlarmFacts(r)'
    BY <2>1, <2>2, <2>3, <2>4 DEF AlarmInv, AlarmFacts, Checks, Initializing
  <2>6. ASSUME NEW q \in Requests \ {r} PROVE AlarmFacts(q)'
    BY <2>1, <2>3, <2>4 DEF AlarmInv, AlarmFacts, Checks
  <2> QED
    BY <2>1, <2>4, <2>5, <2>6 DEF AlarmInv
<1>10. ASSUME NEW c \in Components, GoesDown(c) PROVE AlarmInv'
  <2>1. /\ outages' = outages + 1
        /\ UNCHANGED <<_health_service, pc, holds, seen, answer, initializers, raised>>
    BY <1>10 DEF GoesDown, history
  <2>2. outages' \in Nat /\ outages' # 0 /\ ~Fine'
    BY <2>1 DEF AlarmInv, Fine
  <2> QED
    BY <2>1, <2>2 DEF AlarmInv, AlarmFacts, Checks, Solo, Quiet
<1>11. ASSUME NEW c \in Components, ComesUp(c) PROVE AlarmInv'
  <2>1. /\ up' = up \cup {c} /\ c \notin up
        /\ UNCHANGED <<_health_service, dead, pc, holds, seen, answer, outages, initializers, raised>>
    BY <1>11 DEF ComesUp, shared
  <2> QED
    BY <2>1 DEF AlarmInv, AlarmFacts, Checks, Solo, Quiet, Fine
<1>12. CASE UNCHANGED vars
  BY <1>12 DEF vars, shared, environment, history, AlarmInv, AlarmFacts, Checks, Solo, Quiet, Fine
<1>13. ASSUME NEW r \in Requests, Step(r) PROVE AlarmInv'
  BY <1>13, <1>1, <1>3, <1>4, <1>5, <1>6, <1>7, <1>8, <1>9 DEF Step
<1> QED
  BY <1>10, <1>11, <1>12, <1>13 DEF Next, Environment

\* While all is fine, 503 takes two requests that initialize at once, and nothing is
\* degraded (get_health_service, check_all): a request that is alone with the globals
\* finds every repository connected.
THEOREM FalseAlarmsNeedRace == Spec => []FalseAlarmNeedsRace
<1>1. AlarmInv => FalseAlarmNeedsRace
  <2> SUFFICES ASSUME AlarmInv, outages = 0, ~raised, NEW r \in Requests
               PROVE  /\ \A c \in DOMAIN seen[r] : seen[r][c] # "degraded"
                      /\ answer[r] = 503 => Cardinality(initializers) > 1
    BY DEF FalseAlarmNeedsRace
  <2>1. \A c \in DOMAIN seen[r] : seen[r][c] # "degraded"
    BY DEF AlarmInv, AlarmFacts, Fine
  <2>2. ASSUME answer[r] = 503 PROVE Cardinality(initializers) > 1
    <3>1. PICK a \in initializers, b \in initializers : a # b
      BY <2>2 DEF AlarmInv, AlarmFacts, Fine, Solo
    <3>2. IsFiniteSet({a}) /\ Cardinality({a}) = 1
      BY FS_Singleton
    <3>3. Cardinality({a} \cup {b}) = 2
      BY <3>1, <3>2, FS_AddElement
    <3>4. IsFiniteSet(initializers) /\ {a} \cup {b} \subseteq initializers
      BY DEF AlarmInv
    <3>5. Cardinality({a} \cup {b}) <= Cardinality(initializers)
      BY <3>4, FS_Subset
    <3>6. Cardinality(initializers) \in Nat
      BY <3>4, FS_CardinalityType
    <3> QED
      BY <3>3, <3>5, <3>6
  <2> QED
    BY <2>1, <2>2
<1>2. HealthInv /\ SeenInv /\ AlarmInv /\ [Next]_vars => AlarmInv'
  BY AlarmStep
<1>3. SeenInv /\ [Next]_vars => SeenInv'
  BY SeenStep
<1> QED
  BY <1>1, <1>2, <1>3, HealthInvariant, AlarmInit, SeenInit, PTL DEF Spec

-----------------------------------------------------------------------------
(* Types *)

Statuses == {"healthy", "degraded", "unhealthy"}

SeenBy(r) ==
    /\ seen[r] = [c \in DOMAIN seen[r] |-> seen[r][c]]
    /\ DOMAIN seen[r] \subseteq Checks(r)
    /\ \A c \in DOMAIN seen[r] : seen[r][c] \in Statuses

ReachTypes ==
    /\ opened \subseteq Requests \X Repos /\ dead \subseteq opened
    /\ up \subseteq Components /\ initializers \subseteq Requests
    /\ \A r \in Requests : SeenBy(r)

LEMMA CheckStatus == \A service, c : Check(service, c) \in Statuses
  BY DEF Check, CheckRepo, CheckVault, CheckService, Verdict, Statuses

LEMMA ReachStep == SeenInv /\ ReachTypes /\ [Next]_vars => ReachTypes'
<1> SUFFICES ASSUME SeenInv, ReachTypes, [Next]_vars PROVE ReachTypes'
    OBVIOUS
<1>k. ASSUME UNCHANGED seen PROVE \A q \in Requests : SeenBy(q)'
  BY <1>k DEF ReachTypes, SeenBy, Checks
<1>1. ASSUME NEW r \in Requests, RunCheck(r) PROVE ReachTypes'
  <2> DEFINE c == NextCheck(r)
             x == Check(holds[r], c)
  <2>0. DOMAIN seen[r] # Checks(r) /\ UNCHANGED <<opened, dead, up, initializers>>
    BY <1>1 DEF RunCheck, shared, environment, history
  <2>1. DOMAIN seen[r] \subseteq Checks(r)
    BY DEF ReachTypes, SeenBy
  <2>2. c \in Checks(r)
    BY <2>0, <2>1, NextIsChecked
  <2>3. x \in Statuses
    BY CheckStatus
  <2>4. seen' = [seen EXCEPT ![r] = [d \in DOMAIN @ \cup {c} |-> IF d = c THEN x ELSE @[d]]]
    BY <1>1 DEF RunCheck
  <2> HIDE DEF c, x
  <2>5. /\ seen'[r] = [d \in DOMAIN seen[r] \cup {c} |-> IF d = c THEN x ELSE seen[r][d]]
        /\ \A q \in Requests \ {r} : seen'[q] = seen[q]
    BY <2>4 DEF SeenInv, SeenTypes
  <2>6. SeenBy(r)'
    BY <2>2, <2>3, <2>5 DEF ReachTypes, SeenBy, Checks
  <2>7. \A q \in Requests \ {r} : SeenBy(q)'
    BY <2>5 DEF ReachTypes, SeenBy, Checks
  <2> QED
    BY <2>0, <2>6, <2>7 DEF ReachTypes
<1>2. ASSUME NEW r \in Requests, Enter(r) PROVE ReachTypes'
  BY <1>2, <1>k DEF Enter, Finds, shared, environment, ReachTypes
<1>3. ASSUME NEW r \in Requests,
             \/ MakeVaultClient(r) \/ Connects(r, "vault", "build")
             \/ Connects(r, "cassandra", "postgresql") \/ Connects(r, "postgresql", "vault")
      PROVE  ReachTypes'
  <2>1. opened' = opened \/ \E s \in Repos : opened' = opened \cup {<<r, s>>}
    BY <1>3 DEF MakeVaultClient, Connects, Repos
  <2>2. UNCHANGED <<dead, seen, up, initializers>>
    BY <1>3 DEF MakeVaultClient, Connects, environment, history
  <2> QED
    BY <2>1, <2>2, <1>k DEF ReachTypes
<1>4. ASSUME NEW r \in Requests,
             \/ AssignCassandra(r) \/ Build(r) \/ Install(r) \/ Return(r) \/ Answer(r)
             \/ \E s \in Repos : ConnectRaises(r, s)
      PROVE  ReachTypes'
  <2>1. UNCHANGED <<opened, dead, seen, up, initializers>>
    BY <1>4 DEF AssignCassandra, Build, Install, Return, Answer, ConnectRaises, shared,
       environment, history
  <2> QED
    BY <2>1, <1>k DEF ReachTypes
<1>5. ASSUME NEW c \in Components, GoesDown(c) \/ ComesUp(c) PROVE ReachTypes'
  <2>1. /\ UNCHANGED <<opened, seen, initializers>>
        /\ up' \subseteq Components
        /\ dead' \subseteq opened
    BY <1>5 DEF GoesDown, ComesUp, shared, history, ReachTypes
  <2> QED
    BY <2>1, <1>k DEF ReachTypes
<1>6. CASE UNCHANGED vars
  BY <1>6, <1>k DEF vars, shared, environment, history, ReachTypes
<1> QED
  BY <1>1, <1>2, <1>3, <1>4, <1>5, <1>6 DEF Next, Step, Environment

\* Every step of a request, and of the stores, keeps the types: a status is known only of a
\* component that the request asks about.
THEOREM TypeCorrect == Spec => []TypeOK
<1>1. Init => ReachTypes
  BY DEF Init, ReachTypes, SeenBy
<1>2. HealthInv /\ SeenInv /\ ReachTypes => TypeOK
  <2> SUFFICES ASSUME HealthInv, SeenInv, ReachTypes PROVE TypeOK
    OBVIOUS
  <2>1. ASSUME NEW r \in Requests
        PROVE  seen[r] \in UNION {[C -> Statuses] : C \in SUBSET Checks(r)}
    <3>1. DOMAIN seen[r] \in SUBSET Checks(r) /\ seen[r] \in [DOMAIN seen[r] -> Statuses]
      BY DEF ReachTypes, SeenBy
    <3> QED
      BY <3>1
  <2>2. HealthTypes /\ SeenTypes
    BY DEF HealthInv, SeenInv
  <2> QED
    BY <2>1, <2>2 DEF HealthTypes, SeenTypes, ReachTypes, TypeOK, Labels, Statuses
<1>3. SeenInv /\ [Next]_vars => SeenInv'
  BY SeenStep
<1> QED
  BY <1>1, <1>2, <1>3, HealthInvariant, SeenInit, ReachStep, PTL DEF Spec
=============================================================================
