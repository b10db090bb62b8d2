------------------------ MODULE SchemaEvolutionProofs ------------------------
(***************************************************************************)
(* What the local compatibility check and an override are worth, for any   *)
(* clients and any columns.                                                *)
(***************************************************************************)
EXTENDS SchemaEvolution, FiniteSetTheorems, TLAPS

Typed(columns) ==
    \A c \in DOMAIN columns :
       columns[c] \in [type : STRING, nullable : BOOLEAN, default : Defaults]

Avro(columns) == CreateAvroSchemaForTable(columns)

\* The fields of the Avro schema are the columns, and a field without a default is a
\* required column without one.
LEMMA AvroFields ==
    ASSUME NEW columns, Typed(columns)
    PROVE  /\ DOMAIN Avro(columns) = DOMAIN columns
           /\ \A c \in DOMAIN columns :
                 /\ Avro(columns)[c].type = CassandraToAvroType(columns[c].type)
                 /\ Avro(columns)[c].nullable = columns[c].nullable
                 /\ Avro(columns)[c].default = "absent"
                       <=> ~columns[c].nullable /\ columns[c].default = "none"
                 /\ columns[c].default # "none" => Avro(columns)[c].default = columns[c].default
                 /\ columns[c].default = "none" =>
                       Avro(columns)[c].default = IF columns[c].nullable THEN "null" ELSE "absent"
BY DEF Typed, Avro, CreateAvroSchemaForTable, FieldDefault, Defaults

\* Columns read each other's data when none has changed its type or become required
\* and those the reader has for itself have a default.
LEMMA ReadsWhen ==
    ASSUME NEW r, NEW w, Typed(r), Typed(w), ~Tightens(w, r),
           \A c \in DOMAIN r \cap DOMAIN w : r[c].type = w[c].type,
           \A c \in DOMAIN r \ DOMAIN w : r[c].nullable \/ r[c].default # "none"
    PROVE  Reads(Avro(r), Avro(w))
<1>1. SUFFICES ASSUME NEW c \in DOMAIN r
               PROVE  IF c \in DOMAIN w THEN FieldReads(Avro(r)[c], Avro(w)[c])
                                        ELSE Avro(r)[c].default # "absent"
    BY AvroFields DEF Reads
<1>2. CASE c \in DOMAIN w
  <2>1. Avro(r)[c].type = Avro(w)[c].type
    BY <1>2, AvroFields
  <2>2. Avro(w)[c].nullable => Avro(r)[c].nullable
    BY <1>2, AvroFields DEF Tightens
  <2> QED
    BY <1>2, <2>1, <2>2 DEF FieldReads
<1>3. CASE c \notin DOMAIN w
    BY <1>3, AvroFields
<1> QED
    BY <1>2, <1>3

\* Detection finds every column whose type differs.
LEMMA DetectedTypes ==
    ASSUME NEW old, NEW new, NoneModified(DetectSchemaChanges(old, new))
    PROVE  \A c \in DOMAIN old \cap DOMAIN new : old[c].type = new[c].type
<1> SUFFICES ASSUME NEW c \in DOMAIN old \cap DOMAIN new, old[c].type # new[c].type
             PROVE  FALSE
    OBVIOUS
<1>1. [kind |-> "MODIFY_COLUMN", column |-> c] \in DetectSchemaChanges(old, new)
    BY DEF DetectSchemaChanges
<1> QED
    BY <1>1 DEF NoneModified

\* Backward compatibility of the local check lets in no column without a default.
LEMMA DetectedAdditions ==
    ASSUME NEW old, NEW new,
           CheckBackwardCompatibility(DetectSchemaChanges(old, new), new)
    PROVE  \A c \in DOMAIN new \ DOMAIN old : new[c].nullable \/ new[c].default # "none"
<1> SUFFICES ASSUME NEW c \in DOMAIN new \ DOMAIN old
             PROVE  new[c].nullable \/ new[c].default # "none"
    OBVIOUS
<1>1. [kind |-> "ADD_COLUMN", column |-> c] \in DetectSchemaChanges(old, new)
    BY DEF DetectSchemaChanges
<1> QED
    BY <1>1 DEF CheckBackwardCompatibility

\* The local check is sound but for the changes it is blind to: what it lets pass is a
\* well-formed schema that reads, and is read, as the mode promises.
THEOREM LocalCheckSound ==
    ASSUME NEW old, NEW new, NEW m, Typed(old), Typed(new),
           CheckCompatibility(old, m, new), ~CheckBlind(old, m, new)
    PROVE  WellFormed(Avro(new)) /\ Compatible(m, Avro(new), Avro(old))
<1>1. WellFormed(Avro(new))
  <2> SUFFICES ASSUME NEW c \in DOMAIN new
               PROVE  Avro(new)[c].default \in IF Avro(new)[c].nullable THEN {"null", "absent"}
                                                                      ELSE {"fits", "absent"}
    BY AvroFields DEF WellFormed
  <2>1. /\ new[c].default \in {"none", "fits"}
        /\ new[c].nullable => new[c].default = "none"
    BY DEF Typed, Defaults, CheckBlind
  <2> QED
    BY <2>1, AvroFields
<1>2. ASSUME m \in {"BACKWARD", "FULL"} PROVE Reads(Avro(new), Avro(old))
  <2>1. CheckBackwardCompatibility(DetectSchemaChanges(old, new), new)
    BY <1>2 DEF CheckCompatibility
  <2>2. \A c \in DOMAIN new \cap DOMAIN old : new[c].type = old[c].type
    BY <2>1, DetectedTypes DEF CheckBackwardCompatibility
  <2>3. ~Tightens(old, new)
    BY <1>2 DEF CheckBlind
  <2> QED
    BY <2>1, <2>2, <2>3, DetectedAdditions, ReadsWhen
<1>3. ASSUME m \in {"FORWARD", "FULL"} PROVE Reads(Avro(old), Avro(new))
  <2>1. \A c \in DOMAIN old \cap DOMAIN new : old[c].type = new[c].type
    BY <1>3, DetectedTypes DEF CheckCompatibility, CheckForwardCompatibility
  <2>2. ~Tightens(new, old) /\ ~DropsRequired(old, new)
    BY <1>3 DEF CheckBlind
  <2>3. \A c \in DOMAIN old \ DOMAIN new : old[c].nullable \/ old[c].default # "none"
    BY <2>2 DEF DropsRequired
  <2> QED
    BY <2>1, <2>2, <2>3, ReadsWhen
<1> QED
    BY <1>1, <1>2, <1>3 DEF Compatible

-----------------------------------------------------------------------------
(* The registration *)

Answers == [version : Nat, mode : Modes, setter : SUBSET Clients]

\* The types, without the bound on the number of versions.
Types ==
    /\ pc \in [Clients -> {"get", "put", "post", "done"}]
    /\ base \in [Clients -> Nat]
    /\ assumed \in [Clients -> Modes]
    /\ verdict \in [Clients -> BOOLEAN]
    /\ outcome \in [Clients -> {"none", "registered", "refused", "error"}]
    /\ DOMAIN want = Clients
    /\ versions \in Seq(Schemas) /\ Len(versions) >= 1
    /\ mode \in Modes /\ setter \subseteq Clients
    /\ seen \in [Clients -> Answers]
    /\ \A c \in Clients : pc[c] = "done" <=> outcome[c] # "none"

\* What a client's check has looked at.
Checked(c) ==
    /\ base[c] <= Len(versions)
    /\ pc[c] = "put" => Ask[c] # "unset"
    /\ pc[c] \in {"put", "post"} => base[c] >= 1 /\ want[c] \in Schemas
    /\ verdict[c] => /\ base[c] >= 1 /\ want[c] \in Schemas
                     /\ CheckCompatibility(versions[base[c]], assumed[c], want[c])

\* What the registry's answer to a POST was given for.
Refused(c) ==
    outcome[c] = "refused" =>
       /\ seen[c].version \in 1..Len(versions)
       /\ ~(/\ WellFormed(Avro(want[c]))
            /\ Compatible(seen[c].mode, Avro(want[c]), Avro(versions[seen[c].version])))

Registered(c) ==
    outcome[c] = "registered" =>
       /\ seen[c].version \in 1..Len(versions)
       /\ \A d \in seen[c].setter : seen[c].mode = Ask[d]
       /\ \/ \E i \in 1..seen[c].version : Avro(versions[i]) = Avro(want[c])
          \/ Compatible(seen[c].mode, Avro(want[c]), Avro(versions[seen[c].version]))

\* The mode is that of the last PUT, and no two versions are the same to the registry.
Subject ==
    /\ \A c \in setter : mode = Ask[c]
    /\ \A i, j \in 1..Len(versions) : Avro(versions[i]) = Avro(versions[j]) => i = j

VerdictInv ==
    Types /\ Subject /\ \A c \in Clients : Checked(c) /\ Refused(c) /\ Registered(c)

\* Nothing is promised before a client has called.
LEMMA VerdictInit == Init => VerdictInv
<1> SUFFICES ASSUME Init PROVE VerdictInv
    OBVIOUS
<1> USE SchemaAssumption
<1>1. PICK s \in Schemas : versions = <<s>>
    BY DEF Init
<1>2. versions \in Seq(Schemas) /\ Len(versions) = 1
    BY <1>1
<1>3. Types
    BY <1>2 DEF Init, Types, Answers, Modes
<1>4. Subject
    BY <1>2 DEF Init, Subject
<1>5. ASSUME NEW c \in Clients PROVE Checked(c) /\ Refused(c) /\ Registered(c)
    BY <1>2 DEF Init, Checked, Refused, Registered
<1> QED
    BY <1>3, <1>4, <1>5 DEF VerdictInv

\* A version is never changed or taken back: what a POST stores comes after it, and
\* the registry has not had it before.
LEMMA VersionsGrow ==
    ASSUME VerdictInv, Next
    PROVE  \/ versions' = versions
           \/ \E s \in Schemas : versions' = Append(versions, s) /\ ~Known(s)
<1>1. ASSUME NEW c \in Clients, pc[c] = "post", Stores(want[c]) \/ UNCHANGED versions
      PROVE  \/ versions' = versions
             \/ /\ want[c] \in Schemas /\ ~Known(want[c])
                /\ versions' = Append(versions, want[c])
    BY <1>1 DEF Stores, VerdictInv, Checked
<1> QED
    BY <1>1 DEF Next, Check, GetFails, SetCompatibility, SetCompatibilityFails,
                Post, PostRefused, PostFails

\* The versions there are keep their numbers.
LEMMA OldVersionsStay ==
    ASSUME VerdictInv, Next
    PROVE  /\ versions' \in Seq(Schemas)
           /\ Len(versions) <= Len(versions')
           /\ \A i \in 1..Len(versions) : versions'[i] = versions[i]
<1>1. versions \in Seq(Schemas) /\ Len(versions) \in Nat
    BY DEF VerdictInv, Types
<1>2. CASE versions' = versions
    BY <1>1, <1>2
<1>3. CASE \E s \in Schemas : versions' = Append(versions, s)
    BY <1>1, <1>3
<1> QED
    BY <1>2, <1>3, VersionsGrow

\* The types are kept.
LEMMA TypesStep ==
    ASSUME VerdictInv, Next
    PROVE  Types'
<1> USE SchemaAssumption DEF Types, VerdictInv
<1>1. versions' \in Seq(Schemas) /\ Len(versions') >= 1
    BY OldVersionsStay
<1>2. ASSUME NEW c \in Clients, Check(c) PROVE Types'
  <2>1. assumed' \in [Clients -> Modes]
    BY <1>2 DEF Check
  <2>2. verdict' \in [Clients -> BOOLEAN]
    BY <1>2 DEF Check, CheckCompatibility
  <2> QED
    BY <1>1, <1>2, <2>1, <2>2 DEF Check
<1>3. ASSUME NEW c \in Clients, GetFails(c) PROVE Types'
    BY <1>1, <1>3 DEF GetFails, Ends
<1>4. ASSUME NEW c \in Clients, SetCompatibility(c) \/ SetCompatibilityFails(c)
      PROVE  Types'
  <2>1. Ask[c] \in Modes
    BY <1>4 DEF Checked, SetCompatibility, SetCompatibilityFails
  <2>2. mode' \in Modes /\ setter' \subseteq Clients
    BY <1>4, <2>1 DEF SetCompatibility, SetCompatibilityFails, Puts
  <2>3. /\ pc[c] = "put"
        /\ \/ Ends(c, "error")
           \/ pc' = [pc EXCEPT ![c] = "post"] /\ outcome' = outcome
    BY <1>4 DEF SetCompatibility, SetCompatibilityFails
  <2>4. UNCHANGED <<base, want, assumed, verdict, seen>>
    BY <1>4 DEF SetCompatibility, SetCompatibilityFails, Ends
  <2> QED
    BY <1>1, <2>2, <2>3, <2>4 DEF Ends
<1>5. ASSUME NEW c \in Clients, NEW o \in {"registered", "refused", "error"},
             Sees(c) \/ UNCHANGED seen, Ends(c, o), UNCHANGED <<mode, setter>>
      PROVE  Types'
  <2> DEFINE answer == [version |-> Len(versions), mode |-> mode, setter |-> setter]
  <2>1. answer \in Answers
    BY DEF Answers
  <2> HIDE DEF answer
  <2>2. seen' = [seen EXCEPT ![c] = answer] \/ seen' = seen
    BY <1>5 DEF Sees, answer
  <2>3. seen' \in [Clients -> Answers]
    BY <2>1, <2>2
  <2> QED
    BY <1>1, <1>5, <2>3 DEF Ends
<1>6. ASSUME NEW c \in Clients, Post(c) \/ PostRefused(c) \/ PostFails(c)
      PROVE  Types'
    BY <1>5, <1>6 DEF Post, PostRefused, PostFails
<1> QED
    BY <1>2, <1>3, <1>4, <1>6 DEF Next

\* A PUT that takes effect sets its client's mode, and what is stored is new to the registry.
LEMMA SubjectStep ==
    ASSUME VerdictInv, Next
    PROVE  Subject'
<1>1. ASSUME NEW c \in setter' PROVE mode' = Ask[c]
    BY <1>1 DEF VerdictInv, Subject, Next, Check, GetFails, SetCompatibility,
                SetCompatibilityFails, Puts, Post, PostRefused, PostFails
<1>2. ASSUME NEW i \in 1..Len(versions'), NEW j \in 1..Len(versions'),
             Avro(versions'[i]) = Avro(versions'[j])
      PROVE  i = j
  <2>1. CASE versions' = versions
    BY <1>2, <2>1 DEF VerdictInv, Subject
  <2>2. CASE \E s \in Schemas : versions' = Append(versions, s) /\ ~Known(s)
    <3>1. PICK s \in Schemas : versions' = Append(versions, s) /\ ~Known(s)
      BY <2>2
    <3>2. \A k \in 1..Len(versions) : Avro(versions[k]) # Avro(s)
      BY <3>1 DEF Known, Avro
    <3>3. /\ Len(versions') = Len(versions) + 1
          /\ versions'[Len(versions) + 1] = s
          /\ \A k \in 1..Len(versions) : versions'[k] = versions[k]
      BY <3>1 DEF VerdictInv, Types
    <3>4. Len(versions) \in Nat
      BY DEF VerdictInv, Types
    <3> QED
      BY <1>2, <3>2, <3>3, <3>4 DEF VerdictInv, Subject
  <2> QED
    BY <2>1, <2>2, VersionsGrow
<1> QED
    BY <1>1, <1>2 DEF Subject
\* A client whose POST has been answered is done: its request does not change.
LEMMA DoneStays ==
    ASSUME VerdictInv, Next, NEW c \in Clients, pc[c] \in {"put", "post", "done"}
    PROVE  /\ want'[c] = want[c] /\ base'[c] = base[c]
           /\ assumed'[c] = assumed[c] /\ verdict'[c] = verdict[c]
           /\ pc[c] = "done" => outcome'[c] = outcome[c] /\ seen'[c] = seen[c]
<1> USE DEF VerdictInv, Types
<1>1. ASSUME NEW d \in Clients, Check(d) PROVE c # d /\ UNCHANGED <<outcome, seen>>
    BY <1>1 DEF Check
<1>2. ASSUME NEW d \in Clients, Check(d)
      PROVE  /\ want'[c] = want[c] /\ base'[c] = base[c]
             /\ assumed'[c] = assumed[c] /\ verdict'[c] = verdict[c]
    BY <1>1, <1>2 DEF Check
<1>3. ASSUME NEW d \in Clients, ~Check(d),
             \/ GetFails(d) \/ SetCompatibility(d) \/ SetCompatibilityFails(d)
             \/ Post(d) \/ PostRefused(d) \/ PostFails(d)
      PROVE  UNCHANGED <<want, base, assumed, verdict>>
    BY <1>3 DEF GetFails, SetCompatibility, SetCompatibilityFails, Post, PostRefused,
                PostFails, Ends
<1>4. ASSUME NEW d \in Clients, pc[c] = "done",
             \/ GetFails(d) \/ SetCompatibility(d) \/ SetCompatibilityFails(d)
             \/ Post(d) \/ PostRefused(d) \/ PostFails(d)
      PROVE  outcome'[c] = outcome[c] /\ seen'[c] = seen[c]
  <2>1. c # d
    BY <1>4 DEF GetFails, SetCompatibility, SetCompatibilityFails, Post, PostRefused,
                PostFails
  <2> QED
    BY <1>4, <2>1 DEF GetFails, SetCompatibility, SetCompatibilityFails, Post,
                      PostRefused, PostFails, Ends, Sees
<1> QED
    BY <1>1, <1>2, <1>3, <1>4 DEF Next
\* What a client has checked stays what it was.
LEMMA CheckedStep ==
    ASSUME VerdictInv, Next, NEW c \in Clients
    PROVE  Checked(c)'
<1> USE SchemaAssumption DEF VerdictInv, Types
<1>1. /\ Len(versions) \in Nat /\ Len(versions') \in Nat
      /\ Len(versions) <= Len(versions')
      /\ \A i \in 1..Len(versions) : versions'[i] = versions[i]
    BY OldVersionsStay
<1>2. CASE Check(c)
  <2>1. /\ base'[c] = Len(versions) /\ want'[c] \in Schemas /\ versions' = versions
        /\ verdict'[c] = CheckCompatibility(versions[base'[c]], assumed'[c], want'[c])
        /\ pc'[c] = IF Ask[c] = "unset" THEN "post" ELSE "put"
    BY <1>2 DEF Check, Latest
  <2> QED
    BY <1>1, <2>1 DEF Checked
<1>3. CASE ~Check(c)
  <2>1. /\ want'[c] = want[c] /\ base'[c] = base[c]
        /\ assumed'[c] = assumed[c] /\ verdict'[c] = verdict[c]
        /\ pc'[c] = "put" => pc[c] = "put"
        /\ pc'[c] = "post" => pc[c] \in {"put", "post"}
    BY <1>3 DEF Next, Check, GetFails, SetCompatibility, SetCompatibilityFails, Post,
                PostRefused, PostFails, Ends
  <2>2. verdict[c] => versions'[base[c]] = versions[base[c]]
    BY <1>1 DEF Checked
  <2> QED
    BY <1>1, <2>1, <2>2 DEF Checked
<1> QED
    BY <1>2, <1>3

\* A refusal or a registration is given by an answered POST of the client.
LEMMA Answered ==
    ASSUME VerdictInv, Next, NEW c \in Clients, outcome[c] = "none"
    PROVE  /\ outcome'[c] = "refused" => PostRefused(c)
           /\ outcome'[c] = "registered" => Post(c)
BY DEF VerdictInv, Types, Next, Check, GetFails, SetCompatibility,
       SetCompatibilityFails, Post, PostRefused, PostFails, Ends

\* An answered POST records the version and the mode it met.
LEMMA AnswersSee ==
    ASSUME VerdictInv, Next, NEW c \in Clients, Post(c) \/ PostRefused(c)
    PROVE  /\ seen'[c] = [version |-> Len(versions), mode |-> mode, setter |-> setter]
           /\ want'[c] = want[c]
           /\ Len(versions) \in Nat /\ Len(versions) >= 1
           /\ Len(versions') \in Nat /\ Len(versions') >= Len(versions)
           /\ \A i \in 1..Len(versions) : versions'[i] = versions[i]
<1>1. seen'[c] = [version |-> Len(versions), mode |-> mode, setter |-> setter]
    BY DEF Post, PostRefused, Sees, VerdictInv, Types
<1> QED
    BY <1>1, OldVersionsStay DEF Post, PostRefused, Ends, VerdictInv, Types

\* A refusal is given for a schema that is not compatible with the version it met.
LEMMA RefusedStep ==
    ASSUME VerdictInv, Next, NEW c \in Clients
    PROVE  Refused(c)'
<1>1. CASE outcome[c] = "none"
  <2> SUFFICES ASSUME PostRefused(c) PROVE Refused(c)'
    BY <1>1, Answered DEF Refused
  <2>1. ~(/\ WellFormed(Avro(want[c]))
          /\ Compatible(mode, Avro(want[c]), Avro(versions[Len(versions)])))
    BY DEF PostRefused, Accepts, Latest, Avro
  <2> QED
    BY <2>1, AnswersSee DEF Refused
<1>2. CASE outcome[c] # "none"
  <2>1. /\ want'[c] = want[c] /\ outcome'[c] = outcome[c] /\ seen'[c] = seen[c]
    BY <1>2, DoneStays DEF VerdictInv, Types
  <2>2. Refused(c) /\ Len(versions) \in Nat /\ Len(versions') \in Nat
    BY OldVersionsStay DEF VerdictInv, Types
  <2>3. /\ Len(versions) <= Len(versions')
        /\ \A i \in 1..Len(versions) : versions'[i] = versions[i]
    BY OldVersionsStay
  <2> QED
    BY <2>1, <2>2, <2>3 DEF Refused
<1> QED
    BY <1>1, <1>2

\* A registration is given for a schema the registry has or one it found compatible.
LEMMA RegisteredStep ==
    ASSUME VerdictInv, Next, NEW c \in Clients
    PROVE  Registered(c)'
<1>1. CASE outcome[c] = "none"
  <2> SUFFICES ASSUME Post(c) PROVE Registered(c)'
    BY <1>1, Answered DEF Registered
  <2>1. \/ \E i \in 1..Len(versions) : Avro(versions[i]) = Avro(want[c])
        \/ Compatible(mode, Avro(want[c]), Avro(versions[Len(versions)]))
    BY DEF Post, Stores, Known, Accepts, Latest, Avro
  <2>2. \A d \in setter : mode = Ask[d]
    BY DEF VerdictInv, Subject
  <2> QED
    BY <2>1, <2>2, AnswersSee DEF Registered
<1>2. CASE outcome[c] # "none"
  <2>1. /\ want'[c] = want[c] /\ outcome'[c] = outcome[c] /\ seen'[c] = seen[c]
    BY <1>2, DoneStays DEF VerdictInv, Types
  <2>2. Registered(c) /\ Len(versions) \in Nat /\ Len(versions') \in Nat
    BY OldVersionsStay DEF VerdictInv, Types
  <2>3. /\ Len(versions) <= Len(versions')
        /\ \A i \in 1..Len(versions) : versions'[i] = versions[i]
    BY OldVersionsStay
  <2> QED
    BY <2>1, <2>2, <2>3 DEF Registered
<1> QED
    BY <1>1, <1>2

\* Every step keeps the invariant.
LEMMA VerdictStep == VerdictInv /\ [Next]_vars => VerdictInv'
<1> SUFFICES ASSUME VerdictInv, [Next]_vars PROVE VerdictInv'
    OBVIOUS
<1>1. CASE Next
    BY <1>1, TypesStep, SubjectStep, CheckedStep, RefusedStep, RegisteredStep
    DEF VerdictInv
<1>2. CASE UNCHANGED vars
    BY <1>2 DEF vars, clients, VerdictInv, Types, Subject, Checked, Refused, Registered
<1> QED
    BY <1>1, <1>2

\* A refusal of columns that were checked against the same version and mode contradicts
\* LocalCheckSound, unless the check is blind to it.
LEMMA VerdictLocal == VerdictInv => LocalVerdictHolds
<1> SUFFICES ASSUME VerdictInv, NEW c \in Clients,
                    outcome[c] = "refused", verdict[c],
                    seen[c].version = base[c], seen[c].mode = assumed[c],
                    ~CheckBlind(versions[base[c]], assumed[c], want[c])
             PROVE  FALSE
    BY DEF LocalVerdictHolds
<1>1. /\ base[c] \in 1..Len(versions) /\ want[c] \in Schemas
      /\ CheckCompatibility(versions[base[c]], assumed[c], want[c])
    BY DEF VerdictInv, Types, Checked
<1>2. Typed(want[c]) /\ Typed(versions[base[c]])
    BY <1>1, SchemaAssumption DEF VerdictInv, Types, Typed
<1>3. /\ WellFormed(Avro(want[c]))
      /\ Compatible(assumed[c], Avro(want[c]), Avro(versions[base[c]]))
    BY <1>1, <1>2, LocalCheckSound
<1> QED
    BY <1>3 DEF VerdictInv, Refused

\* A version found behind the one a POST met is new to the registry, so that POST, or
\* one with the same columns, was held to the mode; a schema the registry already had
\* cannot come twice.
LEMMA VerdictOverride == VerdictInv => OverrideHolds
<1> SUFFICES ASSUME VerdictInv, NEW c \in Clients,
                    NEW d \in seen[c].setter, Added(c)
             PROVE  Compatible(Ask[d], Avro(want[c]), Avro(versions[seen[c].version]))
    BY DEF OverrideHolds, AddedUnder, Avro
<1> USE DEF Added
<1>1. seen[c].version \in 1..Len(versions) /\ Len(versions) \in Nat
    BY DEF VerdictInv, Registered, Types
<1>2. \A i \in 1..seen[c].version : Avro(versions[i]) # Avro(want[c])
    BY <1>1 DEF VerdictInv, Subject
<1> QED
    BY <1>2 DEF VerdictInv, Registered

\* LocalVerdictHolds, in every reachable state, for any clients and columns.
THEOREM LocalVerdictAlwaysHolds == Spec => []LocalVerdictHolds
<1>1. Spec => []VerdictInv
    BY VerdictInit, VerdictStep, PTL DEF Spec
<1> QED
    BY <1>1, VerdictLocal, PTL

\* OverrideHolds, in every reachable state, for any clients and columns.
THEOREM OverrideAlwaysHolds == Spec => []OverrideHolds
<1>1. Spec => []VerdictInv
    BY VerdictInit, VerdictStep, PTL DEF Spec
<1> QED
    BY <1>1, VerdictOverride, PTL

-----------------------------------------------------------------------------
(* The number of versions *)

Done == {c \in Clients : pc[c] = "done"}

\* A client adds a version with its last step only.
CountInv ==
    /\ Len(versions) <= Cardinality(Done) + 1
    /\ want \in [Clients -> Schemas \cup {<<>>}]
    /\ \A c \in Clients : seen[c].version <= Len(versions)

LEMMA DoneGrows ==
    ASSUME VerdictInv, Next
    PROVE  \/ versions' = versions /\ Done \subseteq Done'
           \/ /\ Len(versions') = Len(versions) + 1
              /\ \E c \in Clients \ Done : Done' = Done \cup {c}
<1> USE DEF VerdictInv, Types, Done
<1>1. ASSUME NEW c \in Clients, Post(c) \/ PostFails(c)
      PROVE  c \notin Done /\ Done' = Done \cup {c}
    BY <1>1 DEF Post, PostFails, Ends
<1>2. ASSUME NEW s \in Schemas, versions' = Append(versions, s)
      PROVE  Len(versions') = Len(versions) + 1
    BY <1>2
<1>3. ASSUME NEW c \in Clients,
             \/ Check(c) \/ GetFails(c) \/ SetCompatibility(c) \/ SetCompatibilityFails(c)
             \/ PostRefused(c)
      PROVE  versions' = versions /\ Done \subseteq Done'
  <2>1. versions' = versions
    BY <1>3 DEF Check, GetFails, SetCompatibility, SetCompatibilityFails, PostRefused
  <2>2. pc[c] # "done" /\ \E label \in {"put", "post", "done"} : pc' = [pc EXCEPT ![c] = label]
    BY <1>3 DEF Check, GetFails, SetCompatibility, SetCompatibilityFails, PostRefused, Ends
  <2> QED
    BY <2>1, <2>2
<1> QED
    BY <1>1, <1>2, <1>3, VersionsGrow DEF Next

LEMMA CountStep ==
    ASSUME IsFiniteSet(Clients), VerdictInv, CountInv, [Next]_vars
    PROVE  CountInv'
<1>1. CASE UNCHANGED vars
    BY <1>1 DEF vars, clients, CountInv, Done
<1>2. CASE Next
  <2>1. IsFiniteSet(Done) /\ Cardinality(Done) \in Nat
    BY FS_Subset, FS_CardinalityType DEF Done
  <2>2. IsFiniteSet(Done') /\ Cardinality(Done') \in Nat
    BY FS_Subset, FS_CardinalityType DEF Done
  <2>3. /\ Len(versions) \in Nat /\ Len(versions') \in Nat /\ Len(versions) <= Len(versions')
    BY <1>2, OldVersionsStay DEF VerdictInv, Types
  <2>4. Len(versions') <= Cardinality(Done') + 1
    <3>1. CASE versions' = versions /\ Done \subseteq Done'
      <4>1. Cardinality(Done) <= Cardinality(Done')
        BY <2>2, <3>1, FS_Subset
      <4> QED
        BY <2>1, <2>2, <2>3, <3>1, <4>1 DEF CountInv
    <3>2. CASE /\ Len(versions') = Len(versions) + 1
               /\ \E c \in Clients \ Done : Done' = Done \cup {c}
      <4>1. Cardinality(Done') = Cardinality(Done) + 1
        BY <2>1, <3>2, FS_AddElement
      <4> QED
        BY <2>1, <2>3, <3>2, <4>1 DEF CountInv
    <3> QED
      BY <1>2, <3>1, <3>2, DoneGrows
  <2>5. want' \in [Clients -> Schemas \cup {<<>>}]
    <3>1. want' = want \/ \E d \in Clients, s \in Schemas : want' = [want EXCEPT ![d] = s]
      BY <1>2 DEF Next, Check, GetFails, SetCompatibility, SetCompatibilityFails,
                  Post, PostRefused, PostFails, Ends
    <3> QED
      BY <3>1 DEF CountInv
  <2>6. ASSUME NEW c \in Clients PROVE seen'[c].version <= Len(versions')
    <3>1. seen' = seen \/ \E d \in Clients : Sees(d)
      BY <1>2 DEF Next, Check, GetFails, SetCompatibility, SetCompatibilityFails,
                  Post, PostRefused, PostFails
    <3>2. seen \in [Clients -> Answers]
      BY DEF VerdictInv, Types
    <3>3. CASE \E d \in Clients : Sees(d)
      <4>1. PICK d \in Clients : Sees(d)
        BY <3>3
      <4>2. seen'[c] = IF c = d THEN [version |-> Len(versions), mode |-> mode, setter |-> setter]
                               ELSE seen[c]
        BY <3>2, <4>1 DEF Sees
      <4>3. seen'[c].version = Len(versions) \/ seen'[c] = seen[c]
        BY <4>2
      <4> QED
        BY <2>3, <3>2, <4>3 DEF CountInv, Answers
    <3>4. CASE seen' = seen
      BY <2>3, <3>2, <3>4 DEF CountInv, Answers
    <3> QED
      BY <3>1, <3>3, <3>4
  <2> QED
    BY <2>4, <2>5, <2>6 DEF CountInv
<1> QED
    BY <1>1, <1>2

\* Every call keeps the types, and finitely many clients leave the subject with at most one
\* version each besides the first (register_schema): also a POST whose answer is lost ends
\* its client's call.
THEOREM TypeCorrect ==
    ASSUME IsFiniteSet(Clients)
    PROVE  Spec => []TypeOK
<1>1. Init => CountInv
  <2> SUFFICES ASSUME Init PROVE CountInv
    OBVIOUS
  <2>1. Len(versions) = 1
    BY DEF Init
  <2>2. Done = {}
    BY DEF Init, Done
  <2>3. Cardinality(Done) = 0
    BY <2>2, FS_EmptySet
  <2> QED
    BY <2>1, <2>3 DEF Init, CountInv
<1>2. VerdictInv /\ CountInv /\ [Next]_vars => CountInv'
    BY CountStep
<1>3. VerdictInv /\ CountInv => TypeOK
  <2> SUFFICES ASSUME VerdictInv, CountInv PROVE TypeOK
    OBVIOUS
  <2>1. Cardinality(Done) \in Nat /\ Cardinality(Clients) \in Nat
        /\ Cardinality(Done) <= Cardinality(Clients)
    BY FS_Subset, FS_CardinalityType DEF Done
  <2>2. Len(versions) \in Nat /\ Len(versions) >= 1
    BY DEF VerdictInv, Types
  <2>3. Len(versions) \in 1..Cardinality(Clients) + 1
    BY <2>1, <2>2 DEF CountInv
  <2>4. base \in [Clients -> 0..Len(versions)]
    BY <2>2 DEF VerdictInv, Types, Checked
  <2>5. seen \in [Clients -> [version : 0..Len(versions), mode : Modes, setter : SUBSET Clients]]
    <3>1. ASSUME NEW c \in Clients
          PROVE  seen[c] \in [version : 0..Len(versions), mode : Modes, setter : SUBSET Clients]
      <4>1. seen[c] \in Answers /\ seen[c].version <= Len(versions)
        BY DEF VerdictInv, Types, CountInv
      <4> QED
        BY <2>2, <4>1 DEF Answers
    <3> QED
      BY <3>1 DEF VerdictInv, Types
  <2> QED
    BY <2>3, <2>4, <2>5 DEF VerdictInv, CountInv, Types, TypeOK
<1>4. Spec => []VerdictInv
    BY VerdictInit, VerdictStep, PTL DEF Spec
<1> QED
    BY <1>1, <1>2, <1>3, <1>4, PTL DEF Spec
=============================================================================
