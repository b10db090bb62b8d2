--------------------------- MODULE SchemaEvolution ---------------------------
(***************************************************************************)
(* services/schema_service.py: the detection of column changes, the local  *)
(* compatibility check, the Avro schema made from the columns, and the     *)
(* registration of one subject, two HTTP calls to the Schema Registry.     *)
(*                                                                         *)
(* A client reads the latest version, checks its new columns against it,   *)
(* and registers them, whether or not the check let them pass:             *)
(* register_schema does not ask.  Clients of several processes interleave  *)
(* at each HTTP call.  A call that fails may have had its effect.          *)
(*                                                                         *)
(* Columns are a function from names to [type, nullable, default], where   *)
(* default says whether default_value, which may be anything, is given and *)
(* whether it is a value of the column's type.                             *)
(***************************************************************************)
EXTENDS Naturals, Sequences, FiniteSets

CONSTANTS
    Clients,
    Ask,            \* client -> the compatibility it passes, or "unset" for None
    Schemas,        \* the columns a client may register
    InitialModes    \* the modes the subject may be in at first

Modes == {"BACKWARD", "FORWARD", "FULL", "NONE"}

\* default_value: None, a value of the column's type, or any other value.
Defaults == {"none", "fits", "misfits"}

ASSUME SchemaAssumption ==
    /\ Ask \in [Clients -> Modes \cup {"unset"}]
    /\ InitialModes \subseteq Modes
    /\ \A s \in Schemas : \A c \in DOMAIN s :
          s[c] \in [type : STRING, nullable : BOOLEAN, default : Defaults]

VARIABLES
    pc,         \* client -> its next call
    base,       \* client -> the number of the version it has read
    want,       \* client -> the columns it registers
    assumed,    \* client -> the mode its check went by
    verdict,    \* client -> what check_compatibility said
    outcome,    \* client -> "none", "registered", "refused" or "error"
    versions,   \* the subject's versions, as columns
    mode,       \* the subject's compatibility mode
    setter,     \* history: the client whose PUT is the last that took effect, or {}
    seen        \* history: client -> what its POST met, if it was answered

clients == <<pc, base, want, assumed, verdict, outcome>>
vars == <<clients, versions, mode, setter, seen>>

-----------------------------------------------------------------------------
(* Avro *)

AvroTypeMap ==
    [text |-> "string", varchar |-> "string", ascii |-> "string", int |-> "int",
     bigint |-> "long", float |-> "float", double |-> "double", boolean |-> "boolean",
     uuid |-> "string", timeuuid |-> "string", timestamp |-> "long", blob |-> "bytes"]

\* A list, a set or a map, whatever its elements: its kind stands for all its types.
CassandraToAvroType(t) ==
    IF t \in DOMAIN AvroTypeMap THEN AvroTypeMap[t]
    ELSE IF t \in {"list", "set"} THEN "array" ELSE IF t = "map" THEN "map" ELSE "string"

\* A mistake: a nullable column without a default of its own gets none.
DefaultOnlyIfGiven(column) == IF column.default = "none" THEN "absent" ELSE column.default

\* What is given is copied as it is.
FieldDefault(column) ==
    IF column.default # "none" THEN column.default
    ELSE IF column.nullable THEN "null" ELSE "absent"

CreateAvroSchemaForTable(columns) ==
    [c \in DOMAIN columns |-> [type |-> CassandraToAvroType(columns[c].type),
                               nullable |-> columns[c].nullable,
                               default |-> FieldDefault(columns[c])]]

\* A default is a value of the field's type, that of a union of its first branch, "null".
WellFormed(avro) ==
    \A f \in DOMAIN avro : avro[f].default \in IF avro[f].nullable THEN {"null", "absent"}
                                                                  ELSE {"fits", "absent"}

Promotions ==
    {<<"int", "long">>, <<"int", "float">>, <<"int", "double">>, <<"long", "float">>,
     <<"long", "double">>, <<"float", "double">>, <<"string", "bytes">>, <<"bytes", "string">>}

FieldReads(reader, writer) ==
    /\ writer.nullable => reader.nullable
    /\ reader.type = writer.type \/ <<writer.type, reader.type>> \in Promotions

Reads(reader, writer) ==
    \A f \in DOMAIN reader :
       IF f \in DOMAIN writer THEN FieldReads(reader[f], writer[f])
                              ELSE reader[f].default # "absent"

\* The registry's modes, as in specs/001-cass-cdc-pg/data-model.md, "Schema Evolution Rules":
\* BACKWARD lets the new schema read the old data.  The docstrings of the two local checks
\* (schema_service.py:307 and :342) say it of the other direction; the registry decides.
Compatible(m, new, old) ==
    /\ m \in {"BACKWARD", "FULL"} => Reads(new, old)
    /\ m \in {"FORWARD", "FULL"} => Reads(old, new)

-----------------------------------------------------------------------------
(* The local check *)

DetectSchemaChanges(old, new) ==
    [kind : {"ADD_COLUMN"}, column : DOMAIN new \ DOMAIN old]
    \cup [kind : {"DROP_COLUMN"}, column : DOMAIN old \ DOMAIN new]
    \cup [kind : {"MODIFY_COLUMN"},
          column : {c \in DOMAIN old \cap DOMAIN new : old[c].type # new[c].type}]

NoneModified(changes) == \A change \in changes : change.kind # "MODIFY_COLUMN"

\* A mistake: every added column is let through.
AnyAddition(changes, new) == NoneModified(changes)

CheckBackwardCompatibility(changes, new) ==
    /\ \A change \in changes :
          change.kind = "ADD_COLUMN" =>
             new[change.column].nullable \/ new[change.column].default # "none"
    /\ NoneModified(changes)

CheckForwardCompatibility(changes) == NoneModified(changes)

CheckCompatibility(old, m, new) ==
    LET changes == DetectSchemaChanges(old, new)
    IN  /\ m \in {"BACKWARD", "FULL"} => CheckBackwardCompatibility(changes, new)
        /\ m \in {"FORWARD", "FULL"} => CheckForwardCompatibility(changes)

-----------------------------------------------------------------------------
Init ==
    /\ pc = [c \in Clients |-> "get"]
    /\ base = [c \in Clients |-> 0]
    /\ want = [c \in Clients |-> <<>>]
    /\ assumed = [c \in Clients |-> "NONE"]
    /\ verdict = [c \in Clients |-> FALSE]
    /\ outcome = [c \in Clients |-> "none"]
    /\ versions \in {<<s>> : s \in {t \in Schemas : WellFormed(CreateAvroSchemaForTable(t))}}
    /\ mode \in InitialModes
    /\ setter = {}
    /\ seen = [c \in Clients |-> [version |-> 0, mode |-> "NONE", setter |-> {}]]

Latest == versions[Len(versions)]

\* A mistake: the call returns nothing.
EndsUnanswered(c, o) ==
    /\ pc' = [pc EXCEPT ![c] = "done"]
    /\ UNCHANGED <<base, want, assumed, verdict, outcome>>

Ends(c, o) ==
    /\ outcome' = [outcome EXCEPT ![c] = o]
    /\ pc' = [pc EXCEPT ![c] = "done"]
    /\ UNCHANGED <<base, want, assumed, verdict>>

\* get_schema_by_version, then check_compatibility.  The mode is what the caller gives the
\* old columns; nothing in the repository calls it, and the client is taken to give the one
\* it will register under.
Check(c) ==
    /\ pc[c] = "get"
    /\ \E s \in Schemas : want' = [want EXCEPT ![c] = s]
    /\ base' = [base EXCEPT ![c] = Len(versions)]
    /\ assumed' = [assumed EXCEPT ![c] = IF Ask[c] = "unset" THEN mode ELSE Ask[c]]
    /\ verdict' = [verdict EXCEPT ![c] = CheckCompatibility(Latest, assumed'[c], want'[c])]
    /\ pc' = [pc EXCEPT ![c] = IF Ask[c] = "unset" THEN "post" ELSE "put"]
    /\ UNCHANGED <<outcome, versions, mode, setter, seen>>

GetFails(c) ==
    /\ pc[c] = "get"
    /\ Ends(c, "error")
    /\ UNCHANGED <<versions, mode, setter, seen>>

Puts(c) == mode' = Ask[c] /\ setter' = {c}

\* A mistake: the mode is left as it is.
NothingPut(c) ==
    /\ pc[c] = "put"
    /\ setter' = {c}
    /\ pc' = [pc EXCEPT ![c] = "post"]
    /\ UNCHANGED <<base, want, assumed, verdict, outcome, versions, mode, seen>>

SetCompatibility(c) ==
    /\ pc[c] = "put"
    /\ Puts(c)
    /\ pc' = [pc EXCEPT ![c] = "post"]
    /\ UNCHANGED <<base, want, assumed, verdict, outcome, versions, seen>>

\* An HTTP error is logged and registration goes on; no answer at all is raised.
SetCompatibilityFails(c) ==
    /\ pc[c] = "put"
    /\ \/ UNCHANGED <<mode, setter>>
       \/ Puts(c)
    /\ \/ Ends(c, "error")
       \/ pc' = [pc EXCEPT ![c] = "post"] /\ UNCHANGED <<base, want, assumed, verdict, outcome>>
    /\ UNCHANGED <<versions, seen>>

\* The registry: a version it has is answered with its id; a new one has to be well
\* formed and compatible with the latest.
Known(s) ==
    \E i \in 1..Len(versions) :
       CreateAvroSchemaForTable(versions[i]) = CreateAvroSchemaForTable(s)

Accepts(s) ==
    LET avro == CreateAvroSchemaForTable(s)
    IN  WellFormed(avro) /\ Compatible(mode, avro, CreateAvroSchemaForTable(Latest))

Stores(s) ==
    \/ Known(s) /\ UNCHANGED versions
    \/ ~Known(s) /\ Accepts(s) /\ versions' = Append(versions, s)

Sees(c) ==
    seen' = [seen EXCEPT ![c] =
                [version |-> Len(versions), mode |-> mode, setter |-> setter]]

Post(c) ==
    /\ pc[c] = "post"
    /\ Stores(want[c])
    /\ Sees(c)
    /\ Ends(c, "registered")
    /\ UNCHANGED <<mode, setter>>

PostRefused(c) ==
    /\ pc[c] = "post"
    /\ ~Known(want[c]) /\ ~Accepts(want[c])
    /\ Sees(c)
    /\ Ends(c, "refused")
    /\ UNCHANGED <<versions, mode, setter>>

PostFails(c) ==
    /\ pc[c] = "post"
    /\ Stores(want[c]) \/ UNCHANGED versions
    /\ Ends(c, "error")
    /\ UNCHANGED <<mode, setter, seen>>

Next ==
    \E c \in Clients :
       \/ Check(c) \/ GetFails(c)
       \/ SetCompatibility(c) \/ SetCompatibilityFails(c)
       \/ Post(c) \/ PostRefused(c) \/ PostFails(c)

Spec == Init /\ [][Next]_vars

-----------------------------------------------------------------------------
TypeOK ==
    /\ pc \in [Clients -> {"get", "put", "post", "done"}]
    /\ base \in [Clients -> 0..Len(versions)]
    /\ want \in [Clients -> Schemas \cup {<<>>}]
    /\ assumed \in [Clients -> Modes]
    /\ verdict \in [Clients -> BOOLEAN]
    /\ outcome \in [Clients -> {"none", "registered", "refused", "error"}]
    /\ versions \in Seq(Schemas) /\ Len(versions) \in 1..Cardinality(Clients) + 1
    /\ seen \in [Clients -> [version : 0..Len(versions), mode : Modes,
                             setter : SUBSET Clients]]
    /\ mode \in Modes
    /\ setter \subseteq Clients
    /\ \A c \in Clients : pc[c] = "done" <=> outcome[c] # "none"

\* What check_compatibility cannot see: it compares cassandra_type alone.
Tightens(old, new) ==
    \E c \in DOMAIN old \cap DOMAIN new : old[c].nullable /\ ~new[c].nullable

DropsRequired(old, new) ==
    \E c \in DOMAIN old \ DOMAIN new : ~old[c].nullable /\ old[c].default = "none"

CheckBlind(old, m, new) ==
    \/ \E c \in DOMAIN new :
          new[c].default = "misfits" \/ (new[c].nullable /\ new[c].default = "fits")
    \/ m \in {"BACKWARD", "FULL"} /\ Tightens(old, new)
    \/ m \in {"FORWARD", "FULL"} /\ (Tightens(new, old) \/ DropsRequired(old, new))

\* Columns that check_compatibility lets pass are not refused by the registry, as long
\* as nobody registers or changes the mode in between, except for the changes of
\* nullability, the dropped required columns and the defaults that do not fit their field,
\* which the check does not look at.
LocalVerdictHolds ==
    \A c \in Clients :
       /\ outcome[c] = "refused" /\ verdict[c]
       /\ seen[c].version = base[c] /\ seen[c].mode = assumed[c]
       => CheckBlind(versions[base[c]], assumed[c], want[c])

\* The POST of c was answered and what it posted is the version after the one it met.
Added(c) ==
    /\ outcome[c] = "registered"
    /\ seen[c].version < Len(versions) /\ versions[seen[c].version + 1] = want[c]

\* The version c registered and the one before it are as mode m promises.
AddedUnder(m, c) ==
    Compatible(m, CreateAvroSchemaForTable(want[c]),
                  CreateAvroSchemaForTable(versions[seen[c].version]))

\* Whoever registers a version, with an override or without: it and the version before it
\* are as promised by the override that took effect last, whichever client's PUT that was
\* and whether or not that client was answered.
OverrideHolds ==
    \A c \in Clients : \A d \in seen[c].setter : Added(c) => AddedUnder(Ask[d], c)

-----------------------------------------------------------------------------
(* What the documents say and the code does not keep *)

\* "compatibility: Optional compatibility mode override" of register_schema: a version that
\* is registered under an override is as that override promises.
OwnOverrideHolds ==
    \A c \in Clients : Added(c) /\ Ask[c] # "unset" => AddedUnder(Ask[c], c)

\* data-model.md, "FORWARD ... remove optional column": what check_compatibility calls
\* compatible removes optional columns only.
ForwardRemovesOptional ==
    \A c \in Clients :
       verdict[c] /\ assumed[c] \in {"FORWARD", "FULL"}
       => ~DropsRequired(versions[base[c]], want[c])
=============================================================================
