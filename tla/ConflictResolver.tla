-------------------------- MODULE ConflictResolver --------------------------
(***************************************************************************)
(* connectors/transforms/timestamp_conflict_resolver.py, first half: the   *)
(* accept-or-reject decision TimestampConflictResolver takes for every     *)
(* change event, and one row kept by a consumer that asks it.              *)
(*                                                                         *)
(* The module of the repository is called by "custom Python consumers"     *)
(* that are not in it.  Consume is such a consumer, serial for the row     *)
(* (one Kafka partition): it fetches the stored row with the lookup the    *)
(* module makes for it, asks the resolver and writes the columns of an     *)
(* accepted event over the row.  Events arrive in any order and any number *)
(* of times (Kafka is at least once, and the topic key need not be the     *)
(* row's key), and either metadata field may be missing, which is what the *)
(* resolver's None branches are for.                                       *)
(***************************************************************************)
EXTENDS Integers

CONSTANTS
    Events, Null, NoRow,
    PrimaryKey    \* the row's key, as the text an event id is compared with

VARIABLES
    delivered,    \* the events consumed so far
    row           \* the event whose columns the row holds, or NoRow

vars == <<delivered, row>>

LWW == INSTANCE LastWriteWins WITH current <- row

(***************************************************************************)
(* event_id strings are compared lexicographically; only their order       *)
(* matters here, so they are numbers, as timestamps are.  data stands for  *)
(* every other column.                                                     *)
(***************************************************************************)
ASSUME EventsAssumption ==
    /\ Null \notin Nat
    /\ NoRow \notin Events
    /\ \A e \in Events : /\ e = [ts |-> e.ts, id |-> e.id, data |-> e.data]
                         /\ e.ts \in Nat \cup {Null}
                         /\ e.id \in Nat \cup {Null}
ASSUME KeyAssumption ==
    /\ PrimaryKey \in Nat
    /\ \A e \in Events : [e EXCEPT !.id = PrimaryKey] # NoRow

-----------------------------------------------------------------------------
(* The decision. *)

\* Mistakes the properties below must notice; no specification uses them.
TieLowerIdWins(incoming, existing) ==
    incoming.id # Null /\ (existing.id = Null \/ incoming.id < existing.id)
AcceptsUnstamped(incoming, existing) ==
    \/ existing = NoRow
    \/ existing.ts = Null
    \/ incoming.ts # Null /\ incoming.ts > existing.ts
AcceptsOlder(incoming, existing) ==
    existing = NoRow \/ incoming.ts # Null

\* `existing` carries _cdc_timestamp_micros as ts and _last_event_id as id.
ResolveTimestampTie(incoming, existing) ==
    /\ incoming.id # Null
    /\ \/ existing.id = Null
       \/ incoming.id > existing.id

ShouldAcceptEvent(incoming, existing) ==
    \/ existing = NoRow
    \/ /\ incoming.ts # Null
       /\ \/ existing.ts = Null
          \/ incoming.ts > existing.ts
          \/ /\ incoming.ts = existing.ts
             /\ ResolveTimestampTie(incoming, existing)

\* create_conflict_resolver_query selects the key column `id` under the name
\* _last_event_id; the column _last_event_id of the table is not read.
ConflictResolverQuery(r) ==
    IF r = NoRow THEN NoRow ELSE [r EXCEPT !.id = PrimaryKey]

-----------------------------------------------------------------------------
Init == delivered = {} /\ row = NoRow

Consume(e) ==
    /\ delivered' = delivered \cup {e}
    /\ row' = IF ShouldAcceptEvent(e, ConflictResolverQuery(row)) THEN e ELSE row

Next == \E e \in Events : Consume(e)

Spec == Init /\ [][Next]_vars

-----------------------------------------------------------------------------
TypeOK ==
    /\ delivered \subseteq Events
    /\ row \in delivered \cup {NoRow}

FollowsKey(e) == e.id # Null /\ e.id > PrimaryKey

KeyBeats(a, b) ==
    \/ LWW!Newer(a, b)
    \/ a.ts = b.ts /\ a.ts # Null /\ FollowsKey(a) /\ ~FollowsKey(b)

\* Whatever the order and repetition of the deliveries, the row is a delivered event that
\* none is newer than, and of the events tied with it one whose id follows the row's key,
\* if there is any: what is left of the tiebreak when the lookup returns the key as the id.
HoldsKeyWinner ==
    delivered # {} => row \in {e \in delivered : \A d \in delivered : ~KeyBeats(d, e)}

\* data-model.md, "Resolution Algorithm" step 4: no delivered event that ties with the row
\* has a higher event_id.
ResolverTieWinner ==
    row # NoRow /\ row.ts # Null /\ row.id # Null
      => \A d \in delivered : d.ts = row.ts /\ d.id # Null => d.id <= row.id

\* A redelivered event (a consumer that crashed before its offset commit, a replayed dead
\* letter) brings no older write back: it can only take the place of one of its own time.
RedeliveryKeepsTime ==
    [][\A e \in delivered :
          Consume(e) /\ row' # row => e.ts # Null /\ e.ts = row.ts /\ FollowsKey(e)]_vars

\* The consumer implements last-write-wins by timestamp, with a tie left open.
ImplementsLWW == LWW!Spec
=============================================================================
