-------------------------- MODULE OutOfOrderProofs --------------------------
(***************************************************************************)
(* Last-write-wins for any set of events: the resolver's row always holds  *)
(* a winner and implements LastWriteWins, the conditional upsert's row is  *)
(* never older than an executed event, and the two agree whenever          *)
(* timestamps alone decide.                                                *)
(***************************************************************************)
EXTENDS OutOfOrder, TLAPS

\* An event's fields, once and for all.
LEMMA EventFields ==
    ASSUME NEW e \in Events
    PROVE  /\ e.ts \in Nat \cup {Null}
           /\ e.id \in Nat \cup {Null}
           /\ e # NoRow
           /\ e = [ts |-> e.ts, id |-> e.id, data |-> e.data]
BY EventsAssumption

\* The decision by itself is the order of data-model.md: shown the stored row with its
\* own timestamp and event id, should_accept_event says exactly that the incoming event
\* beats it.
THEOREM DecisionFollowsOrder ==
    ASSUME NEW e \in Events, NEW r \in Events
    PROVE  ShouldAcceptEvent(e, r) <=> LWW!Beats(e, r)
<1>1. /\ e.ts \in Nat \cup {Null} /\ e.id \in Nat \cup {Null}
      /\ r.ts \in Nat \cup {Null} /\ r.id \in Nat \cup {Null} /\ r # NoRow
  BY EventFields
<1>2. Null \notin Nat
  BY EventsAssumption
<1>. QED
  BY <1>1, <1>2 DEF ShouldAcceptEvent, ResolveTimestampTie, LWW!Beats, LWW!Newer, LWW!Rank

\* With the lookup, a tie is decided by the incoming event and the key alone.
LEMMA AcceptsByKey ==
    ASSUME NEW e \in Events, NEW r \in Events
    PROVE  ShouldAcceptEvent(e, ConflictResolverQuery(r)) <=>
              \/ LWW!Newer(e, r)
              \/ e.ts = r.ts /\ e.ts # Null /\ FollowsKey(e)
<1>1. /\ e.ts \in Nat \cup {Null} /\ e.id \in Nat \cup {Null}
      /\ r.ts \in Nat \cup {Null} /\ r # NoRow
      /\ r = [ts |-> r.ts, id |-> r.id, data |-> r.data]
  BY EventFields
<1>2. Null \notin Nat /\ PrimaryKey \in Nat
  BY EventsAssumption, KeyAssumption
<1> DEFINE q == ConflictResolverQuery(r)
<1>3. /\ q.ts = r.ts /\ q.id = PrimaryKey
      /\ DOMAIN q = {"ts", "id", "data"}
  BY <1>1 DEF ConflictResolverQuery
<1>4. ShouldAcceptEvent(e, q) <=>
         \/ q = NoRow
         \/ LWW!Newer(e, r)
         \/ e.ts = r.ts /\ e.ts # Null /\ FollowsKey(e)
  <2> HIDE DEF q
  <2>. QED
    BY <1>1, <1>2, <1>3 DEF ShouldAcceptEvent, ResolveTimestampTie, FollowsKey, LWW!Newer, LWW!Rank
<1>5. q # NoRow
  BY <1>1, KeyAssumption DEF ConflictResolverQuery
<1>. QED
  BY <1>4, <1>5

-----------------------------------------------------------------------------
(* The resolver's row. *)

ResolverInv == TypeOK /\ HoldsKeyWinner /\ (delivered = {} => row = NoRow)

\* What a rejected event shows of the row.
LEMMA RejectedDoesNotBeat ==
    ASSUME NEW e \in Events, NEW r \in Events,
           ~ShouldAcceptEvent(e, ConflictResolverQuery(r))
    PROVE  ~KeyBeats(e, r)
BY AcceptsByKey DEF KeyBeats

\* What beats neither the row nor the event that replaces it.
LEMMA AcceptedIsUnbeaten ==
    ASSUME NEW e \in Events, NEW r \in Events, NEW d \in Events,
           ShouldAcceptEvent(e, ConflictResolverQuery(r)), ~KeyBeats(d, r)
    PROVE  ~KeyBeats(d, e)
<1>1. /\ e.ts \in Nat \cup {Null} /\ r.ts \in Nat \cup {Null} /\ d.ts \in Nat \cup {Null}
      /\ Null \notin Nat
  BY EventFields, EventsAssumption
<1>2. CASE LWW!Newer(e, r)
  BY <1>1, <1>2 DEF KeyBeats, LWW!Newer, LWW!Rank
<1>3. CASE e.ts = r.ts /\ e.ts # Null /\ FollowsKey(e)
  BY <1>1, <1>3 DEF KeyBeats, LWW!Newer, LWW!Rank
<1>. QED
  BY <1>2, <1>3, AcceptsByKey

LEMMA KeyBeatsIrreflexive ==
    ASSUME NEW e \in Events
    PROVE  ~KeyBeats(e, e)
<1>1. e.ts \in Nat \cup {Null} /\ Null \notin Nat
  BY EventFields, EventsAssumption
<1>. QED
  BY <1>1 DEF KeyBeats, LWW!Newer, LWW!Rank

\* A delivery leaves the winner of everything delivered in the row, and replaces the row
\* by nothing but the event delivered.
LEMMA ConsumeKeepsInv ==
    ASSUME ResolverInv, NEW e \in Events, Consume(e)
    PROVE  ResolverInv' /\ row' \in {row, e} \cap LWW!Newest(delivered')
<1>1. delivered' = delivered \cup {e} /\ delivered' \subseteq Events
  BY DEF Consume, ResolverInv, TypeOK
<1>2. row' \in {row, e} /\ row' \in delivered'
      /\ \A d \in delivered' : ~KeyBeats(d, row')
  <2>1. CASE delivered = {}
    <3>1. row = NoRow /\ row' = e
      BY <2>1 DEF ResolverInv, Consume, ShouldAcceptEvent, ConflictResolverQuery
    <3>. QED
      BY <1>1, <2>1, <3>1, KeyBeatsIrreflexive
  <2>2. CASE delivered # {}
    <3>1. row \in delivered /\ row \in Events /\ \A d \in delivered : ~KeyBeats(d, row)
      BY <2>2 DEF ResolverInv, TypeOK, HoldsKeyWinner
    <3>2. CASE ShouldAcceptEvent(e, ConflictResolverQuery(row))
      <4>1. row' = e
        BY <3>2 DEF Consume
      <4>2. ASSUME NEW d \in delivered' PROVE ~KeyBeats(d, e)
        BY <1>1, <3>1, <3>2, KeyBeatsIrreflexive, AcceptedIsUnbeaten
      <4>. QED
        BY <1>1, <4>1, <4>2
    <3>3. CASE ~ShouldAcceptEvent(e, ConflictResolverQuery(row))
      BY <1>1, <3>1, <3>3, RejectedDoesNotBeat DEF Consume
    <3>. QED
      BY <3>2, <3>3
  <2>. QED
    BY <2>1, <2>2
<1>3. row' \in LWW!Newest(delivered')
  BY <1>2 DEF KeyBeats, LWW!Newest
<1>. QED
  BY <1>1, <1>2, <1>3 DEF ResolverInv, TypeOK, HoldsKeyWinner

\* ResolverInv holds initially and is kept by every step.
LEMMA ResolverInvInductive ==
    /\ Init => ResolverInv
    /\ ResolverInv /\ [Next]_vars => ResolverInv'
<1>1. Init => ResolverInv
  BY DEF Init, ResolverInv, TypeOK, HoldsKeyWinner
<1>2. ASSUME ResolverInv, NEW e \in Events, Consume(e) PROVE ResolverInv'
  BY <1>2, ConsumeKeepsInv
<1>3. ResolverInv /\ UNCHANGED vars => ResolverInv'
  BY DEF ResolverInv, TypeOK, HoldsKeyWinner, vars
<1>. QED
  BY <1>1, <1>2, <1>3 DEF Next

\* The resolver's row is never older than a delivered event, and a tie goes to an event
\* whose id follows the key, for any events, any order and any repetition of them.
THEOREM ResolverHoldsKeyWinner == Spec => [](TypeOK /\ HoldsKeyWinner)
<1>1. ResolverInv => TypeOK /\ HoldsKeyWinner
  BY DEF ResolverInv
<1>. QED
  BY <1>1, ResolverInvInductive, PTL DEF Spec

\* The consumer that asks the resolver implements last-write-wins by timestamp.
THEOREM ResolverImplementsLWW == Spec => ImplementsLWW
<1>1. Init => LWW!Init
  BY DEF Init, LWW!Init
<1>2. ResolverInv /\ [Next]_vars => [LWW!Next]_<<delivered, row>>
  <2>1. ASSUME ResolverInv, NEW e \in Events, Consume(e) PROVE LWW!Next
    <3>1. row' \in {row, e} \cap LWW!Newest(delivered')
      BY <2>1, ConsumeKeepsInv
    <3>2. LWW!Deliver(e)
      BY <2>1, <3>1 DEF Consume, LWW!Deliver
    <3>. QED
      BY <3>2 DEF LWW!Next
  <2>2. UNCHANGED vars => UNCHANGED <<delivered, row>>
    BY DEF vars
  <2>. QED
    BY <2>1, <2>2 DEF Next
<1>. QED
  BY <1>1, <1>2, ResolverInvInductive, PTL DEF Spec, ImplementsLWW, LWW!Spec

\* A redelivered event never brings an older write back.
THEOREM ResolverRedelivery == Spec => RedeliveryKeepsTime
<1>1. ASSUME ResolverInv, NEW e \in delivered, Consume(e), row' # row
      PROVE  e.ts # Null /\ e.ts = row.ts /\ FollowsKey(e)
  <2>1. e \in Events /\ row \in Events /\ ~KeyBeats(e, row)
    BY <1>1 DEF ResolverInv, TypeOK, HoldsKeyWinner
  <2>2. ShouldAcceptEvent(e, ConflictResolverQuery(row))
    BY <1>1 DEF Consume
  <2>. QED
    BY <2>1, <2>2, AcceptsByKey DEF KeyBeats
<1>2. ResolverInv /\ [Next]_vars
        => [\A e \in delivered :
               Consume(e) /\ row' # row => e.ts # Null /\ e.ts = row.ts /\ FollowsKey(e)]_vars
  BY <1>1
<1>. QED
  BY <1>2, ResolverInvInductive, PTL DEF Spec, RedeliveryKeepsTime

-----------------------------------------------------------------------------
(* The conditional upsert's row, and the two rows together. *)

\* The statement writes all of the executed event or none of it, and writes it
\* exactly when its timestamp is newer or the stored one is NULL.
LEMMA StatementIsAllOrNothing ==
    ASSUME NEW e \in Events, NEW r \in Events
    PROVE  SQL!ConditionalUpsertQuery(e, r) =
              IF SQL!SqlGreater(e.ts, r.ts) \/ r.ts = Null THEN e ELSE r
<1>1. r # NoRow
  BY EventFields
<1>2. ASSUME NEW x \in Events
      PROVE  [c \in SQL!Columns |-> x[c]] = x
  <2>1. x = [ts |-> x.ts, id |-> x.id, data |-> x.data]
    BY EventFields
  <2>. QED
    BY <2>1 DEF SQL!Columns
<1>3. CASE SQL!SqlGreater(e.ts, r.ts) \/ r.ts = Null
  <2>1. [c \in SQL!Columns |-> SQL!ColumnValue(c, e, r)] = [c \in SQL!Columns |-> e[c]]
    BY <1>3 DEF SQL!ColumnValue
  <2>2. SQL!UpdateApplies(e, r)
    BY <1>3 DEF SQL!UpdateApplies
  <2>. QED
    BY <1>1, <1>2, <1>3, <2>1, <2>2 DEF SQL!ConditionalUpsertQuery
<1>4. CASE ~(SQL!SqlGreater(e.ts, r.ts) \/ r.ts = Null)
  <2>1. [c \in SQL!Columns |-> SQL!ColumnValue(c, e, r)] = [c \in SQL!Columns |-> r[c]]
    BY <1>4 DEF SQL!ColumnValue
  <2>. QED
    BY <1>1, <1>2, <1>4, <2>1 DEF SQL!ConditionalUpsertQuery
<1>. QED
  BY <1>3, <1>4

StatementInv ==
    /\ executed \subseteq Events
    /\ IF executed = {} THEN tableRow = NoRow
                        ELSE tableRow \in executed /\ SQL!NewestTimestamp

\* An execution leaves one whole executed event in the row, with the newest timestamp.
LEMMA ExecuteKeepsInv ==
    ASSUME StatementInv, NEW e \in Events, SQL!Execute(e)
    PROVE  StatementInv'
<1>1. executed' = executed \cup {e} /\ executed' \subseteq Events /\ executed' # {}
  BY DEF StatementInv, SQL!Execute
<1>2. /\ Null \notin Nat
      /\ \A d \in Events : d.ts \in Nat \cup {Null}
  BY EventFields, EventsAssumption
<1>3. CASE executed = {}
  <2>1. tableRow' = e
    BY <1>3 DEF StatementInv, SQL!Execute, SQL!ConditionalUpsertQuery
  <2>. QED
    BY <1>1, <1>2, <1>3, <2>1 DEF StatementInv, SQL!NewestTimestamp, SQL!SqlGreater
<1>4. CASE executed # {}
  <2>1. tableRow \in executed /\ tableRow \in Events /\ SQL!NewestTimestamp
    BY <1>4 DEF StatementInv
  <2>2. tableRow' = IF SQL!SqlGreater(e.ts, tableRow.ts) \/ tableRow.ts = Null
                    THEN e ELSE tableRow
    BY <2>1, StatementIsAllOrNothing DEF SQL!Execute
  <2>3. tableRow' \in executed'
    BY <1>1, <2>1, <2>2
  <2>4. ASSUME NEW d \in executed'
        PROVE  ~SQL!SqlGreater(d.ts, tableRow'.ts) /\ (tableRow'.ts = Null => d.ts = Null)
    BY <1>1, <1>2, <2>1, <2>2 DEF SQL!NewestTimestamp, SQL!SqlGreater
  <2>. QED
    BY <1>1, <2>3, <2>4 DEF StatementInv, SQL!NewestTimestamp
<1>. QED
  BY <1>3, <1>4

\* An execution moves a stamped row to the same or a newer timestamp.
LEMMA ExecuteNeverOlder ==
    ASSUME StatementInv, NEW e \in Events, SQL!Execute(e),
           tableRow # NoRow, tableRow.ts # Null
    PROVE  tableRow'.ts # Null /\ tableRow'.ts >= tableRow.ts
<1>1. tableRow \in Events
  BY DEF StatementInv
<1>2. tableRow.ts \in Nat /\ e.ts \in Nat \cup {Null} /\ Null \notin Nat
  BY <1>1, EventFields, EventsAssumption
<1>3. tableRow' = IF SQL!SqlGreater(e.ts, tableRow.ts) THEN e ELSE tableRow
  BY <1>1, StatementIsAllOrNothing DEF SQL!Execute
<1>. QED
  BY <1>2, <1>3 DEF SQL!SqlGreater

BothInv == ResolverInv /\ StatementInv

\* Both rows keep their invariants whichever of them takes the step.
LEMMA BothInvInductive ==
    /\ BothInit => BothInv
    /\ BothInv /\ [BothNext]_allVars => BothInv'
<1>1. BothInit => BothInv
  BY DEF BothInit, Init, SQL!Init, BothInv, ResolverInv, StatementInv, TypeOK, HoldsKeyWinner
<1>2. ASSUME BothInv, ResolverStep PROVE BothInv'
  <2>1. PICK e \in Events : Consume(e)
    BY <1>2 DEF ResolverStep, Next
  <2>2. ResolverInv'
    BY <1>2, <2>1, ConsumeKeepsInv DEF BothInv
  <2>. QED
    BY <1>2, <2>2 DEF ResolverStep, BothInv, StatementInv, SQL!NewestTimestamp
<1>3. ASSUME BothInv, StatementStep PROVE BothInv'
  <2>1. PICK e \in Events : SQL!Execute(e)
    BY <1>3 DEF StatementStep, SQL!Next
  <2>2. StatementInv'
    BY <1>3, <2>1, ExecuteKeepsInv DEF BothInv
  <2>. QED
    BY <1>3, <2>2 DEF StatementStep, BothInv, ResolverInv, TypeOK, HoldsKeyWinner
<1>4. ASSUME BothInv, UNCHANGED allVars PROVE BothInv'
  BY <1>4 DEF allVars, BothInv, ResolverInv, StatementInv, TypeOK, HoldsKeyWinner,
              SQL!NewestTimestamp
<1>. QED
  BY <1>1, <1>2, <1>3, <1>4 DEF BothNext

\* No statement mixes columns of two events, and the table's row is as new as any
\* executed event.
THEOREM StatementRowNewest == BothSpec => [](BothTypeOK /\ StatementNewest)
<1>1. BothInv => BothTypeOK /\ StatementNewest
  BY DEF BothInv, ResolverInv, StatementInv, BothTypeOK, TypeOK, SQL!TypeOK, StatementNewest
<1>. QED
  BY <1>1, BothInvInductive, PTL DEF BothSpec

\* No statement makes a row older.
THEOREM StatementRowNeverOlder == BothSpec => StatementNeverOlder
<1>1. BothInv /\ [BothNext]_allVars
        => [tableRow # NoRow /\ tableRow.ts # Null
              => tableRow'.ts # Null /\ tableRow'.ts >= tableRow.ts]_(SQL!vars)
  <2>1. ASSUME BothInv, NEW e \in Events, SQL!Execute(e)
        PROVE  tableRow # NoRow /\ tableRow.ts # Null
                 => tableRow'.ts # Null /\ tableRow'.ts >= tableRow.ts
    BY <2>1, ExecuteNeverOlder DEF BothInv
  <2>. QED
    BY <2>1 DEF BothNext, ResolverStep, StatementStep, SQL!Next, SQL!vars, allVars
<1>. QED
  BY <1>1, BothInvInductive, PTL DEF BothSpec, StatementNeverOlder, SQL!NeverOlder

\* Two stamps that neither LWW nor SQL orders are the same stamp.
LEMMA SameRank ==
    ASSUME NEW x \in Nat \cup {Null}, NEW y \in Nat \cup {Null},
           ~(LWW!Rank(y) > LWW!Rank(x)), ~SQL!SqlGreater(x, y), y = Null => x = Null
    PROVE  x = y
BY EventsAssumption DEF LWW!Rank, SQL!SqlGreater

\* Where timestamps decide, both implementations end with the same row.
THEOREM SinksAlwaysAgree == BothSpec => []SinksAgree
<1>1. ASSUME BothInv PROVE SinksAgree
  <2>1. SUFFICES ASSUME delivered = executed,
                        \A a, b \in delivered : a # b => a.ts # b.ts
                 PROVE  row = tableRow
    BY DEF SinksAgree
  <2>2. CASE delivered = {}
    BY <1>1, <2>1, <2>2 DEF BothInv, ResolverInv, StatementInv
  <2>3. CASE delivered # {}
    <3>1. /\ row \in delivered /\ tableRow \in delivered
          /\ row \in Events /\ tableRow \in Events
          /\ ~LWW!Newer(tableRow, row)
          /\ ~SQL!SqlGreater(row.ts, tableRow.ts)
          /\ tableRow.ts = Null => row.ts = Null
      BY <1>1, <2>1, <2>3 DEF BothInv, ResolverInv, StatementInv, TypeOK, HoldsKeyWinner,
                              SQL!NewestTimestamp, KeyBeats
    <3>2. row.ts \in Nat \cup {Null} /\ tableRow.ts \in Nat \cup {Null} /\ Null \notin Nat
      BY <3>1, EventFields, EventsAssumption
    <3>3. row.ts = tableRow.ts
      <4>1. ~(LWW!Rank(tableRow.ts) > LWW!Rank(row.ts))
        BY <3>1 DEF LWW!Newer
      <4>. QED
        BY <3>1, <3>2, <4>1, SameRank
    <3>. QED
      BY <2>1, <3>1, <3>3
  <2>. QED
    BY <2>2, <2>3
<1>. QED
  BY <1>1, BothInvInductive, PTL DEF BothSpec
=============================================================================
