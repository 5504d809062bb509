-------------------------- MODULE EventStoreProofs --------------------------
(***************************************************************************)
(* What EventStore promises for any number of events, entities, attempts   *)
(* and restarts: an event is in the table once; the generator of streams   *)
(* never mixes entities nor cuts a run of events of one in two; queries    *)
(* tell what the streams told; and what is read of a row depends on the    *)
(* classes that are imported, not on when the registry was refreshed.      *)
(***************************************************************************)
EXTENDS EventStore, SequenceLemmas, FiniteSetTheorems

AnyRow == [event: Events, body: {BodyOf(c) : c \in EventClasses}]

TableOK ==
  /\ rows \in Seq(AnyRow)
  /\ answer \in [Events -> {"none", "added", "unsure", "IntegrityError"}]

OnceInv == TableOK /\ StoredOnce

(* The generator: it groups the events of the entities that they are of.   *)
GeneratorOK ==
  /\ rows \in Seq(AnyRow) /\ snapshot \in Seq(AnyRow)
  /\ at \in 0..Len(snapshot)
  /\ reader \in {"idle", "reading", "yielded", "done", "raised"}
  /\ current \in Entities \cup {None}
  /\ grouped \in [Entities -> Seq(Events)]
  /\ streams \in Seq(Seq(Events))

OwnGroups ==
  \A n \in Entities : \A e \in Range(grouped[n]) : EntityOf[e] = n

(* It holds at most one group, that of its current entity.                 *)
OneGroup ==
  /\ reader \in {"reading", "yielded"} =>
       /\ \A n \in Entities \ {current} : grouped[n] = <<>>
       /\ current # None => grouped[current] # <<>>
  /\ reader = "idle" =>
       /\ streams = <<>> /\ current = None /\ at = 0
       /\ \A n \in Entities : grouped[n] = <<>>
  /\ reader = "yielded" =>
       current # None /\ at < Len(snapshot) /\ current # ThisEntity

IsRun(stream) ==
  stream # <<>> /\ \A e \in Range(stream) : EntityOf[e] = EntityOf[stream[1]]

Runs ==
  /\ \A i \in DOMAIN streams : IsRun(streams[i])
  /\ \A i \in DOMAIN streams :
       i > 1 => EntityOf[streams[i][1]] # EntityOf[streams[i - 1][1]]

(* The last stream it yielded was of another entity than the current one,  *)
(* or is the current group itself.                                         *)
LastRun ==
  streams # <<>> =>
    LET last == EntityOf[streams[Len(streams)][1]] IN
    /\ reader = "reading" => current # None /\ current # last
    /\ reader = "yielded" => current = last

GeneratorInv == GeneratorOK /\ OwnGroups /\ OneGroup /\ Runs /\ LastRun

-----------------------------------------------------------------------------
LEMMA RowAppended ==
  ASSUME rows \in Seq(AnyRow), NEW e \in Events,
         rows' = Append(rows, [event |-> e, body |-> BodyOf(ClassOf[e])])
  PROVE  /\ rows' \in Seq(AnyRow)
         /\ Len(rows) \in Nat /\ DOMAIN rows = 1..Len(rows)
         /\ DOMAIN rows' = 1..Len(rows) + 1
         /\ \A i \in DOMAIN rows : rows'[i] = rows[i]
         /\ rows'[Len(rows) + 1].event = e
<1> DEFINE row == [event |-> e, body |-> BodyOf(ClassOf[e])]
<1>1. row \in AnyRow /\ row.event = e
  BY StoreAssumption DEF AnyRow
<1> HIDE DEF row
<1>2. rows' = Append(rows, row)
  BY DEF row
<1>3. /\ rows' \in Seq(AnyRow) /\ Len(rows') = Len(rows) + 1
      /\ \A i \in 1..Len(rows) : rows'[i] = rows[i]
      /\ rows'[Len(rows) + 1] = row
  BY <1>1, <1>2, AppendProperties
<1>4. /\ Len(rows) \in Nat /\ DOMAIN rows = 1..Len(rows)
      /\ DOMAIN rows' = 1..Len(rows')
  BY <1>3, LenProperties
<1> QED BY <1>1, <1>3, <1>4

LEMMA OnceStep == OnceInv /\ [Next]_vars => OnceInv'
<1> SUFFICES ASSUME OnceInv, [Next]_vars PROVE OnceInv'
  OBVIOUS
<1>1. /\ rows \in Seq(AnyRow) /\ TableOK
      /\ \A i, j \in DOMAIN rows : rows[i].event = rows[j].event => i = j
      /\ \A e \in Events : answer[e] \in {"added", "IntegrityError"} => Stored(e)
  BY DEF OnceInv, TableOK, StoredOnce
<1>2. ASSUME NEW e \in Events, Add(e) PROVE OnceInv'
  <2>1. /\ rows' \in Seq(AnyRow)
        /\ Len(rows) \in Nat /\ DOMAIN rows = 1..Len(rows)
        /\ DOMAIN rows' = 1..Len(rows) + 1
        /\ \A i \in DOMAIN rows : rows'[i] = rows[i]
        /\ rows'[Len(rows) + 1].event = e
    BY <1>1, <1>2, RowAppended DEF Add
  <2>2. ~ Stored(e) /\ \A d \in Events \ {e} : answer'[d] = answer[d]
    BY <1>1, <1>2 DEF Add, TableOK
  <2>3. TableOK'
    BY <1>1, <1>2, <2>1 DEF Add, TableOK
  <2>4. \A i \in DOMAIN rows' :
          \/ i \in DOMAIN rows /\ rows'[i].event = rows[i].event /\ rows'[i].event # e
          \/ i = Len(rows) + 1 /\ rows'[i].event = e
    BY <2>1, <2>2 DEF Stored
  <2>5. \A i, j \in DOMAIN rows' : rows'[i].event = rows'[j].event => i = j
    BY <1>1, <2>4
  <2>6. \A d \in Events : (d = e \/ Stored(d)) => Stored(d)'
    BY <2>1 DEF Stored
  <2>7. \A d \in Events : answer'[d] \in {"added", "IntegrityError"} => Stored(d)'
    BY <1>1, <2>2, <2>6
  <2> QED BY <2>3, <2>5, <2>7 DEF OnceInv, StoredOnce
<1>3. ASSUME NEW e \in Events, AddFails(e) \/ AddRefused(e) PROVE OnceInv'
  BY <1>1, <1>3 DEF AddFails, AddRefused, OnceInv, TableOK, StoredOnce, Stored
<1>4. ASSUME Restart PROVE OnceInv'
  <2>1. /\ rows' = rows
        /\ answer' = [e \in Events |-> IF tries[e] = 0 THEN "none" ELSE "unsure"]
    BY <1>4 DEF Restart
  <2> QED BY <1>1, <2>1 DEF OnceInv, TableOK, StoredOnce, Stored
<1>5. ASSUME UNCHANGED <<rows, answer>> PROVE OnceInv'
  BY <1>5, <1>1 DEF OnceInv, TableOK, StoredOnce, Stored
<1>6. ASSUME \/ \E c \in EventClasses : Import(c)
             \/ \E n \in Entities :
                  ListEvents(n) \/ \E v \in Range(Version) : EventStream(n, v)
             \/ StartStreams \/ ReadRaises \/ ReadRow \/ YieldGroup \/ Resume \/ End
             \/ UNCHANGED vars
      PROVE  UNCHANGED <<rows, answer>>
  BY <1>6 DEF Import, ListEvents, EventStream, StartStreams, ReadRaises, ReadRow,
              YieldGroup, Resume, End, vars, store
<1> QED BY <1>2, <1>3, <1>4, <1>5, <1>6 DEF Next

LEMMA OnceInit == Init => OnceInv
<1> SUFFICES ASSUME Init PROVE OnceInv
  OBVIOUS
<1>1. rows \in Seq(AnyRow) /\ Len(rows) = 0
  BY EmptySeq DEF Init
<1>2. DOMAIN rows = {}
  BY <1>1, LenProperties
<1> QED BY <1>1, <1>2 DEF Init, OnceInv, TableOK, StoredOnce

(* However often an event is added again by a caller in doubt, it is in    *)
(* the table once, and whoever was told that it was added, or that it had  *)
(* been, was told the truth.                                               *)
THEOREM AddedOnce == Spec => []StoredOnce
<1>1. OnceInv => StoredOnce
  BY DEF OnceInv
<1> QED BY <1>1, OnceInit, OnceStep, PTL DEF Spec

-----------------------------------------------------------------------------
LEMMA ThisRowType ==
  ASSUME GeneratorOK, at < Len(snapshot)
  PROVE  /\ at \in Nat /\ Len(snapshot) \in Nat /\ at + 1 \in 0..Len(snapshot)
         /\ ThisRow.event \in Events /\ ThisEntity \in Entities
<1>1. at \in Nat /\ Len(snapshot) \in Nat /\ at + 1 \in 1..Len(snapshot)
  BY LenProperties DEF GeneratorOK
<1>2. ThisRow \in AnyRow
  BY <1>1, ElementOfSeq DEF GeneratorOK, ThisRow
<1> QED BY <1>1, <1>2, StoreAssumption DEF AnyRow, ThisEntity

(* Collecting the row that is read into `groups', all groups of which but  *)
(* its own are empty, leaves one group, of its entity.                     *)
LEMMA Collected ==
  ASSUME GeneratorOK, at < Len(snapshot), NEW groups \in [Entities -> Seq(Events)],
         \A n \in Entities : \A e \in Range(groups[n]) : EntityOf[e] = n,
         \A n \in Entities \ {ThisEntity} : groups[n] = <<>>,
         Collect(groups), UNCHANGED snapshot
  PROVE  /\ current' = ThisEntity /\ current' \in Entities
         /\ at' \in 0..Len(snapshot)
         /\ grouped' \in [Entities -> Seq(Events)] /\ OwnGroups'
         /\ grouped'[current'] # <<>>
         /\ \A n \in Entities \ {current'} : grouped'[n] = <<>>
<1> DEFINE n == ThisEntity
           e == ThisRow.event
           g == Append(groups[n], e)
<1>1. n \in Entities /\ e \in Events /\ EntityOf[e] = n /\ at + 1 \in 0..Len(snapshot)
  BY ThisRowType DEF ThisEntity
<1>2. current' = n /\ at' = at + 1 /\ grouped' = [groups EXCEPT ![n] = g]
  BY DEF Collect
<1> HIDE DEF n, e
<1>3. /\ g \in Seq(Events) /\ g # <<>> /\ Len(g) = Len(groups[n]) + 1
      /\ \A i \in 1..Len(groups[n]) : g[i] = groups[n][i]
      /\ g[Len(groups[n]) + 1] = e
  BY <1>1, AppendProperties
<1>4. \A d \in Range(g) : EntityOf[d] = n
  <2>1. /\ DOMAIN g = 1..Len(g) /\ DOMAIN groups[n] = 1..Len(groups[n])
        /\ Len(groups[n]) \in Nat
    BY <1>1, <1>3, LenProperties
  <2>2. \A i \in DOMAIN g :
          \/ i \in DOMAIN groups[n] /\ g[i] = groups[n][i]
          \/ g[i] = e
    BY <1>3, <2>1
  <2>3. \A i \in DOMAIN groups[n] : EntityOf[groups[n][i]] = n
    BY <1>1 DEF Range
  <2> QED BY <1>1, <2>2, <2>3 DEF Range
<1> HIDE DEF g
<1>5. grouped' \in [Entities -> Seq(Events)] /\ grouped'[n] = g
      /\ \A m \in Entities \ {n} : grouped'[m] = groups[m]
  BY <1>1, <1>2, <1>3
<1>6. OwnGroups'
  BY <1>4, <1>5 DEF OwnGroups
<1> QED BY <1>1, <1>2, <1>3, <1>5, <1>6 DEF n

(* A group that is yielded is a run, and follows one of another entity.    *)
LEMMA GroupYielded ==
  ASSUME GeneratorInv, reader = "reading", current # None,
         streams' = Append(streams, grouped[current])
  PROVE  /\ streams' \in Seq(Seq(Events)) /\ streams' # <<>> /\ Runs'
         /\ EntityOf[streams'[Len(streams')][1]] = current
<1>1. /\ GeneratorOK /\ current \in Entities /\ grouped[current] \in Seq(Events)
      /\ grouped[current] # <<>>
  BY DEF GeneratorInv, GeneratorOK, OneGroup
<1> DEFINE g == grouped[current]
<1>2. g # <<>> /\ Len(g) \in Nat \ {0} /\ DOMAIN g = 1..Len(g)
  BY <1>1, EmptySeq, LenProperties
<1>3. \A e \in Range(g) : EntityOf[e] = current
  BY <1>1 DEF GeneratorInv, OwnGroups
<1>4. EntityOf[g[1]] = current /\ IsRun(g)
  <2>1. g[1] \in Range(g)
    BY <1>2 DEF Range
  <2> QED BY <1>2, <1>3, <2>1 DEF IsRun
<1>5. /\ streams' \in Seq(Seq(Events)) /\ streams' # <<>>
      /\ Len(streams') = Len(streams) + 1
      /\ \A i \in 1..Len(streams) : streams'[i] = streams[i]
      /\ streams'[Len(streams) + 1] = g
  BY <1>1, AppendProperties DEF GeneratorOK
<1> HIDE DEF g
<1>6. /\ Len(streams) \in Nat /\ DOMAIN streams = 1..Len(streams)
      /\ DOMAIN streams' = 1..Len(streams) + 1
  BY <1>1, <1>5, LenProperties DEF GeneratorOK
<1>7. \A i \in DOMAIN streams' : IsRun(streams'[i])
  <2>1. \A i \in DOMAIN streams : IsRun(streams[i])
    BY DEF GeneratorInv, Runs
  <2>2. \A i \in DOMAIN streams' :
          \/ i \in DOMAIN streams /\ streams'[i] = streams[i]
          \/ streams'[i] = g
    BY <1>5, <1>6
  <2> QED BY <1>4, <2>1, <2>2
<1>8. ASSUME NEW i \in DOMAIN streams', i > 1
      PROVE  EntityOf[streams'[i][1]] # EntityOf[streams'[i - 1][1]]
  <2>1. CASE i \in DOMAIN streams
    <3>1. streams'[i] = streams[i] /\ streams'[i - 1] = streams[i - 1]
      BY <1>5, <1>6, <1>8, <2>1
    <3>2. EntityOf[streams[i][1]] # EntityOf[streams[i - 1][1]]
      <4>1. Runs
        BY DEF GeneratorInv
      <4> QED BY <1>8, <2>1, <4>1 DEF Runs
    <3> QED BY <3>1, <3>2, Zenon
  <2>2. CASE i = Len(streams) + 1
    <3>1. Len(streams) \in 1..Len(streams) /\ streams # <<>>
      BY <1>6, <1>8, <2>2, EmptySeq
    <3>2. streams'[i] = g /\ streams'[i - 1] = streams[Len(streams)]
      BY <1>5, <1>6, <2>2, <3>1
    <3>3. EntityOf[streams[Len(streams)][1]] # current
      BY <3>1 DEF GeneratorInv, LastRun
    <3> QED BY <1>4, <3>2, <3>3
  <2> QED BY <1>6, <1>8, <2>1, <2>2
<1>9. Runs'
  BY <1>7, <1>8 DEF Runs, IsRun
<1> QED BY <1>4, <1>5, <1>9

LEMMA ReadKeeps ==
  ASSUME GeneratorInv, ReadRow
  PROVE  GeneratorInv'
<1>1. /\ GeneratorOK /\ OwnGroups /\ OneGroup /\ Runs /\ LastRun
      /\ reader = "reading" /\ at < Len(snapshot) /\ Collect(grouped)
      /\ current = None \/ current = ThisEntity
      /\ UNCHANGED <<rows, reader, snapshot, streams>>
  BY DEF GeneratorInv, ReadRow, Readable, EndsGroup, store
<1>2. \A n \in Entities \ {ThisEntity} : grouped[n] = <<>>
  BY <1>1, StoreAssumption DEF OneGroup
<1>3. /\ current' = ThisEntity /\ current' \in Entities
      /\ at' \in 0..Len(snapshot)
      /\ grouped' \in [Entities -> Seq(Events)] /\ OwnGroups'
      /\ grouped'[current'] # <<>>
      /\ \A n \in Entities \ {current'} : grouped'[n] = <<>>
  BY <1>1, <1>2, Collected DEF GeneratorOK, OwnGroups
<1>4. GeneratorOK'
  BY <1>1, <1>3 DEF GeneratorOK
<1>5. OneGroup'
  BY <1>1, <1>3 DEF OneGroup
<1>6. Runs' /\ LastRun'
  BY <1>1, <1>3, StoreAssumption DEF Runs, IsRun, LastRun
<1> QED BY <1>3, <1>4, <1>5, <1>6 DEF GeneratorInv

LEMMA YieldKeeps ==
  ASSUME GeneratorInv, YieldGroup
  PROVE  GeneratorInv'
<1>1. /\ GeneratorOK /\ OwnGroups /\ OneGroup
      /\ reader = "reading" /\ reader' = "yielded" /\ at < Len(snapshot)
      /\ current # None /\ current # ThisEntity
      /\ streams' = Append(streams, grouped[current])
      /\ UNCHANGED <<rows, snapshot, at, current, grouped>>
  BY DEF GeneratorInv, YieldGroup, Readable, EndsGroup, store
<1>2. /\ streams' \in Seq(Seq(Events)) /\ streams' # <<>> /\ Runs'
      /\ EntityOf[streams'[Len(streams')][1]] = current
  BY <1>1, GroupYielded
<1>3. GeneratorOK' /\ OwnGroups'
  BY <1>1, <1>2 DEF GeneratorOK, OwnGroups
<1>4. OneGroup'
  BY <1>1 DEF OneGroup, ThisEntity, ThisRow
<1>5. LastRun'
  BY <1>1, <1>2 DEF LastRun
<1> QED BY <1>2, <1>3, <1>4, <1>5 DEF GeneratorInv

(* The group that was yielded is deleted before the next one begins.       *)
LEMMA ResumeKeeps ==
  ASSUME GeneratorInv, Resume
  PROVE  GeneratorInv'
<1> DEFINE groups == [grouped EXCEPT ![current] = <<>>]
<1>1. /\ GeneratorOK /\ OwnGroups /\ OneGroup /\ Runs /\ LastRun
      /\ reader = "yielded" /\ reader' = "reading" /\ at < Len(snapshot)
      /\ current # None /\ current # ThisEntity /\ Collect(groups)
      /\ UNCHANGED <<rows, snapshot, streams>>
  BY DEF GeneratorInv, OneGroup, Resume, store
<1>2. groups \in [Entities -> Seq(Events)] /\ \A n \in Entities : groups[n] = <<>>
  BY <1>1, EmptySeq DEF GeneratorOK, OneGroup
<1> HIDE DEF groups
<1>3. \A n \in Entities : \A e \in Range(groups[n]) : EntityOf[e] = n
  <2>1. DOMAIN <<>> = {}
    BY EmptySeq, LenProperties
  <2> QED BY <1>2, <2>1 DEF Range
<1>4. /\ current' = ThisEntity /\ current' \in Entities
      /\ at' \in 0..Len(snapshot)
      /\ grouped' \in [Entities -> Seq(Events)] /\ OwnGroups'
      /\ grouped'[current'] # <<>>
      /\ \A n \in Entities \ {current'} : grouped'[n] = <<>>
  BY <1>1, <1>2, <1>3, Collected
<1>5. GeneratorOK' /\ OneGroup'
  BY <1>1, <1>4 DEF GeneratorOK, OneGroup
<1>6. Runs' /\ LastRun'
  BY <1>1, <1>4, StoreAssumption DEF Runs, IsRun, LastRun
<1> QED BY <1>4, <1>5, <1>6 DEF GeneratorInv

LEMMA EndKeeps ==
  ASSUME GeneratorInv, End
  PROVE  GeneratorInv'
<1>1. /\ GeneratorOK /\ OwnGroups /\ OneGroup /\ Runs
      /\ reader = "reading" /\ reader' = "done"
      /\ streams' = IF current = None THEN streams
                    ELSE Append(streams, grouped[current])
      /\ UNCHANGED <<rows, snapshot, at, current, grouped>>
  BY DEF GeneratorInv, End, store
<1>2. streams' \in Seq(Seq(Events)) /\ Runs'
  <2>1. CASE current = None
    BY <1>1, <2>1 DEF GeneratorOK, Runs, IsRun
  <2>2. CASE current # None
    BY <1>1, <2>2, GroupYielded
  <2> QED BY <2>1, <2>2
<1>3. GeneratorOK' /\ OwnGroups' /\ OneGroup' /\ LastRun'
  BY <1>1, <1>2 DEF GeneratorOK, OwnGroups, OneGroup, LastRun
<1> QED BY <1>2, <1>3 DEF GeneratorInv

LEMMA NoStreamYet ==
  ASSUME streams = <<>>
  PROVE  Runs /\ LastRun
<1>1. DOMAIN streams = {}
  BY EmptySeq, LenProperties
<1> QED BY <1>1 DEF Runs, LastRun

LEMMA IdleGenerator ==
  ASSUME rows \in Seq(AnyRow), reader = "idle", snapshot = <<>>, at = 0,
         current = None, streams = <<>>, grouped = [n \in Entities |-> <<>>]
  PROVE  GeneratorInv
<1>1. Len(snapshot) = 0 /\ snapshot \in Seq(AnyRow) /\ streams \in Seq(Seq(Events))
      /\ DOMAIN <<>> = {}
  BY EmptySeq, LenProperties
<1>2. GeneratorOK
  BY <1>1, EmptySeq DEF GeneratorOK
<1>3. OwnGroups
  BY <1>1 DEF OwnGroups, Range
<1>4. OneGroup
  BY DEF OneGroup
<1> QED BY <1>2, <1>3, <1>4, NoStreamYet DEF GeneratorInv

(* The statement's result is the table, in whatever order.                 *)
LEMMA SnapshotTaken ==
  ASSUME rows \in Seq(AnyRow), StartStreams
  PROVE  /\ snapshot' \in Seq(AnyRow) /\ Len(snapshot') \in Nat
         /\ \A i \in DOMAIN snapshot' : snapshot'[i] \in Range(rows)
<1>1. PICK order \in Bijection(DOMAIN rows, DOMAIN rows) :
        snapshot' = [i \in DOMAIN rows |-> rows[order[i]]]
  BY DEF StartStreams
<1>2. /\ Len(rows) \in Nat /\ DOMAIN rows = 1..Len(rows)
      /\ \A i \in DOMAIN rows : rows[i] \in AnyRow
  BY LenProperties, ElementOfSeq
<1>3. order \in [DOMAIN rows -> DOMAIN rows]
  BY DEF Bijection, Injection
<1>4. /\ snapshot' \in [1..Len(rows) -> AnyRow]
      /\ \A i \in DOMAIN snapshot' : snapshot'[i] \in Range(rows)
  BY <1>1, <1>2, <1>3 DEF Range
<1>5. snapshot' \in Seq(AnyRow)
  BY <1>2, <1>4, SeqDef
<1> QED BY <1>4, <1>5, LenProperties

LEMMA GeneratorStep == OnceInv' /\ GeneratorInv /\ [Next]_vars => GeneratorInv'
<1> SUFFICES ASSUME OnceInv', GeneratorInv, [Next]_vars PROVE GeneratorInv'
  OBVIOUS
<1>1. rows' \in Seq(AnyRow)
  BY DEF OnceInv, TableOK
<1>2. ASSUME UNCHANGED gen PROVE GeneratorInv'
  BY <1>1, <1>2 DEF gen, GeneratorInv, GeneratorOK, OwnGroups, OneGroup, Runs, IsRun,
                    LastRun, ThisEntity, ThisRow
<1>3. ASSUME \/ \E c \in EventClasses : Import(c)
             \/ \E e \in Events : Add(e) \/ AddFails(e) \/ AddRefused(e)
             \/ \E n \in Entities :
                  ListEvents(n) \/ \E v \in Range(Version) : EventStream(n, v)
             \/ UNCHANGED vars
      PROVE  UNCHANGED gen
  BY <1>3 DEF Import, Add, AddFails, AddRefused, MayAdd, ListEvents, EventStream, vars
<1>4. ASSUME StartStreams PROVE GeneratorInv'
  <2>1. /\ GeneratorOK /\ OwnGroups /\ OneGroup
        /\ reader = "idle" /\ reader' = "reading"
        /\ snapshot' \in Seq(AnyRow) /\ Len(snapshot') \in Nat
        /\ UNCHANGED <<rows, at, current, grouped, streams>>
    <3>1. rows \in Seq(AnyRow)
      BY DEF GeneratorInv, GeneratorOK
    <3> QED BY <1>4, <3>1, SnapshotTaken DEF GeneratorInv, StartStreams, store
  <2>2. at' \in 0..Len(snapshot')
    BY <2>1 DEF OneGroup
  <2>3. GeneratorOK' /\ OwnGroups'
    BY <2>1, <2>2 DEF GeneratorOK, OwnGroups
  <2>4. OneGroup' /\ streams' = <<>>
    BY <2>1 DEF OneGroup
  <2>5. Runs' /\ LastRun'
    BY <2>1, <2>4, NoStreamYet DEF GeneratorInv, Runs, IsRun, LastRun
  <2> QED BY <2>3, <2>4, <2>5 DEF GeneratorInv
<1>5. ASSUME ReadRaises PROVE GeneratorInv'
  <2>1. /\ GeneratorOK /\ OwnGroups /\ Runs
        /\ reader' = "raised"
        /\ UNCHANGED <<rows, snapshot, at, current, grouped, streams>>
    BY <1>5 DEF GeneratorInv, ReadRaises, store
  <2> QED BY <2>1 DEF GeneratorInv, GeneratorOK, OwnGroups, OneGroup, Runs, IsRun, LastRun
<1>6. ASSUME Restart PROVE GeneratorInv'
  <2>1. /\ reader' = "idle" /\ snapshot' = <<>> /\ at' = 0 /\ current' = None
        /\ streams' = <<>> /\ grouped' = [n \in Entities |-> <<>>]
    BY <1>6 DEF Restart
  <2>2. Len(snapshot') = 0 /\ snapshot' \in Seq(AnyRow) /\ streams' \in Seq(Seq(Events))
        /\ DOMAIN <<>> = {} /\ DOMAIN streams' = {}
    BY <2>1, EmptySeq, LenProperties
  <2>3. GeneratorOK'
    BY <1>1, <2>1, <2>2, EmptySeq DEF GeneratorOK
  <2>4. OwnGroups'
    BY <2>1, <2>2 DEF OwnGroups, Range
  <2>5. OneGroup' /\ Runs' /\ LastRun'
    BY <2>1, <2>2 DEF OneGroup, Runs, LastRun
  <2> QED BY <2>3, <2>4, <2>5 DEF GeneratorInv
<1> QED BY <1>2, <1>3, <1>4, <1>5, <1>6, ReadKeeps, YieldKeeps, ResumeKeeps, EndKeeps
        DEF Next

LEMMA GeneratorInit == Init => GeneratorInv
<1> SUFFICES ASSUME Init PROVE GeneratorInv
  OBVIOUS
<1>1. rows \in Seq(AnyRow)
  BY EmptySeq DEF Init
<1> QED BY <1>1, IdleGenerator DEF Init

(* Whatever is added or imported between its steps, and wherever it is     *)
(* abandoned, all_event_streams yields streams of one entity each, none    *)
(* empty and no two of one entity in a row, and keeps one group at a time. *)
THEOREM StreamsAreRuns == Spec => []OneEntityPerStream
<1>1. GeneratorInv => OneEntityPerStream
  BY DEF GeneratorInv, OneGroup, Runs, IsRun, OneEntityPerStream
<1> QED BY <1>1, OnceInit, OnceStep, GeneratorInit, GeneratorStep, PTL DEF Spec

-----------------------------------------------------------------------------
(* What the generator has read of its statement, and the group it has in   *)
(* hand.                                                                   *)
ReadSoFar == [i \in 1..at |-> snapshot[i].event]

InHand == IF reader = "reading" /\ current # None THEN grouped[current] ELSE <<>>

StreamsInv == GeneratorInv /\ StreamsAreTheRows

LEMMA StreamsAre ==
  StreamsAreTheRows <=>
    IF reader = "raised" THEN IsPrefix(FlattenSeq(streams), ReadSoFar)
    ELSE FlattenSeq(streams) \o InHand = ReadSoFar
BY DEF StreamsAreTheRows, ReadSoFar, InHand

LEMMA ReadType ==
  ASSUME GeneratorOK
  PROVE  /\ ReadSoFar \in Seq(Events) /\ Len(ReadSoFar) = at
         /\ InHand \in Seq(Events)
         /\ FlattenSeq(streams) \in Seq(Events)
         /\ at = 0 => ReadSoFar = <<>>
<1>1. at \in Nat /\ \A i \in 1..at : snapshot[i].event \in Events
  <2>1. Len(snapshot) \in Nat /\ at \in Nat /\ at <= Len(snapshot)
    BY LenProperties DEF GeneratorOK
  <2>2. \A i \in 1..Len(snapshot) : snapshot[i] \in AnyRow
    BY ElementOfSeq DEF GeneratorOK
  <2> QED BY <2>1, <2>2 DEF AnyRow
<1>2. ReadSoFar \in Seq(Events) /\ Len(ReadSoFar) = at
  <2>1. ReadSoFar \in [1..at -> Events]
    BY <1>1 DEF ReadSoFar
  <2>2. ReadSoFar \in Seq(Events)
    BY <1>1, <2>1, SeqDef
  <2>3. DOMAIN ReadSoFar = 1..at
    BY DEF ReadSoFar
  <2> QED BY <1>1, <2>2, <2>3, LenProperties
<1>3. InHand \in Seq(Events)
  BY EmptySeq DEF GeneratorOK, InHand
<1>4. FlattenSeq(streams) \in Seq(Events)
  BY FlattenType DEF GeneratorOK
<1> QED BY <1>2, <1>3, <1>4, EmptySeq

(* The row that is collected is the next of those read.                    *)
LEMMA ReadAppended ==
  ASSUME GeneratorOK, at < Len(snapshot), at' = at + 1, UNCHANGED snapshot
  PROVE  ReadSoFar' = Append(ReadSoFar, ThisRow.event)
<1> DEFINE e == ThisRow.event
           r == Append(ReadSoFar, e)
<1>1. at \in Nat /\ e \in Events /\ e = snapshot[at + 1].event
  BY ThisRowType DEF ThisRow
<1>2. ReadSoFar \in Seq(Events) /\ Len(ReadSoFar) = at
  BY ReadType
<1> HIDE DEF e
<1>3. /\ r \in Seq(Events) /\ Len(r) = at + 1 /\ r[at + 1] = e
      /\ \A i \in 1..at : r[i] = ReadSoFar[i]
  BY <1>1, <1>2, AppendProperties
<1> HIDE DEF r
<1>4. \A i \in 1..at + 1 : r[i] = snapshot[i].event
  <2>1. \A i \in 1..at + 1 : i \in 1..at \/ i = at + 1
    BY <1>1
  <2> QED BY <1>1, <1>3, <2>1 DEF ReadSoFar
<1>5. r = [i \in 1..at + 1 |-> r[i]]
  BY <1>3, LenProperties
<1>6. r = [i \in 1..at + 1 |-> snapshot[i].event]
  BY <1>4, <1>5
<1> QED BY <1>6 DEF ReadSoFar, r, e

LEMMA ReadKeepsStreams ==
  ASSUME StreamsInv, ReadRow
  PROVE  StreamsAreTheRows'
<1>1. /\ GeneratorOK /\ OneGroup /\ reader = "reading" /\ reader' = "reading"
      /\ at < Len(snapshot) /\ Collect(grouped)
      /\ current = None \/ current = ThisEntity
      /\ UNCHANGED <<snapshot, streams>>
  BY DEF StreamsInv, GeneratorInv, ReadRow, Readable, EndsGroup
<1>2. ThisEntity \in Entities /\ ThisEntity # None /\ ThisRow.event \in Events
  BY <1>1, ThisRowType, StoreAssumption
<1>3. current' = ThisEntity /\ at' = at + 1
      /\ grouped'[ThisEntity] = Append(grouped[ThisEntity], ThisRow.event)
  BY <1>1, <1>2 DEF Collect, GeneratorOK
<1>4. InHand = grouped[ThisEntity]
  BY <1>1, <1>2 DEF InHand, OneGroup
<1>5. InHand' = Append(InHand, ThisRow.event)
  BY <1>1, <1>2, <1>3, <1>4 DEF InHand
<1>6. FlattenSeq(streams) \o InHand = ReadSoFar
  BY <1>1, StreamsAre DEF StreamsInv
<1>7. ReadSoFar' = Append(ReadSoFar, ThisRow.event)
  BY <1>1, <1>3, ReadAppended
<1>8. FlattenSeq(streams) \o Append(InHand, ThisRow.event)
        = Append(FlattenSeq(streams) \o InHand, ThisRow.event)
  BY <1>1, <1>2, ReadType, AppendConcat
<1>9. FlattenSeq(streams)' = FlattenSeq(streams)
  BY <1>1
<1>10. (FlattenSeq(streams) \o InHand)' = ReadSoFar'
  BY <1>5, <1>6, <1>7, <1>8, <1>9
<1> QED BY <1>1, <1>10 DEF StreamsAreTheRows, ReadSoFar, InHand

LEMMA YieldKeepsStreams ==
  ASSUME StreamsInv, YieldGroup
  PROVE  StreamsAreTheRows'
<1>1. /\ GeneratorOK /\ reader = "reading" /\ reader' = "yielded"
      /\ current # None /\ streams' = Append(streams, grouped[current])
      /\ UNCHANGED <<snapshot, at>>
  BY DEF StreamsInv, GeneratorInv, YieldGroup, EndsGroup
<1>2. grouped[current] \in Seq(Events) /\ InHand = grouped[current] /\ InHand' = <<>>
  BY <1>1 DEF GeneratorOK, InHand
<1>3. FlattenSeq(streams)' = FlattenSeq(streams) \o grouped[current]
  BY <1>1, <1>2, FlattenAppend DEF GeneratorOK
<1>4. FlattenSeq(streams) \o grouped[current] = ReadSoFar
  BY <1>1, <1>2, StreamsAre DEF StreamsInv
<1>5. ReadSoFar' = ReadSoFar
  BY <1>1 DEF ReadSoFar
<1>6. (FlattenSeq(streams) \o InHand)' = ReadSoFar'
  BY <1>1, <1>2, <1>3, <1>4, <1>5, ReadType, ConcatEmptySeq
<1> QED BY <1>1, <1>6 DEF StreamsAreTheRows, ReadSoFar, InHand

LEMMA ResumeKeepsStreams ==
  ASSUME StreamsInv, Resume
  PROVE  StreamsAreTheRows'
<1> DEFINE groups == [grouped EXCEPT ![current] = <<>>]
           n == ThisEntity
           e == ThisRow.event
<1>1. /\ GeneratorOK /\ OneGroup /\ reader = "yielded" /\ reader' = "reading"
      /\ at < Len(snapshot) /\ current # None /\ Collect(groups)
      /\ UNCHANGED <<snapshot, streams>>
  BY DEF StreamsInv, GeneratorInv, OneGroup, Resume
<1>2. n \in Entities /\ n # None /\ e \in Events
  BY <1>1, ThisRowType, StoreAssumption
<1>3. /\ \A m \in Entities : groups[m] = <<>>
      /\ groups \in [Entities -> Seq(Events)]
  BY <1>1, EmptySeq DEF GeneratorOK, OneGroup
<1>4. current' = n /\ at' = at + 1 /\ grouped'[n] = Append(groups[n], e)
  BY <1>1, <1>2, <1>3 DEF Collect
<1>5. InHand = <<>> /\ InHand' = Append(<<>>, e)
  BY <1>1, <1>2, <1>3, <1>4 DEF InHand
<1>6. FlattenSeq(streams) \o InHand = ReadSoFar
  BY <1>1, StreamsAre DEF StreamsInv
<1>7. ReadSoFar' = Append(ReadSoFar, e)
  BY <1>1, <1>4, ReadAppended
<1>8. FlattenSeq(streams) \o Append(InHand, e) = Append(FlattenSeq(streams) \o InHand, e)
  BY <1>1, <1>2, ReadType, AppendConcat
<1>9. FlattenSeq(streams)' = FlattenSeq(streams)
  BY <1>1
<1> HIDE DEF e
<1>10. (FlattenSeq(streams) \o InHand)' = ReadSoFar'
  BY <1>5, <1>6, <1>7, <1>8, <1>9
<1> QED BY <1>1, <1>10 DEF StreamsAreTheRows, ReadSoFar, InHand

LEMMA EndKeepsStreams ==
  ASSUME StreamsInv, End
  PROVE  StreamsAreTheRows'
<1>1. /\ GeneratorOK /\ reader = "reading" /\ reader' = "done"
      /\ streams' = IF current = None THEN streams
                    ELSE Append(streams, grouped[current])
      /\ UNCHANGED <<snapshot, at>>
  BY DEF StreamsInv, GeneratorInv, End
<1>2. FlattenSeq(streams) \o InHand = ReadSoFar
  BY <1>1, StreamsAre DEF StreamsInv
<1>3. FlattenSeq(streams') = FlattenSeq(streams) \o InHand
  <2>1. CASE current = None
    BY <1>1, <2>1, ReadType, ConcatEmptySeq DEF InHand
  <2>2. CASE current # None
    BY <1>1, <2>2, FlattenAppend DEF InHand, GeneratorOK
  <2> QED BY <2>1, <2>2
<1>4. InHand' = <<>> /\ ReadSoFar' = ReadSoFar
  BY <1>1 DEF InHand, ReadSoFar
<1>5. (FlattenSeq(streams) \o InHand)' = ReadSoFar'
  BY <1>1, <1>2, <1>3, <1>4, ReadType, ConcatEmptySeq
<1> QED BY <1>1, <1>5 DEF StreamsAreTheRows, ReadSoFar, InHand

LEMMA RaiseKeepsStreams ==
  ASSUME StreamsInv, ReadRaises
  PROVE  StreamsAreTheRows'
<1>1. /\ GeneratorOK /\ reader = "reading" /\ reader' = "raised"
      /\ UNCHANGED <<snapshot, at, streams>>
  BY DEF StreamsInv, GeneratorInv, ReadRaises
<1>2. FlattenSeq(streams) \o InHand = ReadSoFar
  BY <1>1, StreamsAre DEF StreamsInv
<1>3. /\ FlattenSeq(streams) \in Seq(Events) /\ InHand \in Seq(Events)
      /\ Len(FlattenSeq(streams)) \in Nat
  BY <1>1, ReadType, LenProperties
<1>4. IsPrefix(FlattenSeq(streams), FlattenSeq(streams))
  BY <1>3 DEF IsPrefix
<1>5. IsPrefix(FlattenSeq(streams), FlattenSeq(streams) \o InHand)
  BY <1>3, <1>4, PrefixOfLonger
<1>6. IsPrefix(FlattenSeq(streams), ReadSoFar)' <=> IsPrefix(FlattenSeq(streams), ReadSoFar)
  BY <1>1 DEF ReadSoFar
<1> QED BY <1>1, <1>2, <1>5, <1>6 DEF StreamsAreTheRows, ReadSoFar

LEMMA NothingRead ==
  ASSUME at = 0, streams = <<>>, current = None, reader # "raised"
  PROVE  StreamsAreTheRows
<1>1. ReadSoFar = <<>> /\ InHand = <<>> /\ FlattenSeq(streams) = <<>>
  <2>1. 1..at = {}
    OBVIOUS
  <2>2. ReadSoFar = <<>>
    BY <2>1 DEF ReadSoFar
  <2> QED BY <2>2, FlattenNothing DEF InHand
<1>2. <<>> \o <<>> = <<>>
  BY EmptySeq, ConcatEmptySeq
<1> QED BY <1>1, <1>2, StreamsAre

LEMMA StreamsStep == OnceInv' /\ StreamsInv /\ [Next]_vars => StreamsInv'
<1> SUFFICES ASSUME OnceInv', StreamsInv, [Next]_vars PROVE StreamsInv'
  OBVIOUS
<1>1. GeneratorInv /\ GeneratorInv'
  BY GeneratorStep DEF StreamsInv
<1>2. ASSUME UNCHANGED gen PROVE StreamsInv'
  BY <1>1, <1>2 DEF gen, StreamsInv, StreamsAreTheRows
<1>3. ASSUME \/ \E c \in EventClasses : Import(c)
             \/ \E e \in Events : Add(e) \/ AddFails(e) \/ AddRefused(e)
             \/ \E n \in Entities :
                  ListEvents(n) \/ \E v \in Range(Version) : EventStream(n, v)
             \/ UNCHANGED vars
      PROVE  UNCHANGED gen
  BY <1>3 DEF Import, Add, AddFails, AddRefused, MayAdd, ListEvents, EventStream, vars
<1>4. ASSUME StartStreams \/ Restart PROVE StreamsAreTheRows'
  <2>1. (at = 0 /\ streams = <<>> /\ current = None /\ reader # "raised")'
    BY <1>1, <1>4 DEF GeneratorInv, OneGroup, StartStreams, Restart
  <2>2. 1..at' = {}
    BY <2>1
  <2>3. /\ FlattenSeq(streams') = <<>> /\ InHand' = <<>>
        /\ [i \in 1..at' |-> snapshot'[i].event] = <<>>
    BY <2>1, <2>2, FlattenNothing DEF InHand
  <2>4. <<>> \o <<>> = <<>>
    BY EmptySeq, ConcatEmptySeq
  <2> QED BY <2>1, <2>3, <2>4 DEF StreamsAreTheRows
<1> QED BY <1>1, <1>2, <1>3, <1>4, ReadKeepsStreams, YieldKeepsStreams,
           ResumeKeepsStreams, EndKeepsStreams, RaiseKeepsStreams
        DEF Next, StreamsInv

LEMMA StreamsInit == Init => StreamsInv
<1>1. Init => StreamsAreTheRows
  BY NothingRead DEF Init
<1> QED BY <1>1, GeneratorInit DEF StreamsInv

(* Nothing is lost and nothing told twice by all_event_streams: one after  *)
(* the other its streams are the rows it has read, wherever it is          *)
(* suspended, ends, raises or is begun again, whatever is added meanwhile. *)
THEOREM StreamsTellTheTable == Spec => []StreamsAreTheRows
<1>1. StreamsInv => StreamsAreTheRows
  BY DEF StreamsInv
<1> QED BY <1>1, OnceInit, OnceStep, StreamsInit, StreamsStep, PTL DEF Spec

-----------------------------------------------------------------------------
(* The rows of events, as they were stored, and what was read of them.     *)
AsStored ==
  \A i \in DOMAIN rows : rows[i].body = BodyOf(ClassOf[rows[i].event])

(* All that the generator has read is still in the table.                  *)
FromTable ==
  /\ \A i \in DOMAIN snapshot : snapshot[i] \in Range(rows)
  /\ \A n \in Entities : \A e \in Range(grouped[n]) : Stored(e)
  /\ \A i \in DOMAIN streams : \A e \in Range(streams[i]) : Stored(e)

(* The registry names classes by the id that they are looked up by.        *)
Catalogued ==
  /\ imported \subseteq EventClasses
  /\ \A id \in DOMAIN types : types[id] \in imported /\ TypeId[types[id]] = id

ReadInv == AsStored /\ FromTable /\ Catalogued

LEMMA RefreshedCatalogues ==
  ASSUME Catalogued
  PROVE  /\ \A id \in DOMAIN Refreshed :
              Refreshed[id] \in imported /\ TypeId[Refreshed[id]] = id
         /\ \A c \in imported : TypeId[c] \in DOMAIN Refreshed
BY DEF Catalogued, Refreshed

(* Every step that reads rows keeps the registry, or refreshes it.         *)
LEMMA TypesLooked ==
  ASSUME [Next]_vars, ~ Restart
  PROVE  types' = types \/ types' = Refreshed
<1>1. ASSUME NEW n, NEW v, NEW selected, Rebuild(n, v, selected)
      PROVE  types' = types \/ types' = Refreshed
  BY <1>1 DEF Rebuild
<1>2. ASSUME NEW n \in Entities,
             ListEvents(n) \/ \E v \in Range(Version) : EventStream(n, v)
      PROVE  types' = types \/ types' = Refreshed
  BY <1>1, <1>2 DEF ListEvents, EventStream
<1>3. ASSUME ReadRaises \/ ReadRow \/ YieldGroup
      PROVE  types' = types \/ types' = Refreshed
  BY <1>3 DEF ReadRaises, ReadRow, YieldGroup, Readable, Lookup
<1>4. ASSUME \/ \E c \in EventClasses : Import(c)
             \/ \E e \in Events : Add(e) \/ AddFails(e) \/ AddRefused(e)
             \/ StartStreams \/ Resume \/ End \/ UNCHANGED vars
      PROVE  types' = types
  BY <1>4 DEF Import, Add, AddFails, AddRefused, MayAdd, StartStreams, Resume, End, vars
<1> QED BY <1>2, <1>3, <1>4 DEF Next

LEMMA CataloguedStep ==
  ASSUME Catalogued, [Next]_vars
  PROVE  Catalogued'
<1>1. CASE Restart
  <2>1. imported' = Imported /\ types' = <<>>
    BY <1>1 DEF Restart
  <2>2. DOMAIN types' = {}
    BY <2>1, EmptySeq, LenProperties
  <2> QED BY <2>1, <2>2, StoreAssumption DEF Catalogued
<1>2. CASE ~ Restart
  <2>1. types' = types \/ types' = Refreshed
    BY <1>2, TypesLooked
  <2>2. ASSUME NEW c \in EventClasses, Import(c)
        PROVE  imported' = imported \cup {c} /\ types' = types
    BY <2>2 DEF Import
  <2>3. imported \subseteq imported' /\ imported' \subseteq EventClasses
    <3>1. ASSUME \/ \E e \in Events : Add(e) \/ AddFails(e) \/ AddRefused(e)
                 \/ \E n \in Entities :
                      ListEvents(n) \/ \E v \in Range(Version) : EventStream(n, v)
                 \/ StartStreams \/ ReadRaises \/ ReadRow \/ YieldGroup \/ Resume
                 \/ End \/ UNCHANGED vars
          PROVE  imported' = imported
      BY <3>1 DEF Add, AddFails, AddRefused, MayAdd, ListEvents, EventStream,
                  StartStreams, ReadRaises, ReadRow, YieldGroup, Resume, End, vars
    <3> QED BY <1>2, <2>2, <3>1 DEF Next, Catalogued
  <2>4. \A id \in DOMAIN types' : types'[id] \in imported /\ TypeId[types'[id]] = id
    BY <2>1, RefreshedCatalogues DEF Catalogued
  <2> QED BY <2>3, <2>4 DEF Catalogued
<1> QED BY <1>1, <1>2

-----------------------------------------------------------------------------
(* A row stays in the table once it is there.                              *)
LEMMA RowsGrow ==
  ASSUME OnceInv, AsStored, [Next]_vars
  PROVE  /\ AsStored'
         /\ \A i \in DOMAIN rows : i \in DOMAIN rows' /\ rows'[i] = rows[i]
<1>1. ASSUME NEW e \in Events, Add(e)
      PROVE  /\ AsStored'
             /\ \A i \in DOMAIN rows : i \in DOMAIN rows' /\ rows'[i] = rows[i]
  <2>1. rows \in Seq(AnyRow)
        /\ rows' = Append(rows, [event |-> e, body |-> BodyOf(ClassOf[e])])
    BY <1>1 DEF Add, OnceInv, TableOK
  <2>2. /\ Len(rows) \in Nat /\ DOMAIN rows = 1..Len(rows)
        /\ DOMAIN rows' = 1..Len(rows) + 1
        /\ \A i \in DOMAIN rows : rows'[i] = rows[i]
    BY <2>1, RowAppended
  <2>3. rows'[Len(rows) + 1] = [event |-> e, body |-> BodyOf(ClassOf[e])]
    <3>1. [event |-> e, body |-> BodyOf(ClassOf[e])] \in AnyRow
      BY StoreAssumption DEF AnyRow
    <3> QED BY <2>1, <3>1, AppendProperties
  <2>4. \A i \in DOMAIN rows' : i \in DOMAIN rows \/ i = Len(rows) + 1
    BY <2>2
  <2> QED BY <2>2, <2>3, <2>4 DEF AsStored
<1>2. ASSUME rows' = rows
      PROVE  /\ AsStored'
             /\ \A i \in DOMAIN rows : i \in DOMAIN rows' /\ rows'[i] = rows[i]
  BY <1>2 DEF AsStored
<1>3. ASSUME \/ \E c \in EventClasses : Import(c)
             \/ \E e \in Events : AddFails(e) \/ AddRefused(e)
             \/ \E n \in Entities :
                  ListEvents(n) \/ \E v \in Range(Version) : EventStream(n, v)
             \/ StartStreams \/ ReadRaises \/ ReadRow \/ YieldGroup \/ Resume \/ End
             \/ Restart \/ UNCHANGED vars
      PROVE  rows' = rows
  BY <1>3 DEF Import, AddFails, AddRefused, ListEvents, EventStream, StartStreams,
              ReadRaises, ReadRow, YieldGroup, Resume, End, Restart, vars, store
<1> QED BY <1>1, <1>2, <1>3 DEF Next

(* What the generator holds stays in the table while it does not move.     *)
LEMMA StillThere ==
  ASSUME FromTable, \A i \in DOMAIN rows : i \in DOMAIN rows' /\ rows'[i] = rows[i]
  PROVE  /\ \A row \in Range(rows) : row \in Range(rows)'
         /\ \A e \in Events : Stored(e) => Stored(e)'
         /\ UNCHANGED gen => FromTable'
<1>1. \A row \in Range(rows) : row \in Range(rows)'
  BY DEF Range
<1>2. \A e : Stored(e) => Stored(e)'
  BY DEF Stored
<1> QED BY <1>1, <1>2 DEF FromTable, gen

LEMMA ThisRowStored ==
  ASSUME GeneratorOK, FromTable, at < Len(snapshot)
  PROVE  ThisRow \in Range(rows) /\ Stored(ThisRow.event)
<1>1. at + 1 \in DOMAIN snapshot
  BY LenProperties DEF GeneratorOK
<1>2. ThisRow \in Range(rows)
  BY <1>1 DEF ThisRow, FromTable
<1> QED BY <1>2 DEF Range, Stored

LEMMA AppendRange ==
  ASSUME NEW S, NEW s \in Seq(S), NEW e \in S
  PROVE  \A x \in Range(Append(s, e)) : x \in Range(s) \/ x = e
<1> DEFINE t == Append(s, e)
<1>1. /\ t \in Seq(S) /\ Len(t) = Len(s) + 1
      /\ \A i \in 1..Len(s) : t[i] = s[i]
      /\ t[Len(s) + 1] = e
  BY AppendProperties
<1>2. DOMAIN t = 1..Len(t) /\ DOMAIN s = 1..Len(s) /\ Len(s) \in Nat
  BY <1>1, LenProperties
<1> HIDE DEF t
<1>3. \A i \in DOMAIN t : (i \in DOMAIN s /\ t[i] = s[i]) \/ t[i] = e
  BY <1>1, <1>2
<1> QED BY <1>3 DEF Range, t

LEMMA CollectedFromTable ==
  ASSUME GeneratorOK, FromTable, at < Len(snapshot), Collect(grouped), UNCHANGED rows
  PROVE  \A n \in Entities : \A e \in Range(grouped'[n]) : Stored(e)'
<1> DEFINE n == ThisEntity
           e == ThisRow.event
<1>1. n \in Entities /\ e \in Events /\ Stored(e)
  BY ThisRowType, ThisRowStored
<1>2. grouped[n] \in Seq(Events) /\ grouped' = [grouped EXCEPT ![n] = Append(grouped[n], e)]
  BY <1>1 DEF GeneratorOK, Collect
<1> HIDE DEF n, e
<1>3. \A d \in Range(Append(grouped[n], e)) : d \in Range(grouped[n]) \/ d = e
  BY <1>1, <1>2, AppendRange
<1>4. ASSUME NEW m \in Entities, NEW d \in Range(grouped'[m]) PROVE Stored(d)
  BY <1>1, <1>2, <1>3, <1>4 DEF GeneratorOK, FromTable
<1> QED BY <1>4 DEF Stored

LEMMA YieldedFromTable ==
  ASSUME GeneratorOK, FromTable, current \in Entities, UNCHANGED rows,
         streams' = Append(streams, grouped[current])
  PROVE  \A i \in DOMAIN streams' : \A e \in Range(streams'[i]) : Stored(e)'
<1>1. grouped[current] \in Seq(Events) /\ streams \in Seq(Seq(Events))
  BY DEF GeneratorOK
<1>2. /\ Len(streams') = Len(streams) + 1 /\ streams' \in Seq(Seq(Events))
      /\ \A i \in 1..Len(streams) : streams'[i] = streams[i]
      /\ streams'[Len(streams) + 1] = grouped[current]
  BY <1>1, AppendProperties
<1>3. /\ Len(streams) \in Nat /\ DOMAIN streams = 1..Len(streams)
      /\ DOMAIN streams' = 1..Len(streams')
  BY <1>1, <1>2, LenProperties
<1>4. \A i \in DOMAIN streams' :
        \/ i \in DOMAIN streams /\ streams'[i] = streams[i]
        \/ streams'[i] = grouped[current]
  BY <1>2, <1>3
<1> QED BY <1>4 DEF FromTable, Stored

LEMMA FromTableStep ==
  ASSUME OnceInv, GeneratorInv, AsStored, FromTable, [Next]_vars
  PROVE  FromTable'
<1>1. /\ \A row \in Range(rows) : row \in Range(rows)'
      /\ UNCHANGED gen => FromTable'
  BY RowsGrow, StillThere
<1>2. GeneratorOK /\ OneGroup
  BY DEF GeneratorInv
<1>3. ASSUME \/ \E c \in EventClasses : Import(c)
             \/ \E e \in Events : Add(e) \/ AddFails(e) \/ AddRefused(e)
             \/ \E n \in Entities :
                  ListEvents(n) \/ \E v \in Range(Version) : EventStream(n, v)
             \/ UNCHANGED vars
      PROVE  UNCHANGED gen
  BY <1>3 DEF Import, Add, AddFails, AddRefused, MayAdd, ListEvents, EventStream, vars
<1>4. ASSUME StartStreams PROVE FromTable'
  <2>1. /\ \A i \in DOMAIN snapshot' : snapshot'[i] \in Range(rows)
        /\ UNCHANGED <<rows, grouped, streams>>
    BY <1>2, <1>4, SnapshotTaken DEF GeneratorOK, StartStreams, store
  <2> QED BY <2>1 DEF FromTable, Stored, Range
<1>5. ASSUME ReadRaises PROVE FromTable'
  BY <1>5 DEF ReadRaises, store, FromTable, Stored
<1>6. ASSUME ReadRow PROVE FromTable'
  <2>1. /\ at < Len(snapshot) /\ Collect(grouped)
        /\ UNCHANGED <<rows, snapshot, streams>>
    BY <1>6 DEF ReadRow, Readable, store
  <2>2. \A n \in Entities : \A e \in Range(grouped'[n]) : Stored(e)'
    BY <1>2, <2>1, CollectedFromTable
  <2> QED BY <2>1, <2>2 DEF FromTable, Stored
<1>7. ASSUME YieldGroup PROVE FromTable'
  <2>1. /\ current \in Entities
        /\ streams' = Append(streams, grouped[current])
        /\ UNCHANGED <<rows, snapshot, grouped>>
    BY <1>2, <1>7 DEF YieldGroup, EndsGroup, store, GeneratorOK
  <2>2. \A i \in DOMAIN streams' : \A e \in Range(streams'[i]) : Stored(e)'
    BY <1>2, <2>1, YieldedFromTable
  <2> QED BY <2>1, <2>2 DEF FromTable, Stored
<1>8. ASSUME Resume PROVE FromTable'
  <2> DEFINE groups == [grouped EXCEPT ![current] = <<>>]
             n == ThisEntity
             e == ThisRow.event
  <2>1. /\ at < Len(snapshot) /\ current \in Entities /\ Collect(groups)
        /\ UNCHANGED <<rows, snapshot, streams>>
    BY <1>2, <1>8 DEF Resume, OneGroup, store, GeneratorOK
  <2>2. n \in Entities /\ e \in Events /\ Stored(e)
    BY <1>2, <2>1, ThisRowType, ThisRowStored
  <2>3. groups \in [Entities -> Seq(Events)]
        /\ \A m \in Entities : groups[m] = <<>> \/ groups[m] = grouped[m]
    BY <1>2, <2>1, EmptySeq DEF GeneratorOK
  <2>4. grouped' = [groups EXCEPT ![n] = Append(groups[n], e)]
    BY <2>1 DEF Collect
  <2> HIDE DEF groups, n, e
  <2>5. DOMAIN <<>> = {}
    BY EmptySeq, LenProperties
  <2>6. \A m \in Entities : \A d \in Range(groups[m]) : Stored(d)
    BY <2>3, <2>5 DEF FromTable, Range
  <2>7. \A d \in Range(Append(groups[n], e)) : d \in Range(groups[n]) \/ d = e
    BY <2>2, <2>3, AppendRange
  <2>8. \A m \in Entities : \A d \in Range(grouped'[m]) : Stored(d)
    BY <2>2, <2>3, <2>4, <2>6, <2>7
  <2> QED BY <2>1, <2>8 DEF FromTable, Stored
<1>9. ASSUME End PROVE FromTable'
  <2>1. /\ streams' = IF current = None THEN streams
                      ELSE Append(streams, grouped[current])
        /\ UNCHANGED <<rows, snapshot, grouped>>
    BY <1>9 DEF End, store
  <2>2. \A i \in DOMAIN streams' : \A e \in Range(streams'[i]) : Stored(e)'
    BY <1>2, <2>1, YieldedFromTable DEF GeneratorOK, FromTable, Stored
  <2> QED BY <2>1, <2>2 DEF FromTable, Stored
<1>10. ASSUME Restart PROVE FromTable'
  <2>1. snapshot' = <<>> /\ streams' = <<>> /\ grouped' = [n \in Entities |-> <<>>]
    BY <1>10 DEF Restart
  <2>2. DOMAIN <<>> = {}
    BY EmptySeq, LenProperties
  <2> QED BY <2>1, <2>2 DEF FromTable, Range
<1> QED BY <1>1, <1>3, <1>4, <1>5, <1>6, <1>7, <1>8, <1>9, <1>10 DEF Next

LEMMA ReadStep ==
  OnceInv /\ GeneratorInv /\ ReadInv /\ [Next]_vars => ReadInv'
BY RowsGrow, FromTableStep, CataloguedStep DEF ReadInv

LEMMA ReadInit == Init => ReadInv
<1> SUFFICES ASSUME Init PROVE ReadInv
  OBVIOUS
<1>1. DOMAIN <<>> = {}
  BY EmptySeq, LenProperties
<1> QED BY <1>1, StoreAssumption DEF Init, ReadInv, AsStored, FromTable, Catalogued, Range

-----------------------------------------------------------------------------
(* Whoever asks for the events of an entity after they were streamed gets  *)
(* all that the streams had of it, or an exception: rows are never taken   *)
(* away, and list_events selects them all.                                 *)
THEOREM QueriesTellTheSame == Spec => QueriesAgreeWithStreams
<1> DEFINE Agrees ==
      listing' # None /\ listing'.version = None /\ listing'.ends # "raises"
        => \A e \in UNION {Range(streams[i]) : i \in DOMAIN streams} :
             EntityOf[e] = listing'.entity => e \in listing'.events
<1>1. ASSUME NEW n \in Entities, ReadInv, ListEvents(n)
      PROVE  Agrees
  <2>1. /\ listing'.entity = n
        /\ \/ listing'.ends = "raises"
           \/ listing'.events = {row.event : row \in RowsOf(n)}
    BY <1>1 DEF ListEvents, Rebuild, Answered
  <2> SUFFICES ASSUME NEW i \in DOMAIN streams, NEW e \in Range(streams[i]),
                      EntityOf[e] = n
               PROVE  e \in {row.event : row \in RowsOf(n)}
    BY <2>1
  <2>2. Stored(e)
    BY <1>1 DEF ReadInv, FromTable
  <2> QED BY <2>2 DEF Stored, RowsOf, Range
<1>2. ASSUME NEW n \in Entities, NEW v \in Range(Version), EventStream(n, v)
      PROVE  listing'.version # None
  BY <1>2, StoreAssumption DEF EventStream, Rebuild, Answered
<1>3. ASSUME \/ \E c \in EventClasses : Import(c)
             \/ \E e \in Events : Add(e) \/ AddFails(e) \/ AddRefused(e)
             \/ StartStreams \/ ReadRaises \/ ReadRow \/ YieldGroup \/ Resume \/ End
             \/ Restart
      PROVE  listing' = None
  BY <1>3 DEF Import, Add, AddFails, AddRefused, MayAdd, StartStreams, ReadRaises,
              ReadRow, YieldGroup, Resume, End, Restart
<1>4. OnceInv /\ GeneratorInv /\ ReadInv /\ [Next]_vars => [Agrees]_vars
  BY <1>1, <1>2, <1>3 DEF Next
<1> QED BY <1>4, OnceInit, OnceStep, GeneratorInit, GeneratorStep, ReadInit, ReadStep, PTL
        DEF Spec, QueriesAgreeWithStreams

-----------------------------------------------------------------------------
(* No two classes are looked up by one id.                                 *)
OneIdPerClass ==
  \A c, d \in EventClasses : TypeId[c] = TypeId[d] => c = d

LEMMA BuiltByItsClass ==
  ASSUME OneIdPerClass, Catalogued, NEW known, NEW row,
         \A id \in DOMAIN known : known[id] \in imported /\ TypeId[known[id]] = id,
         RowId(row) \in DOMAIN known
  PROVE  CanBuild(known, row) <=> BuildableNow(row)
<1> DEFINE c == known[RowId(row)]
<1>1. c \in imported /\ TypeId[c] = RowId(row)
  OBVIOUS
<1>2. \A d \in imported : TypeId[d] = RowId(row) => d = c
  BY <1>1 DEF OneIdPerClass, Catalogued
<1>3. CanBuild(known, row) <=> Rebuilds(c, row.body)
  BY DEF CanBuild
<1> QED BY <1>1, <1>2, <1>3 DEF BuildableNow

(* A registry that knows the id, and one that was just refreshed, give the *)
(* same answer.                                                            *)
LEMMA LookedUp ==
  ASSUME OneIdPerClass, Catalogued, NEW row
  PROVE  /\ RowId(row) \in DOMAIN types
              => (CanBuild(types, row) <=> BuildableNow(row))
         /\ CanBuild(Refreshed, row) <=> BuildableNow(row)
<1>1. CanBuild(Refreshed, row) <=> BuildableNow(row)
  <2>1. CASE RowId(row) \in DOMAIN Refreshed
    BY <2>1, BuiltByItsClass, RefreshedCatalogues
  <2>2. CASE RowId(row) \notin DOMAIN Refreshed
    <3>1. \A c \in imported : TypeId[c] # RowId(row)
      BY <2>2, RefreshedCatalogues
    <3> QED BY <2>2, <3>1 DEF BuildableNow, CanBuild
  <2> QED BY <2>1, <2>2
<1>2. RowId(row) \in DOMAIN types => (CanBuild(types, row) <=> BuildableNow(row))
  BY BuiltByItsClass DEF Catalogued
<1> QED BY <1>1, <1>2

LEMMA RowLooked ==
  ASSUME OneIdPerClass, Catalogued, NEW row, types' = Lookup(RowId(row))
  PROVE  CanBuild(types', row) <=> BuildableNow(row)
<1>1. CASE RowId(row) \in DOMAIN types
  BY <1>1, LookedUp DEF Lookup
<1>2. CASE RowId(row) \notin DOMAIN types
  BY <1>2, LookedUp DEF Lookup
<1> QED BY <1>1, <1>2

(* A query may stop before it refreshes the registry, at a row that cannot *)
(* be built either way.                                                    *)
LEMMA RebuiltOrNot ==
  ASSUME OneIdPerClass, Catalogued, NEW n, NEW v, NEW selected,
         Rebuild(n, v, selected)
  PROVE  /\ listing'.entity = n
         /\ listing'.ends = "raises" <=> \E row \in selected : ~ BuildableNow(row)
<1>1. /\ listing'.entity = n
      /\ listing'.ends = "raises" <=> \E row \in selected : ~ CanBuild(types', row)
  BY DEF Rebuild, Answered
<1>2. CASE \A row \in selected : BuildableNow(row)
  <2>1. \A row \in selected : RowId(row) \in DOMAIN types => CanBuild(types, row)
    BY <1>2, LookedUp
  <2>2. types' = IF \E row \in selected : RowId(row) \notin DOMAIN types
                 THEN Refreshed ELSE types
    BY <2>1 DEF Rebuild
  <2>3. \A row \in selected : CanBuild(types', row)
    BY <1>2, <2>1, <2>2, LookedUp
  <2> QED BY <1>1, <1>2, <2>3
<1>3. ASSUME NEW row \in selected, ~ BuildableNow(row) PROVE ~ CanBuild(types', row)
  <2>1. types' = types \/ types' = Refreshed
    BY DEF Rebuild
  <2>2. ~ CanBuild(types, row) /\ ~ CanBuild(Refreshed, row)
    BY <1>3, LookedUp DEF CanBuild
  <2> QED BY <2>1, <2>2
<1> QED BY <1>1, <1>2, <1>3

(* The registry is a cache that nobody can tell from its absence: where no *)
(* two classes are looked up by one id, whether a row is read depends on   *)
(* the classes imported by then and on its body, not on when the registry  *)
(* was refreshed nor on what was read before.                              *)
THEOREM RegistryIsTransparent ==
  ASSUME OneIdPerClass PROVE Spec => ReadsWhatIsImported
<1> DEFINE Reads ==
      /\ reader = "reading" /\ reader' = "raised" => ~ BuildableNow(ThisRow)
      /\ reader = "reading" /\ (at' = at + 1 \/ reader' = "yielded")
           => BuildableNow(ThisRow)
      /\ listing' # None =>
           (listing'.ends = "raises"
              <=> \E row \in RowsOf(listing'.entity) : ~ BuildableNow(row))
<1>1. ASSUME GeneratorInv, ReadInv, ReadRaises \/ ReadRow \/ YieldGroup PROVE Reads
  <2>1. Catalogued /\ listing' = None /\ types' = Lookup(RowId(ThisRow))
    BY <1>1 DEF ReadInv, ReadRaises, ReadRow, YieldGroup, Readable
  <2>2. CanBuild(types', ThisRow) <=> BuildableNow(ThisRow)
    BY <2>1, RowLooked
  <2>3. at \in Nat
    BY <1>1 DEF GeneratorInv, GeneratorOK
  <2> QED BY <1>1, <2>1, <2>2, <2>3 DEF ReadRaises, ReadRow, YieldGroup, Readable
<1>2. ASSUME GeneratorInv, ReadInv, NEW n \in Entities,
             ListEvents(n) \/ \E v \in Range(Version) : EventStream(n, v)
      PROVE  Reads
  <2>1. Catalogued /\ UNCHANGED <<reader, at>> /\ at \in Nat
    BY <1>2 DEF ReadInv, GeneratorInv, GeneratorOK, ListEvents, EventStream, gen
  <2>2. \/ \E v : Rebuild(n, v, RowsOf(n))
        \/ \E v : RowsOf(n) = {} /\ Answered(n, v, "None", {})
    BY <1>2 DEF ListEvents, EventStream
  <2>3. ASSUME NEW v, Rebuild(n, v, RowsOf(n)) PROVE Reads
    BY <2>1, <2>3, RebuiltOrNot
  <2>4. ASSUME NEW v, RowsOf(n) = {}, Answered(n, v, "None", {}) PROVE Reads
    BY <2>1, <2>4 DEF Answered
  <2> QED BY <2>2, <2>3, <2>4
<1>3. ASSUME GeneratorInv,
             \/ \E c \in EventClasses : Import(c)
             \/ \E e \in Events : Add(e) \/ AddFails(e) \/ AddRefused(e)
             \/ StartStreams \/ Resume \/ End \/ Restart
      PROVE  Reads
  <2>1. at \in Nat
    BY <1>3 DEF GeneratorInv, GeneratorOK
  <2>2. listing' = None /\ (reader = "reading" =>
           reader' \notin {"raised", "yielded"} /\ at' \in {at, 0})
    BY <1>3 DEF Import, Add, AddFails, AddRefused, MayAdd, StartStreams, Resume, End,
                Restart, gen
  <2> QED BY <2>1, <2>2
<1>4. OnceInv /\ GeneratorInv /\ ReadInv /\ [Next]_vars => [Reads]_vars
  BY <1>1, <1>2, <1>3 DEF Next
<1> QED BY <1>4, OnceInit, OnceStep, GeneratorInit, GeneratorStep, ReadInit, ReadStep, PTL
        DEF Spec, ReadsWhatIsImported

-----------------------------------------------------------------------------
(* Types: the rows hold fields of their classes, attempts and restarts are *)
(* counted, and what a query answers is about the events.                  *)
ListingOK ==
  listing \in
    [entity: Entities, version: Range(Version) \cup {None},
     ends: {"list", "None", "raises"}, events: SUBSET Events] \cup {None}

CountsOK ==
  /\ tries = [e \in Events |-> tries[e]]
  /\ \A e \in Events : tries[e] \in 0..MaxTries[e]
  /\ restarts \in 0..MaxRestarts

StoreInv == OnceInv /\ GeneratorInv /\ ReadInv /\ ListingOK /\ CountsOK

LEMMA BodyHasFields ==
  ASSUME NEW c \in EventClasses
  PROVE  BodyOf(c) \subseteq Range(Fields[c])
<1>1. /\ Fields[c] \in Seq(Range(Fields[c])) /\ Len(Fields[c]) \in Nat
      /\ DOMAIN Fields[c] = 1..Len(Fields[c])
  BY ModelAssumption, LenProperties
<1>2. Cardinality(BaseFields) \in Nat
  BY ModelAssumption, FS_CardinalityType
<1>3. \A i \in 1..Len(Fields[c]) - Cardinality(BaseFields) : i \in DOMAIN Fields[c]
  BY <1>1, <1>2
<1> QED BY <1>3 DEF BodyOf, Range

LEMMA RowsHaveTypes == AnyRow \subseteq Row
<1> SUFFICES ASSUME NEW r \in AnyRow PROVE r \in Row
  OBVIOUS
<1>1. PICK c \in EventClasses : r.body = BodyOf(c)
  BY DEF AnyRow
<1>2. r.body \subseteq UNION {Range(Fields[d]) : d \in EventClasses}
  BY <1>1, BodyHasFields
<1> QED BY <1>2 DEF AnyRow, Row

LEMMA StoreInvTypes == StoreInv => TypeOK
<1> SUFFICES ASSUME StoreInv PROVE TypeOK
  OBVIOUS
<1>1. Seq(AnyRow) \subseteq Seq(Row)
  BY RowsHaveTypes, SeqDef
<1>2. rows \in Seq(Row) /\ snapshot \in Seq(Row) /\ GeneratorOK
  BY <1>1 DEF StoreInv, GeneratorInv, GeneratorOK
<1> QED BY <1>2 DEF StoreInv, OnceInv, TableOK, GeneratorOK, ReadInv, Catalogued,
                    ListingOK, CountsOK, TypeOK

LEMMA ListingStep ==
  ASSUME StoreInv, [Next]_vars
  PROVE  ListingOK'
<1>1. \A i \in DOMAIN rows : rows[i].event \in Events
  <2>1. rows \in Seq(AnyRow)
    BY DEF StoreInv, OnceInv, TableOK
  <2>2. \A i \in DOMAIN rows : rows[i] \in AnyRow
    BY <2>1, LenProperties, ElementOfSeq
  <2> QED BY <2>2 DEF AnyRow
<1>2. ASSUME NEW n \in Entities, NEW v \in Range(Version) \cup {None},
             NEW selected, selected \subseteq RowsOf(n), Rebuild(n, v, selected)
      PROVE  ListingOK'
  <2>1. {row.event : row \in selected} \subseteq Events
    BY <1>1, <1>2 DEF RowsOf, Range
  <2> QED BY <1>2, <2>1 DEF Rebuild, Answered, ListingOK
<1>3. ASSUME NEW n \in Entities, ListEvents(n) PROVE ListingOK'
  BY <1>2, <1>3 DEF ListEvents
<1>4. ASSUME NEW n \in Entities, NEW v \in Range(Version), EventStream(n, v)
      PROVE  ListingOK'
  <2>1. CASE RowsOf(n) = {}
    BY <1>4, <2>1 DEF EventStream, Answered, ListingOK
  <2>2. CASE RowsOf(n) # {}
    BY <1>2, <1>4, <2>2 DEF EventStream
  <2> QED BY <2>1, <2>2
<1>5. ASSUME listing' = None \/ UNCHANGED listing PROVE ListingOK'
  BY <1>5 DEF StoreInv, ListingOK
<1>6. ASSUME \/ \E c \in EventClasses : Import(c)
             \/ \E e \in Events : Add(e) \/ AddFails(e) \/ AddRefused(e)
             \/ StartStreams \/ ReadRaises \/ ReadRow \/ YieldGroup \/ Resume \/ End
             \/ Restart \/ UNCHANGED vars
      PROVE  listing' = None \/ UNCHANGED listing
  BY <1>6 DEF Import, Add, AddFails, AddRefused, MayAdd, StartStreams, ReadRaises,
              ReadRow, YieldGroup, Resume, End, Restart, vars
<1> QED BY <1>3, <1>4, <1>5, <1>6 DEF Next

LEMMA CountsStep ==
  ASSUME StoreInv, [Next]_vars
  PROVE  CountsOK'
<1>1. /\ tries = [e \in Events |-> tries[e]]
      /\ \A e \in Events : tries[e] \in 0..MaxTries[e] /\ MaxTries[e] \in Nat
      /\ restarts \in 0..MaxRestarts /\ MaxRestarts \in Nat
  BY StoreAssumption DEF StoreInv, CountsOK
<1>2. ASSUME NEW e \in Events, Add(e) \/ AddFails(e) \/ AddRefused(e)
      PROVE  CountsOK'
  <2>1. /\ tries[e] < MaxTries[e] /\ tries' = [tries EXCEPT ![e] = tries[e] + 1]
        /\ restarts' = restarts
    BY <1>2 DEF Add, AddFails, AddRefused, MayAdd
  <2>2. tries' = [d \in Events |-> IF d = e THEN tries[e] + 1 ELSE tries[d]]
    BY <1>1, <2>1
  <2>3. tries[e] + 1 \in 0..MaxTries[e]
    BY <1>1, <2>1
  <2> QED BY <1>1, <2>1, <2>2, <2>3 DEF CountsOK
<1>3. ASSUME Restart PROVE CountsOK'
  BY <1>1, <1>3 DEF Restart, CountsOK
<1>4. ASSUME \/ \E c \in EventClasses : Import(c)
             \/ \E n \in Entities :
                  ListEvents(n) \/ \E v \in Range(Version) : EventStream(n, v)
             \/ StartStreams \/ ReadRaises \/ ReadRow \/ YieldGroup \/ Resume \/ End
             \/ UNCHANGED vars
      PROVE  UNCHANGED <<tries, restarts>>
  BY <1>4 DEF Import, ListEvents, EventStream, StartStreams, ReadRaises, ReadRow,
              YieldGroup, Resume, End, vars, store
<1>5. ASSUME UNCHANGED <<tries, restarts>> PROVE CountsOK'
  BY <1>1, <1>5 DEF CountsOK
<1> QED BY <1>2, <1>3, <1>4, <1>5 DEF Next

LEMMA StoreInvInit == Init => StoreInv
<1> SUFFICES ASSUME Init PROVE StoreInv
  OBVIOUS
<1>1. ListingOK /\ CountsOK
  BY StoreAssumption DEF Init, ListingOK, CountsOK
<1> QED BY <1>1, OnceInit, GeneratorInit, ReadInit DEF StoreInv

(* The table holds rows of known classes and no others, the reader holds   *)
(* groups of events by entity, the registry names imported classes only.   *)
THEOREM StoreTypes == Spec => []TypeOK
<1>1. StoreInv /\ [Next]_vars => StoreInv'
  BY OnceStep, GeneratorStep, ReadStep, ListingStep, CountsStep DEF StoreInv
<1> QED BY <1>1, StoreInvInit, StoreInvTypes, PTL DEF Spec
=============================================================================
