----------------------------- MODULE EventStore -----------------------------
(***************************************************************************)
(* EventStore (anywise/messages/eventstore.py) over EventTable             *)
(* (anywise/messages/table.py): events are normalized into rows, each in a *)
(* transaction of its own, and read back as events, one entity at a time   *)
(* or as a generator of streams.  A row names its class by a type id,      *)
(* which get_event_cls (anywise/messages/model.py) looks up among the      *)
(* classes that have been imported by then.                                *)
(*                                                                         *)
(* The database commits or rolls back a transaction as a whole; the answer *)
(* may be lost, and a caller that saw an exception may add the same event  *)
(* again.  A statement reads the rows as they are when it begins, in an    *)
(* order of the database's own: none is asked for.                         *)
(***************************************************************************)
EXTENDS EventModel

CONSTANTS
  Events,       \* the events that are added
  Entities,
  EntityOf,     \* the entity of each event
  ClassOf,      \* the class of each event
  StoredId,     \* deafult_typeid of each class: what its rows carry
  TypeId,       \* __type_id__() of each class: what it is looked up by
  Version,      \* __version__ of each class
  Imported,     \* the classes that are imported at the start
  None,
  MaxTries,     \* bound on the attempts to add each event
  MaxRestarts   \* bound on the restarts of the process

ASSUME StoreAssumption ==
  /\ EntityOf \in [Events -> Entities] /\ None \notin Entities
  /\ ClassOf \in [Events -> EventClasses]
  /\ DOMAIN StoredId = EventClasses /\ DOMAIN TypeId = EventClasses
  /\ DOMAIN Version = EventClasses
  /\ None \notin Range(Version) /\ Imported \subseteq EventClasses
  /\ MaxTries \in [Events -> Nat] /\ MaxRestarts \in Nat

VARIABLES
  rows,      \* the rows of EventTable: the event and the fields in its body
  tries,     \* how often each event was added
  answer,    \* what the caller of add knows
  imported,  \* the event classes that exist
  types,     \* __EventTypeRegistry__
  reader,    \* where all_event_streams is
  snapshot,  \* the rows its statement reads
  at,        \* how many of them it has read
  current,   \* its current_id
  grouped,   \* its groups of events by entity
  streams,   \* what it has yielded
  listing,   \* what the last step returned, if it was a query of one entity
  restarts   \* how often the process was restarted

store == <<rows, tries, answer>>
gen   == <<reader, snapshot, at, current, grouped, streams>>
vars  == <<store, imported, types, gen, listing, restarts>>

Row == [event: Events, body: SUBSET UNION {Range(Fields[c]) : c \in EventClasses}]

TypeOK ==
  /\ rows \in Seq(Row)
  /\ \A e \in Events : tries[e] \in 0..MaxTries[e]
  /\ answer \in [Events -> {"none", "added", "unsure", "IntegrityError"}]
  /\ imported \subseteq EventClasses
  /\ \A id \in DOMAIN types : types[id] \in imported
  /\ reader \in {"idle", "reading", "yielded", "done", "raised"}
  /\ snapshot \in Seq(Row)
  /\ at \in 0..Len(snapshot)
  /\ current \in Entities \cup {None}
  /\ grouped \in [Entities -> Seq(Events)]
  /\ streams \in Seq(Seq(Events))
  /\ listing \in
       [entity: Entities, version: Range(Version) \cup {None},
        ends: {"list", "None", "raises"}, events: SUBSET Events] \cup {None}
  /\ restarts \in 0..MaxRestarts

-----------------------------------------------------------------------------
Stored(e) == \E i \in DOMAIN rows : rows[i].event = e

(* A module with event classes is imported.                                *)
Import(c) ==
  /\ c \notin imported
  /\ imported' = imported \cup {c}
  /\ listing' = None
  /\ UNCHANGED <<store, types, gen, restarts>>

MayAdd(e) ==
  /\ ClassOf[e] \in imported
  /\ tries[e] < MaxTries[e]
  /\ answer[e] \in {"none", "unsure"}
  /\ tries' = [tries EXCEPT ![e] = @ + 1]
  /\ listing' = None
  /\ UNCHANGED <<imported, types, gen, restarts>>

AddAgain(e) ==
  /\ MayAdd(e)
  /\ rows' = Append(rows, [event |-> e, body |-> BodyOf(ClassOf[e])])
  /\ \E a \in {"added", "unsure"} : answer' = [answer EXCEPT ![e] = a]

(* EventStore.add: the insertion is committed, and the caller may or may   *)
(* not get to know.                                                        *)
Add(e) ==
  /\ MayAdd(e)
  /\ ~ Stored(e)
  /\ rows' = Append(rows, [event |-> e, body |-> BodyOf(ClassOf[e])])
  /\ \E a \in {"added", "unsure"} : answer' = [answer EXCEPT ![e] = a]

(* It is rolled back.                                                      *)
AddFails(e) ==
  /\ MayAdd(e)
  /\ answer' = [answer EXCEPT ![e] = "unsure"]
  /\ rows' = rows

(* event_id is unique: the event of an earlier attempt is there.           *)
AddRefused(e) ==
  /\ MayAdd(e)
  /\ Stored(e)
  /\ answer' = [answer EXCEPT ![e] = "IntegrityError"]
  /\ rows' = rows

-----------------------------------------------------------------------------
(* get_event_cls: a miss refreshes the registry with all subclasses.       *)
Refreshed ==
  [id \in DOMAIN types \cup {TypeId[c] : c \in imported} |->
     IF \E c \in imported : TypeId[c] = id
     THEN CHOOSE c \in imported : TypeId[c] = id ELSE types[id]]

LookupOnce(id) == IF types = <<>> THEN Refreshed ELSE types

Lookup(id) == IF id \in DOMAIN types THEN types ELSE Refreshed

(* mapping_to_event(row) with the registry `known' after the lookup: it     *)
(* raises if the id is not known, or if the arguments are not those of the *)
(* class.                                                                  *)
RowId(row) == StoredId[ClassOf[row.event]]

CanBuild(known, row) ==
  RowId(row) \in DOMAIN known /\ Rebuilds(known[RowId(row)], row.body)

RowsOf(n) == {row \in Range(rows) : EntityOf[row.event] = n}

Answered(n, version, ends, events) ==
  listing' = [entity |-> n, version |-> version, ends |-> ends, events |-> events]

(* The rows are rebuilt one after the other, in whatever order.  The first *)
(* that misses an id refreshes the registry for all, unless one before it  *)
(* could not be built.                                                     *)
Rebuild(n, version, selected) ==
  LET misses == \E row \in selected : RowId(row) \notin DOMAIN types
      fails  == \E row \in selected :
                  RowId(row) \in DOMAIN types /\ ~ CanBuild(types, row)
  IN  /\ types' \in (IF misses THEN {Refreshed} ELSE {types})
                     \cup (IF fails THEN {types} ELSE {})
      /\ IF \A row \in selected : CanBuild(types', row)
         THEN Answered(n, version, "list", {row.event : row \in selected})
         ELSE Answered(n, version, "raises", {})

ListOneVersion(n) ==
  /\ \E v \in Range(Version) :
       Rebuild(n, None, {row \in RowsOf(n) : Version[ClassOf[row.event]] = v})
  /\ UNCHANGED <<store, imported, gen, restarts>>

(* EventStore.list_events.                                                 *)
ListEvents(n) ==
  /\ Rebuild(n, None, RowsOf(n))
  /\ UNCHANGED <<store, imported, gen, restarts>>

(* EventStore.event_stream: `and' between two conditions on columns gives  *)
(* the first one, so the version selects nothing.                          *)
EventStream(n, version) ==
  /\ IF RowsOf(n) = {} THEN types' = types /\ Answered(n, version, "None", {})
     ELSE Rebuild(n, version, RowsOf(n))
  /\ UNCHANGED <<store, imported, gen, restarts>>

StartStreams ==
  /\ reader = "idle"
  /\ reader' = "reading"
  /\ \E order \in Bijection(DOMAIN rows, DOMAIN rows) :
       snapshot' = [i \in DOMAIN rows |-> rows[order[i]]]
  /\ listing' = None
  /\ UNCHANGED <<store, imported, types, at, current, grouped, streams, restarts>>

ThisRow == snapshot[at + 1]

ThisEntity == EntityOf[ThisRow.event]

ReadRaises ==
  /\ reader = "reading"
  /\ at < Len(snapshot)
  /\ types' = Lookup(RowId(ThisRow))
  /\ ~ CanBuild(types', ThisRow)
  /\ reader' = "raised"
  /\ listing' = None
  /\ UNCHANGED <<store, imported, snapshot, at, current, grouped, streams, restarts>>

Readable ==
  /\ at < Len(snapshot)
  /\ types' = Lookup(RowId(ThisRow))
  /\ CanBuild(types', ThisRow)

EndsGroup == current # None /\ current # ThisEntity

CollectAndSkip(groups) ==
  /\ current' = ThisEntity
  /\ grouped' = [groups EXCEPT ![ThisEntity] = Append(@, ThisRow.event)]
  /\ at' = at + 2

Collect(groups) ==
  /\ current' = ThisEntity
  /\ grouped' = [groups EXCEPT ![ThisEntity] = Append(@, ThisRow.event)]
  /\ at' = at + 1

(* grouped[e.entity_id].append(e)                                          *)
ReadRow ==
  /\ reader = "reading"
  /\ Readable
  /\ ~ EndsGroup
  /\ Collect(grouped)
  /\ listing' = None
  /\ UNCHANGED <<store, imported, reader, snapshot, streams, restarts>>

(* yield grouped[current_id]: the generator is suspended, and may never be *)
(* resumed.                                                                *)
YieldGroup ==
  /\ reader = "reading"
  /\ Readable
  /\ EndsGroup
  /\ streams' = Append(streams, grouped[current])
  /\ reader' = "yielded"
  /\ listing' = None
  /\ UNCHANGED <<store, imported, snapshot, at, current, grouped, restarts>>

ResumeWithoutDel ==
  /\ reader = "yielded"
  /\ Collect(grouped)
  /\ reader' = "reading"
  /\ listing' = None
  /\ UNCHANGED <<store, imported, types, snapshot, streams, restarts>>

(* del grouped[current_id], then the event that ended the group.           *)
Resume ==
  /\ reader = "yielded"
  /\ Collect([grouped EXCEPT ![current] = <<>>])
  /\ reader' = "reading"
  /\ listing' = None
  /\ UNCHANGED <<store, imported, types, snapshot, streams, restarts>>

EndWithoutLast ==
  /\ reader = "reading"
  /\ at = Len(snapshot)
  /\ reader' = "done"
  /\ listing' = None
  /\ UNCHANGED <<store, imported, types, snapshot, at, current, grouped, streams, restarts>>

(* The final group is yielded after the loop.                              *)
End ==
  /\ reader = "reading"
  /\ at = Len(snapshot)
  /\ streams' = IF current = None THEN streams ELSE Append(streams, grouped[current])
  /\ reader' = "done"
  /\ listing' = None
  /\ UNCHANGED <<store, imported, types, snapshot, at, current, grouped, restarts>>

-----------------------------------------------------------------------------
Init ==
  /\ rows = <<>>
  /\ tries = [e \in Events |-> 0]
  /\ answer = [e \in Events |-> "none"]
  /\ imported = Imported
  /\ types = <<>>
  /\ reader = "idle"
  /\ snapshot = <<>>
  /\ at = 0
  /\ current = None
  /\ grouped = [n \in Entities |-> <<>>]
  /\ streams = <<>>
  /\ listing = None
  /\ restarts = 0

(* The process is restarted: the rows are all that is left, and whoever    *)
(* added an event is in doubt.                                             *)
Restart ==
  /\ restarts < MaxRestarts
  /\ restarts' = restarts + 1
  /\ answer' = [e \in Events |-> IF tries[e] = 0 THEN "none" ELSE "unsure"]
  /\ imported' = Imported
  /\ types' = <<>>
  /\ reader' = "idle"
  /\ snapshot' = <<>>
  /\ at' = 0
  /\ current' = None
  /\ grouped' = [n \in Entities |-> <<>>]
  /\ streams' = <<>>
  /\ listing' = None
  /\ UNCHANGED <<rows, tries>>

Next ==
  \/ \E c \in EventClasses : Import(c)
  \/ \E e \in Events : Add(e) \/ AddFails(e) \/ AddRefused(e)
  \/ \E n \in Entities :
       ListEvents(n) \/ \E v \in Range(Version) : EventStream(n, v)
  \/ StartStreams \/ ReadRaises \/ ReadRow \/ YieldGroup \/ Resume \/ End
  \/ Restart

Spec == Init /\ [][Next]_vars

-----------------------------------------------------------------------------
(* However often an event is added again, because its caller was left in   *)
(* doubt, it is in the table once; and what the caller was told is true.   *)
StoredOnce ==
  /\ \A i, j \in DOMAIN rows : rows[i].event = rows[j].event => i = j
  /\ \A e \in Events : answer[e] \in {"added", "IntegrityError"} => Stored(e)

(* The streams, one after the other, are the rows as they were when the    *)
(* reader began, none lost at the end of a group or of the table, none     *)
(* twice, in the order the database gave them: adding goes on meanwhile.   *)
StreamsAreTheRows ==
  LET read == [i \in 1..at |-> snapshot[i].event]
      open == IF reader = "reading" /\ current # None THEN grouped[current] ELSE <<>>
  IN  IF reader = "raised"
      THEN IsPrefix(FlattenSeq(streams), read)
      ELSE FlattenSeq(streams) \o open = read

(* A stream is a run of events of one entity, and the next one belongs to  *)
(* another: the reader holds one group at a time.                          *)
OneEntityPerStream ==
  /\ \A i \in DOMAIN streams :
       /\ streams[i] # <<>>
       /\ \A e \in Range(streams[i]) : EntityOf[e] = EntityOf[streams[i][1]]
       /\ i > 1 => EntityOf[streams[i][1]] # EntityOf[streams[i - 1][1]]
  /\ reader = "reading" => \A n \in Entities \ {current} : grouped[n] = <<>>

(* What is read of a row depends on the classes that are imported by then  *)
(* and on nothing else: not on when the registry was refreshed, not on     *)
(* what was read before, not on the rows of other entities.  A row that an *)
(* imported class fits is read, any other stops its reader.                *)
BuildableNow(row) ==
  \E c \in imported : TypeId[c] = RowId(row) /\ Rebuilds(c, row.body)

ReadsWhatIsImported ==
  [][/\ reader = "reading" /\ reader' = "raised" => ~ BuildableNow(ThisRow)
     /\ reader = "reading" /\ (at' = at + 1 \/ reader' = "yielded")
          => BuildableNow(ThisRow)
     /\ listing' # None =>
          (listing'.ends = "raises"
             <=> \E row \in RowsOf(listing'.entity) : ~ BuildableNow(row))]_vars

(* Whoever lists all events of an entity after they were streamed gets all *)
(* that the streams had of it, or an exception: the query and the          *)
(* generator tell one history.                                             *)
QueriesAgreeWithStreams ==
  [][listing' # None /\ listing'.version = None /\ listing'.ends # "raises"
       => \A e \in UNION {Range(streams[i]) : i \in DOMAIN streams} :
            EntityOf[e] = listing'.entity => e \in listing'.events]_vars

(* What event_stream(entity, version) asks for: the events of the entity   *)
(* that have the version.  These are what it returns, if their classes are *)
(* imported, whatever id a class goes by (the docstring of __type_id__     *)
(* lets it go by another), and whatever there is of other versions.        *)
StreamIsOfVersion ==
  [][listing' # None /\ listing'.version # None =>
       LET asked == {row \in RowsOf(listing'.entity) :
                       Version[ClassOf[row.event]] = listing'.version}
       IN  (\A row \in asked : ClassOf[row.event] \in imported)
             => /\ listing'.ends # "raises"
                /\ listing'.events = {row.event : row \in asked}]_vars
=============================================================================
