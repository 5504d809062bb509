---------------------------- MODULE MCEventStore ----------------------------
(***************************************************************************)
(* A small instance of EventStore: the events of two todos, of a class     *)
(* imported at the start, of one that is imported later, and of one that   *)
(* was renamed and overrides __type_id__.  The fields of a class come      *)
(* before those of its base, as msgspec orders them for a subclass that is *)
(* not keyword-only.                                                       *)
(***************************************************************************)
EXTENDS EventStore, TLC

CONSTANTS e1, e2, e3, e4, todo1, todo2, Created, Retitled, Renamed,
          title, entity_id, event_id, timestamp

MCEntityOf == [e \in Events |-> IF e \in {e1, e3} THEN todo1 ELSE todo2]
MCClassOf  == [e \in Events |-> CASE e = e3 -> Retitled
                                 [] e = e4 -> Renamed
                                 [] OTHER -> Created]

MCStoredId == Created :> "created" @@ Retitled :> "retitled" @@ Renamed :> "renamed"
MCTypeId   == Created :> "created" @@ Retitled :> "retitled" @@ Renamed :> "old"

(* The class of the retitlings was changed and given a version.            *)
MCVersion  == Created :> "1" @@ Retitled :> "2" @@ Renamed :> "1"

(* The first event of all may be added again.                              *)
MCTries == [e \in Events |-> IF e = e1 THEN 2 ELSE 1]

MCFields ==
  [c \in EventClasses |-> <<title, entity_id, event_id, timestamp>>]
=============================================================================
