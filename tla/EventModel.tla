----------------------------- MODULE EventModel -----------------------------
(***************************************************************************)
(* How an event becomes the body of a row and a row an event again:        *)
(* __normalized__ (anywise/messages/model.py) and mapping_to_event         *)
(* (anywise/messages/table.py).  A class is its fields, in the order in    *)
(* which the library of models lists them: the own ones before those of    *)
(* the base for a msgspec class that is not keyword-only, and after them   *)
(* for one that is, and for every pydantic class.                          *)
(***************************************************************************)
EXTENDS Naturals, Sequences, FiniteSets, SequencesExt

CONSTANTS
  EventClasses,
  Fields,       \* the fields of each class, in that order
  BaseFields    \* those of the event base class

ASSUME ModelAssumption ==
  /\ \A c \in EventClasses :
       Fields[c] \in Seq(Range(Fields[c])) /\ BaseFields \subseteq Range(Fields[c])
  /\ IsFiniteSet(BaseFields)

(* __normalized__: all fields but the last few, as many as the base has,   *)
(* are taken for the fields of the class itself.                           *)
BodyOf(c) ==
  {Fields[c][i] : i \in 1..Len(Fields[c]) - Cardinality(BaseFields)}

(* mapping_to_event passes the base fields from their columns and the body *)
(* as keyword arguments: none may be missing, none may come twice.         *)
Rebuilds(c, body) ==
  body \cap BaseFields = {} /\ body \cup BaseFields = Range(Fields[c])
=============================================================================
