--------------------------- MODULE MCTodoService ----------------------------
(***************************************************************************)
(* A small instance of TodoService: two todos, one of which is created     *)
(* again with the same id by a client that was left in doubt and is        *)
(* renamed twice, and a list.  The fields of an event are listed as        *)
(* msgspec does it, where only that is installed, or as pydantic does it,  *)
(* which comes with FastAPI and is then preferred.                         *)
(***************************************************************************)
EXTENDS TodoService, TLC

CONSTANTS c1, c2, c3, r1, r2, l1, milk, bread, old, new, newer,
          title_field, content_field, entity_id, event_id, timestamp

MCKind ==
  c1 :> "CreateTodo" @@ c2 :> "CreateTodo" @@ c3 :> "CreateTodo"
    @@ r1 :> "RenameTodo" @@ r2 :> "RenameTodo" @@ l1 :> "ListTodos"

MCTodoOf ==
  c1 :> milk @@ c2 :> milk @@ c3 :> bread @@ r1 :> milk @@ r2 :> milk @@ l1 :> milk

MCTitleOf ==
  c1 :> old @@ c2 :> old @@ c3 :> old @@ r1 :> new @@ r2 :> newer @@ l1 :> old

Base == <<entity_id, event_id, timestamp>>

MCFieldsMsgspec ==
  [TodoCreated |-> <<title_field, content_field>> \o Base,
   TodoRetitled |-> <<title_field>> \o Base]

MCFieldsPydantic ==
  [TodoCreated |-> Base \o <<title_field, content_field>>,
   TodoRetitled |-> Base \o <<title_field>>]
=============================================================================
