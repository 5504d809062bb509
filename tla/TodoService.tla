---------------------------- MODULE TodoService -----------------------------
(***************************************************************************)
(* The todo application (demo/todo.py): TodoService handles the commands   *)
(* that demo/api.py sends, over the table of todos and the table of        *)
(* events.  A command changes the row, stores its event and publishes it   *)
(* in three steps, the first two of them transactions of their own.        *)
(* list_events, which only reads the events of one todo, is left to        *)
(* EventStore.                                                             *)
(*                                                                         *)
(* The requests are coroutines that may interleave at every transaction.   *)
(* A transaction may be rolled back, or be committed and its answer lost;  *)
(* the process may stop at any moment and start anew, the tables remain.   *)
(* Events are stored and read as EventStore does it, by way of the bodies  *)
(* of EventModel; both classes are imported, and SQLite returns the rows   *)
(* of a table in the order in which they were inserted.                    *)
(***************************************************************************)
EXTENDS EventModel

CONSTANTS
  Requests,   \* the commands that are sent
  Kind,       \* the class of each command
  Todos,      \* todo ids
  TodoOf,     \* the todo each command names
  Titles,
  TitleOf,    \* the title in each command
  None,
  MaxFaults   \* bound on failed transactions, lost answers and restarts

Kinds == {"CreateTodo", "RenameTodo", "ListTodos"}

ASSUME TodoAssumption ==
  /\ Kind \in [Requests -> Kinds]
  /\ TodoOf \in [Requests -> Todos]
  /\ TitleOf \in [Requests -> Titles]
  /\ None \notin Titles
  /\ EventClasses = {"TodoCreated", "TodoRetitled"}
  /\ MaxFaults \in Nat

VARIABLES
  todos,    \* the title in the row of each todo, None where there is no row
  events,   \* the rows of the table of events
  pc,       \* the step each request is about to take
  answer,   \* what each request ended in
  faults,   \* how much has failed
  torn,     \* history: todos whose commands overlapped or ended half done
  seen,     \* history: the events that were there when a list was read
  listed    \* history: the list that was returned

tables  == <<todos, events>>
history == <<seen, listed>>
vars    == <<tables, pc, answer, faults, torn, history>>

TodoEvent == [type: EventClasses, of: Todos, title: Titles]
Todo      == [of: Todos, title: Titles]

Steps  == {"add", "get", "retitle", "store", "publish", "list"}
Answer == {"none", "response", "KeyError", "TypeError", "IntegrityError",
           "OperationalError", "UnregisteredMessageError"}

TypeOK ==
  /\ todos \in [Todos -> Titles \cup {None}]
  /\ events \in Seq(TodoEvent)
  /\ pc \in [Requests -> Steps \cup {"idle", "done", "lost"}]
  /\ answer \in [Requests -> Answer]
  /\ faults \in 0..MaxFaults
  /\ torn \subseteq Todos
  /\ seen \in [Requests -> Seq(TodoEvent)]
  /\ listed \in [Requests -> Seq(Todo)]

-----------------------------------------------------------------------------
(* all_event_streams, as list_todos sees it: a row is added to the stream  *)
(* of the row before it, or begins one.                                    *)
Streams(rows) ==
  LET cut[n \in 0..Len(rows)] ==
        IF n = 0 THEN <<>>
        ELSE IF n > 1 /\ rows[n - 1].of = rows[n].of
        THEN [cut[n - 1] EXCEPT ![Len(cut[n - 1])] = Append(@, rows[n])]
        ELSE Append(cut[n - 1], <<rows[n]>>)
  IN cut[Len(rows)]

RebuildFirst(stream) == [of |-> stream[1].of, title |-> stream[1].title]

(* Todo.rebuild: the first event is applied to the class, the others to    *)
(* the todo, of which only TodoRetitled changes it.                        *)
Rebuild(stream) ==
  LET title[n \in DOMAIN stream] ==
        IF n = 1 \/ stream[n].type = "TodoRetitled" THEN stream[n].title
        ELSE title[n - 1]
  IN [of |-> stream[1].of, title |-> title[Len(stream)]]

(* mapping_to_event, of a row that __normalized__ has written.             *)
Readable(row) == Rebuilds(row.type, BodyOf(row.type))

(* TodoRetitled has a method for todos only: applied to the class, it is a *)
(* call without its event.                                                 *)
CanRebuild(stream) == stream[1].type = "TodoCreated"

-----------------------------------------------------------------------------
Changing == {"add", "get", "retitle", "store"}

UnderWay(n) == \E r \in Requests : TodoOf[r] = n /\ pc[r] \in Changing

Ends(r, a) ==
  /\ pc' = [pc EXCEPT ![r] = "done"]
  /\ answer' = [answer EXCEPT ![r] = a]

Fault == faults < MaxFaults /\ faults' = faults + 1

(* A transaction is committed: the command goes on, or it gets an error    *)
(* because the answer is lost.                                             *)
Commits(r, after, changed) ==
  \/ /\ pc' = [pc EXCEPT ![r] = after]
     /\ UNCHANGED <<answer, faults, torn>>
  \/ /\ Fault
     /\ Ends(r, "OperationalError")
     /\ torn' = torn \cup changed

(* The first step of each handler.                                         *)
FirstStep ==
  [CreateTodo |-> "add", RenameTodo |-> "get", ListTodos |-> "list"]

(* A route of the API sends the command to its handler.                    *)
Receive(r) ==
  /\ pc[r] = "idle"
  /\ pc' = [pc EXCEPT ![r] = FirstStep[Kind[r]]]
  /\ torn' = IF FirstStep[Kind[r]] \in Changing /\ UnderWay(TodoOf[r])
             THEN torn \cup {TodoOf[r]} ELSE torn
  /\ UNCHANGED <<tables, answer, faults, history>>

RepoAddAnyway(r) ==
  /\ pc[r] = "add"
  /\ todos' = [todos EXCEPT ![TodoOf[r]] = TitleOf[r]]
  /\ Commits(r, "store", {TodoOf[r]})
  /\ UNCHANGED <<events, history>>

(* TodoRepository.add                                                      *)
RepoAdd(r) ==
  /\ pc[r] = "add"
  /\ todos[TodoOf[r]] = None
  /\ todos' = [todos EXCEPT ![TodoOf[r]] = TitleOf[r]]
  /\ Commits(r, "store", {TodoOf[r]})
  /\ UNCHANGED <<events, history>>

RepoAddEscapes(r) ==
  /\ pc[r] = "add"
  /\ todos[TodoOf[r]] # None
  /\ Ends(r, "UniqueViolation")
  /\ UNCHANGED <<tables, faults, torn, history>>

(* todo_id is unique.                                                      *)
RepoAddRefused(r) ==
  /\ pc[r] = "add"
  /\ todos[TodoOf[r]] # None
  /\ Ends(r, "IntegrityError")
  /\ UNCHANGED <<tables, faults, torn, history>>

RepoGetUnchecked(r) ==
  /\ pc[r] = "get"
  /\ pc' = [pc EXCEPT ![r] = "retitle"]
  /\ UNCHANGED <<tables, answer, faults, torn, history>>

(* TodoRepository.get, and the KeyError of rename_todo.                    *)
RepoGet(r) ==
  /\ pc[r] = "get"
  /\ IF todos[TodoOf[r]] = None
     THEN Ends(r, "KeyError")
     ELSE pc' = [pc EXCEPT ![r] = "retitle"] /\ UNCHANGED answer
  /\ UNCHANGED <<tables, faults, torn, history>>

RetitleAll(r) ==
  /\ pc[r] = "retitle"
  /\ todos' = [n \in Todos |-> IF todos[n] = None THEN None ELSE TitleOf[r]]
  /\ Commits(r, "store", {TodoOf[r]})
  /\ UNCHANGED <<events, history>>

(* TodoRepository.retitle: an update of the row, if there is one.          *)
Retitle(r) ==
  /\ pc[r] = "retitle"
  /\ todos' = [todos EXCEPT ![TodoOf[r]] = IF @ = None THEN @ ELSE TitleOf[r]]
  /\ Commits(r, "store", {TodoOf[r]})
  /\ UNCHANGED <<events, history>>

EventOf(r) ==
  [type |-> IF Kind[r] = "CreateTodo" THEN "TodoCreated" ELSE "TodoRetitled",
   of |-> TodoOf[r], title |-> TitleOf[r]]

(* self._es.add(event): event_id is new for every event.                   *)
EsAdd(r) ==
  /\ pc[r] = "store"
  /\ events' = Append(events, EventOf(r))
  /\ Commits(r, "publish", {})
  /\ UNCHANGED <<todos, history>>

(* self._aw.publish(event): neither list_events nor a method of            *)
(* TodoService takes an event, so no listener is registered for any.       *)
PublishEvent(r) ==
  /\ pc[r] = "publish"
  /\ Ends(r, "UnregisteredMessageError")
  /\ UNCHANGED <<tables, faults, torn, history>>

(* list_todos: the statement reads the rows as they are when it begins.    *)
(* The first that cannot be an event again, or stream that cannot be a     *)
(* todo, ends it.                                                          *)
ListTodos(r) ==
  /\ pc[r] = "list"
  /\ seen' = [seen EXCEPT ![r] = events]
  /\ LET streams == Streams(events) IN
       IF /\ \A i \in DOMAIN events : Readable(events[i])
          /\ \A i \in DOMAIN streams : CanRebuild(streams[i])
       THEN /\ Ends(r, "response")
            /\ listed' = [listed EXCEPT ![r] =
                            [i \in DOMAIN streams |-> Rebuild(streams[i])]]
       ELSE Ends(r, "TypeError") /\ UNCHANGED listed
  /\ UNCHANGED <<tables, faults, torn>>

(* A transaction is rolled back, or a statement fails.                     *)
RolledBack(r) ==
  /\ pc[r] \in Steps \ {"publish"}
  /\ Fault
  /\ Ends(r, "OperationalError")
  /\ torn' = IF pc[r] = "store" THEN torn \cup {TodoOf[r]} ELSE torn
  /\ UNCHANGED <<tables, history>>

(* The process stops, and starts again with the tables as they are: the    *)
(* requests that were under way get no answer.                             *)
Restart ==
  /\ \E r \in Requests : pc[r] \in Steps
  /\ Fault
  /\ pc' = [r \in Requests |-> IF pc[r] \in Steps THEN "lost" ELSE pc[r]]
  /\ torn' = torn \cup {TodoOf[r] : r \in {q \in Requests : pc[q] = "store"}}
  /\ UNCHANGED <<tables, answer, history>>

Init ==
  /\ todos = [n \in Todos |-> None]
  /\ events = <<>>
  /\ pc = [r \in Requests |-> "idle"]
  /\ answer = [r \in Requests |-> "none"]
  /\ faults = 0
  /\ torn = {}
  /\ seen = [r \in Requests |-> <<>>]
  /\ listed = [r \in Requests |-> <<>>]

Handle(r) ==
  \/ RepoAdd(r) \/ RepoAddRefused(r) \/ RepoGet(r) \/ Retitle(r)
  \/ EsAdd(r) \/ PublishEvent(r) \/ ListTodos(r) \/ RolledBack(r)

Next == (\E r \in Requests : Receive(r) \/ Handle(r)) \/ Restart

Spec == Init /\ [][Next]_vars

-----------------------------------------------------------------------------
(* Where the events of a todo are among the rows.                          *)
EventsOf(rows, n) == {i \in DOMAIN rows : rows[i].of = n}

(* No event is stored of a todo that is not in the table, whatever fails   *)
(* between the steps of its commands: the row comes before the event, and  *)
(* a todo that does not exist is not renamed.                              *)
EventsHaveRows == \A i \in DOMAIN events : todos[events[i].of] # None

(* However often a command is sent again because its sender was left in    *)
(* doubt, a todo is created once, in the table and in its history.         *)
OneCreation ==
  \A i, j \in DOMAIN events :
    /\ events[i].type = "TodoCreated" /\ events[j].type = "TodoCreated"
    /\ events[i].of = events[j].of
    => i = j

(* The history of a todo begins with its creation, and its last title is   *)
(* that of the row.                                                        *)
Agree(title, rows, n) ==
  LET own == EventsOf(rows, n) IN
  /\ own = {} <=> title = None
  /\ own # {} => /\ rows[Min(own)].type = "TodoCreated"
                 /\ rows[Max(own)].title = title

(* The table and the history of a todo agree whenever no command of it is  *)
(* under way, as long as its commands came one after the other and none    *)
(* ended between its row and its event.                                    *)
AloneAgrees ==
  \A n \in Todos \ torn : ~ UnderWay(n) => Agree(todos[n], events, n)

(* Every todo that had an event, each once, with its last title.           *)
Replays(list, rows) ==
  /\ {list[i].of : i \in DOMAIN list} = {rows[i].of : i \in DOMAIN rows}
  /\ \A i, j \in DOMAIN list : list[i].of = list[j].of => i = j
  /\ \A i \in DOMAIN list :
       list[i].title = rows[Max(EventsOf(rows, list[i].of))].title

(* A list of todos that is returned replays the events that were there     *)
(* when it was read, though these were taken apart into columns and bodies *)
(* and put together from streams that are cut wherever another todo's      *)
(* event comes between: where that would give another list, none is given. *)
ListIsReplay ==
  \A r \in Requests : Kind[r] = "ListTodos" /\ answer[r] = "response" =>
    Replays(listed[r], seen[r])

(* demo/README.md: list all todos.  As long as the commands of each todo   *)
(* come one after the other and none fails, the todos can be listed.       *)
TodosListed ==
  \A r \in Requests : Kind[r] = "ListTodos" /\ torn = {} => answer[r] # "TypeError"
=============================================================================
