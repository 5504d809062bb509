# A TLA+ development of anywise

anywise is an in-process message bus for asyncio programs. `Anywise.send` takes
a command to its one handler through a chain of guards, `Anywise.publish` takes
an event to its listeners, `Anywise.sink` hands events to a sink. Handlers,
listeners and guards are collected by `MessageRegistry` objects, which an
`Anywise` includes; events can be kept in an `EventStore` and read back.

## Components

| component | state | operations | what is hard about it | what makes it correct |
|---|---|---|---|---|
| `HandlerManager`, `Guard`, `BaseGuard`, `default_send` (`anywise.py`, `guard.py`, `strategies.py`) | `_handler_metas`, `_guard_mapping`, `_global_guards`; `_next_guard` of every guard object; one coroutine per send | `send`, `resolve_handler`, `_chain_guards`, `Guard.__call__`, `chain_next` | every send rewrites links of guard objects that other sends are suspended in, and reads them after an await | a message passes its own guards, in order, to its own handler; links never dangle or close a cycle; post handlers see responses only |
| `ListenerManager`, `default_publish`, `concurrent_publish` | `_listener_metas`; one coroutine per publish, tasks of a group, threads | `publish`, `resolve_listeners` | failures and cancellation while siblings wait, run or are being stopped; threads cannot be stopped | nothing is left behind, no failure is lost, listeners in turn |
| `MessageRegistry`, `gather_types`, `Anywise.include` (`registry.py`, `_visitor.py`) | three mappings per registry, their copies in the managers | `register`, `pre_handle`, `post_handle`, `add_guards`, `include` | any order of calls, of imports and of includes; registrations that fail halfway | the mappings are what the history of calls says |
| `InMemorySink`, `Anywise.sink` | an `asyncio.Queue` of bounded volume | `sink` of an event or a sequence | full queue in the middle of a sequence, cancellation, barging | volume, order, no lost wakeup |
| `EventStore`, `EventTable`, event models (`messages/`) | rows; `__EventTypeRegistry__`; the state of a generator | `add`, `list_events`, `event_stream`, `list_all_events`, `all_event_streams`, `__normalized__`, `mapping_to_event`, `get_event_cls` | lost answers and retries, restarts, classes imported late, a generator suspended between `yield` and `del` | each event once, in order, readable |
| `Entity.rebuild`, `apply` | none | fold over a stream | streams that do not begin with a creation | the fold gives what the row holds |
| `Inspect` | weak references to the managers | `handler`, `guards`, `listeners` | what it tells is used later | what it told stays true of a message sent then |
| Todo demo (`demo/`) | a table and the event store | create, rename, list | three transactions per command, retries | one creation per todo; table and history agree |
| FastAPI integration, sources, runtime, command line, utilities | none | lookups, or commented-out sketches | - | - |

How they interact: `include` copies the mappings of a registry into the two
managers (calls, at import time). `send` and `publish` read those mappings on
the event loop and run code of the user - guards, handlers, listeners - that
may call `send`, `publish` and `sink` again. A sink and an event store are
called by handlers and listeners. Nothing but the event loop's cooperation
orders concurrent sends; scopes, singletons and dependency resolution are the
ididi library's, the queue and the task group are asyncio's, the database is
SQLAlchemy's. Those four are modelled from how the code uses them.

## Modules

* `HandlerManager` - the path of a command. `next` is `_next_guard` of every
  guard object; `pc`, `stack`, `outcome` are the coroutine of each send: where
  it is, the guards it is inside of, and the response or exception it carries.
  `running` is the task that has the event loop: between two awaits that may
  suspend no other task moves, so resolving the last guard, writing all links
  and calling the head of the chain are one action (`ChainGuards`), while
  resolving guard classes and running a `pre_handle` are points where others
  run. A `pre_handle` or `post_handle` guard is one object per target type, a
  class guard one object per scope; a send without a scope argument has a scope
  of its own, which it enters (`opened`) and never exits. `Pipelined` says that
  a send does what `Pipeline` promises. `trail`, `clock` and
  `turn` are history. Actions: `Send`, `ResolveHandler`, `Unregistered`,
  `ResolveFails`, `ChainGuards`, `Forward` (a guard reads `_next_guard` and
  calls it, or raises `DunglingGuardError`), `ShortCircuit` and `Catch` (what a
  `BaseGuard` subclass may do), `HandlerReturns`, `UserRaises` (any exception,
  or cancellation), `PostHandle`, `PostReturns`, `Propagate`, `Finish`.
* `ListenerManager` - the path of an event. `task[p]` holds the state of the
  call of each listener; `Stopped` says what cancelling does to it: a task not
  begun never begins, a coroutine is asked to stop and does as it likes, a
  thread is detached (or withdrawn from the pool). Actions follow
  `default_publish` (`CallNext`, `LoopEnds`) and the `TaskGroup` of
  `concurrent_publish` (`StartTask`, `Abort`, `Join`).
* `MessageRegistry` - registration and `include`, one action per call, over a
  class hierarchy to which `Define` adds. A call of `register` or `add_guards`
  has any number of items and takes them one after the other: where one is
  refused, the call raises, what came before it is done and what comes after it
  is not (`Done`). `AllSubclasses` and `Gather` are `all_subclasses` and
  `gather_types`. `calls` is history: the calls that were made, with the classes
  that existed then, those that raised among them.
* `Anywise` - extends `MessageRegistry` with messages under way: `Call`
  (`send`, `publish`, and what `Inspect` told at that moment), the lookup of a
  handler (`ResolveFunction`, `ResolveMethod`, `Unregistered`), of the guards
  (`ReadGuards`) and of the listeners (`ResolveListeners`, as far as the next
  await, over the list as it is by then). Registrations and `include` are those
  of `MessageRegistry` and may come between any two of these steps.
* `InMemorySink` - `sink` puts as many events as fit in one step and waits for
  the rest; `putters`, "woken" and "cancelling" are the futures of
  `asyncio.Queue.put`, including the re-check of a woken put and the handing on
  of a wakeup by one that is cancelled.
* `EventModel` - what becomes of an event on the way to a row and back: `BodyOf`
  is the body that `__normalized__` cuts out of the fields of a class, `Rebuilds`
  whether `mapping_to_event` can make an event of the class of it again. The
  order of the fields decides both, and is a constant.
* `EventStore` - `add` with commits, rollbacks, lost answers and the unique
  `event_id`; the queries of one entity, `list_events` and `event_stream`, each
  one step (the rows are fetched at once and rebuilt without an await), whose
  result `listing` holds until the next step; the generator `all_event_streams`
  over the rows as its statement found them, in any order, suspended at each
  `yield`; `get_event_cls` and its registry; `Import` and `Restart`.
* `TodoService` - the demo. `pc[r]` is the step that the handler of a request
  takes next; every transaction (`RepoAdd`, `RepoGet`, `Retitle`, `EsAdd`) is an
  action and a point where other requests run, fail or are cut off by a
  restart. `PublishEvent` always raises `UnregisteredMessageError`, since
  `registry.register(list_events, TodoService)` registers no listener.
  `ListTodos` reads the rows back as `EventModel` has it and raises at a row that
  is no event again (`Readable`) or a stream that is no todo (`CanRebuild`);
  `Streams` is the event store's generator run to its end, over rows in the order
  of their insertion, as SQLite gives them; `Rebuild` is the fold of `Todo.apply`.
  `torn` is history: the todos whose commands overlapped or ended
  between the row and the event.
* `Pipeline`, `Delivery`, `Channel` - the abstract specifications: what a send,
  a publish and a sink promise. `HandlerManager!Pipelined`,
  `ListenerManager!Delivers` and `InMemorySink!IsChannel` instantiate them with
  refinement mappings (`trail` and outcomes; the states of the calls and
  results; what was taken and what is queued).
* `HandlerManagerProofs`, `ListenerManagerProofs`, `MessageRegistryProofs`,
  `AnywiseProofs`, `InMemorySinkProofs`, `EventStoreProofs`,
  `TodoServiceProofs` - the theorems about these modules; `SequenceLemmas` - the
  lemmas on sequences that they share.
* `MC...` - the instances for TLC.

Beside some definitions stand variants with a plausible mistake
(`LinkedToHead`, `Gather` for `Join`, `GiveUpSilently`, ...). No specification
uses them; they record what each property is there to catch.

## Runs

| run | question | result |
|---|---|---|
| `MCHandlerManager_shared` | three concurrent sends (two of one type, one in a scope passed by the caller) over a shared global `pre_handle`, a class guard and a `post_handle`: `NoDangling`, `Acyclic`, `NoStaleHandler`, `PostOnlyAfterHandled`, `Terminates` | hold |
| `MCHandlerManager_careful` | four messages of three types, one of them unknown, from a caller that sends a message only once those it shares a guard object with are over, leading `post_handle` guards excepted: `Pipelined` | holds |
| `MCHandlerManager_crossed` | two concurrent sends of different types through one `pre_handle` for all: `HandledByItsType` | violated: one is given to the other type's handler |
| `MCListenerManager_publish` | one event through either strategy, with three listeners (one in a thread, one a method), and one without: `OneAfterAnother`, `NoneLeftBehind`, `FailureNotLost`, `Terminates`, `Delivers` | hold |
| `MCMessageRegistry_register` | every order of up to four calls of three registries (with both bases, or one), of one or more items of which some are refused, with a diamond of classes whose bottom may be defined at any time: `LastHandlerWins`, `ListenersInOrder`, `GuardsInOrder`, `LastIncludeWins`, `RaisesForWhatIsLost` | hold |
| `MCMessageRegistry_late` | the same: `SubcommandsGuarded` | violated: a subclass defined after the guard is not guarded |
| `MCAnywise_include` | up to four calls of two registries and `include`, at any time relative to a send and a publish: `GuardsOfOneMoment`, `ToldIsKept` | hold |
| `MCInMemorySink_sink` | two sequences and two single events into a queue of two, and an unset sink: `WithinVolume`, `EventsInOrder`, `NoLostWakeup`, `SinkEnds`, `IsChannel` | hold |
| `MCEventStore_store` | three events of two entities, one class of them imported at any time, two versions, one event tried twice, one restart, one generator over the rows in any order and any number of queries: `StoredOnce`, `StreamsAreTheRows`, `OneEntityPerStream`, `QueriesAgreeWithStreams`, `ReadsWhatIsImported` | hold |
| `MCEventStore_versions` | one event of version 1, of a class that overrides `__type_id__`, and queries of either version: `StreamIsOfVersion` | violated: asked for version 2, `event_stream` reads the event, and does not find its class |
| `MCTodoService_history` | three creations, two of them of one todo, two renamings of it and a list, one fault, the fields in the order of msgspec: `EventsHaveRows`, `OneCreation`, `AloneAgrees`, `ListIsReplay` | hold |
| `MCTodoService_listing` | the fields in the order of pydantic, no fault: `TodosListed` | violated: once a todo is created, every list raises `TypeError` |

One passing run of each module also checks its type invariant (`TypeOK`, `MessagesOK`).

Why the bounds are enough. What goes wrong over shared guards needs two
messages, one suspended and one that relinks; the third allows two of one type
against one of another, and four the independent next to the dependent. Lists of two
guards distinguish head, inner link and end. The run shares one guard object between types, so it never has two lists in
opposite orders; that they cannot close a cycle is what `NeverCyclic` proves.
The listeners cover the three ways a call reacts to cancellation, in both
orders relative to a failure; `Cancel` happens at most once per publish, the
later ones have no effect on a group that is already stopping. Four calls allow
"guard, register, include, include" and two handlers in two registries, both
included, and calls of four items of which
the second or the third is refused. The sequences of three and two cannot fit into a volume of two
together, so both wait, are woken and meet others that came first. Two
attempts at one event and one restart are the least that let an event be added
again by a process that forgot it; the others are tried once. Three events are
the least with two of one entity and one of another, in any order. In `Anywise` one
send and one publish suffice, as they read what is included and change nothing
of it; four calls register and include two listeners, or a handler and a guard,
in two goes. In `TodoService` two renamings of one todo can cross, a creation can
come twice, and the other todo's creation can cut the history in two; one fault
at a time, since each leaves its todo torn. `CHECK_DEADLOCK FALSE` is given where the program may
simply stop: import time is over, or nobody adds or reads any more.

Fairness. The event loop of asyncio runs every ready callback, first come
first served, which justifies weak fairness of the steps of a coroutine. That
the code of the user and its threads return, and that the consumer of the sink
keeps taking, are assumptions on the application: a handler that hangs hangs
its send. Nothing obliges a caller to send, publish, sink or cancel. In
`Terminates` of `HandlerManager` the whole `Step` of a send is weakly fair,
so "catch or propagate" is left open; every choice ends.

## Findings

Each has a run that shows it and is recorded, with the line it contradicts, in
`PROJECT.json`.

* `crossed` - commands cross over shared guards: one is given to the handler of
  another type.
* `late` - subclasses defined after the guard of their base are not guarded
  (docs/tutorial.md:70).
* `versions` - `event_stream` selects by entity only: `and` between two conditions
  on columns keeps one of them. The same run shows that a class that overrides
  `__type_id__`, as its docstring asks of whoever renames it, cannot be read back:
  its rows carry `deafult_typeid`.
* `listing` - where pydantic is installed, as it is for the demo, the body of a row
  has fields of the base instead of those of the class, and no row can be read
  back: once a todo is created, every list raises.

What the models show without a run of its own:

* docs/tutorial.md:55 says that of several handlers of a command the one
  registered last is used. That is so within a registry (`LastHandlerWins`); of
  several registries the one *included* last is heard (`LastIncludeWins`), also
  if another one registered its handler later.
* docs/tutorial.md:158 says that `add_guards` takes an instance of a guard; it
  raises, after adding what came before it in the call (`Refused`,
  `RaisesForWhatIsLost`).
* A guard class twice in the list of a type resolves to one object, whose last
  link skips the guards in between (`LastAt`).
* A send without a scope argument never exits the scope it entered (`opened`
  only grows).
* The thread of a synchronous listener runs on when its publish is cancelled,
  since `asyncio.to_thread` cannot be stopped; `NoneLeftBehind` is about
  coroutines and leaves detached threads out.
* `publish` refuses an event without listeners, so no command of the demo that
  changes something ever returns, though all it does is committed by then
  (`PublishEvent`).
* The row and the event of a command of the demo are committed apart ("TODO: make
  these three a transaction", todo.py:111). A renaming between the two commits of a
  creation stores its event before that of the creation; a lost answer or a
  restart there leaves a row without its event. `torn` records the todos to
  which that happened, and `AloneAgrees` is about the others.
* Where events can be read back, a todo that is renamed after another one was
  created has a second stream that begins with a `TodoRetitled`, of which no
  todo can be rebuilt: every list raises from then on (`CanRebuild`).

## Proofs

All theorems hold for every value of the constants that satisfies the module's
assumptions.

`HandlerManagerProofs`:
* `TypeCorrect` - `TypeOK`.
* `NeverDangling` - `NoDangling`. It becomes inductive as `DanglingInv`, with
  `Supported` (a guard that another one links to has a link itself) and
  `HeldLinked` (so has every guard that a message is inside of). Linking gives a
  link to every guard of a chain and takes none away.
* `NeverCyclic` - `Acyclic`. Linking follows the last occurrences in a list, so
  in any set of guards closed under links the member of the newly linked list
  with the greatest place would have to link beyond the list, to a handler,
  which is no guard; a set that avoids the list is closed under the old links.
* `PostHandleOnlyOnResponse` - `PostOnlyAfterHandled`. The invariant `TrailInv`
  ties the outcome in hand to the place of the send: "return" and "post" only
  with a response, and only once a handler or an answering subclass is in the
  trail (`ResponseMeant`), which starts empty (`Fresh`) and holds every guard
  that the message is inside of (`HeldVisited`).
* `NeverStale` - `NoStaleHandler`. The invariant `StaleInv` asks for a ranking of
  the guard objects (`Ranked`), by the turn that last linked each: ranks never
  decrease along links, none exceeds the turn of the handler the links end in,
  and a guard that a message is inside of ranks no lower than that message's
  turn. So no message meets the handler of an earlier turn (`NeverEarlier`).

* `CarefulIsPipelined` - `Pipelined` for a careful caller, as in the run
  `careful`: messages under way at once share no guard objects but leading
  `post_handle` guards (`KeptApart`), and no guard object is twice in the list
  of one message (`NoRepeats`; the remark on `LastAt` says why). `OnRoute`, the
  invariant, says that the trail of a message is a prefix of its route, and
  that what lies ahead of it is linked as it linked it (`Intact`). The links
  behind it may have been written anew by another message, so the whole chain
  need not be intact: that is why the place of the message is in the invariant.
  A message that is about to forward has the event loop (`running`), so
  leading `post_handle` guards, which it passes at once, may be shared.
* `CarefulHandling` - the consequence that every message is handled by its own
  type's handler past all its guards, which the run `crossed` shows false of
  other callers.
* `IsolatedIsPipelined` - if no two messages share a guard object
  (`Isolated`), every caller is careful, and `Spec` itself implements `Pipeline`.

`ListenerManagerProofs`: the invariant `IInv` says of every publish which call
states its place allows (`Shape`), that there is one call per listener
(`Staffed`), that under `default_publish` a call that left "waiting" has only
returned ones before it (`InOrder`), that a task is kept from beginning only
where the group fails or the caller is cancelled (`Excused`), and that the
answer is what became of the calls (`Answered`).
* `TypeCorrect`, `InTurn` (`OneAfterAnother`), `NobodyLeftBehind`
  (`NoneLeftBehind`), `NoFailureLost` (`FailureNotLost`) follow from it.
  `Excused` is what keeps "ok" from being told of a publish whose task never
  began.
* `PublishDelivers` - `Spec` implements `Delivery`: starting a call, ending it,
  stopping the others and answering map to a step of `Delivery` or a stutter.

`MessageRegistryProofs`:
* `NothingLostInSilence` (`RaisesForWhatIsLost`): in a registry with both bases a call of
  any number of items raises exactly if one of them is taken for no class.
* `RegistryTypes` (`TypeOK`), `HandlerIsTheLast` (`LastHandlerWins`),
  `ListenersOnceInOrder` (`ListenersInOrder`), `GuardsOnceInOrder` (`GuardsInOrder`),
  `IncludedLastIsHeard` (`LastIncludeWins`), from `HistoryInv`: the mappings of
  every registry and of the managers are what the calls say that were made so
  far, in their order, each with the classes that existed then, and of those that
  raised with the items that came before the refused one. Two inductions
  carry it. `all_subclasses` walks the classes downwards, what a call is for is
  told upwards, and both come to the same (`GatherIs`), for the bases of a class
  exist before it. And a call more adds one piece to what a history is
  flattened from (`RegisteredGrows`, `GuardsAddedGrow`, ...).

`AnywiseProofs`: `MessagesTypeOK` (`MessagesOK`), `NeverWithoutItsGuards`
(`GuardsOfOneMoment`), `InspectIsKept` (`ToldIsKept`: refusal, the identity of the
handler, the guards and the listeners), from `HistoryInv` and what
it implies of each message under way (`SendInv`, `PublishInv`). They need of the
registry that a call comes at the end of the history and that what is included
stays where it is (`RegistryGrows`): listeners of a type only get longer, which
is why a prefix that was told, or looked up, stays one; the guards of a type get
longer in two places, so that those told are within those read, in their order;
and a handler changes only by an include that gives its type another.

`InMemorySinkProofs`: `TypeCorrect`, `VolumeKept` (`WithinVolume`) and
`WakeupKept` (`NoLostWakeup`), from `SinkInv`. It adds that the calls that wait
are those in line, each once (`InLine`), so that waking or cancelling one takes
one out of the line; that a call that waits has events left (`Unspent`), so
that a woken call fills the room it was woken for or leaves none waiting; and
that finitely many calls are woken, without which counting them means nothing.
`OrderKept` (`EventsInOrder`) and `SinkIsChannel` (`IsChannel`) follow from
`OrderInv`: among what was put so far, taken or queued, are the first events of
every call, as many as it has put, each once and in their order (`Placed`).
Putting or taking is then a step of `Channel`, waiting, waking and giving up are
stutters.

`EventStoreProofs`:
* `AddedOnce` (`StoredOnce`).
* `StreamsAreRuns` (`OneEntityPerStream`) from `GeneratorInv`: the groups hold
  events of their own entity (`OwnGroups`), at most one group is not empty and
  it is that of the current entity (`OneGroup`), streams yielded are runs
  (`Runs`), and the last of them is of another entity than the current group
  unless the generator is suspended at its `yield` (`LastRun`). A yielded group
  stays in `grouped` until the generator goes on, which is why the two states
  differ.
* `StreamsTellTheTable` (`StreamsAreTheRows`) from `StreamsInv`: the streams
  yielded, one after the other, and the group in hand are the rows read so far.
* `StoreTypes` (`TypeOK`) from `StoreInv`, which adds what a query answers and how
  often an event was tried.
* `QueriesTellTheSame` (`QueriesAgreeWithStreams`) from `ReadInv`: all that the
  generator has read is in the table (`FromTable`), which only grows, and
  `list_events` selects all rows of its entity.
* `RegistryIsTransparent` (`ReadsWhatIsImported`), where no two classes are looked up
  by one id (`OneIdPerClass`). The registry names imported classes by the ids they are
  looked up by (`Catalogued`), so a lookup that hits finds the one class with the
  id of the row, and one that misses finds it once refreshed if it is imported.
  Nothing is assumed of the fields of a class or of the id that its rows carry: a
  row that is not read is one that no imported class goes by and fits, and the
  runs `listing` and `versions` show some.

`TodoServiceProofs`:
* `RowsComeFirst` (`EventsHaveRows`) and `CreatedOnce` (`OneCreation`), however the
  requests interleave and fail, from `TodoInv`: a request that is about to store
  its event has its row (`RowFirst`), and of the creations of one todo at most
  one is at that step (`OneCreator`), none once the event is there
  (`NotYetCreated`). It is the primary key of the row, never the event store,
  that lets one creation through.
* `TodoTypes` (`TypeOK`).
* `TablesAgree` (`AloneAgrees`) from `AloneInv`. A todo that is not torn has one
  command under way at most; at rest its row and its events agree (`Agree`:
  a row iff events, the first a creation, the last with the row's title), and
  between the row and the event the row is ahead by that command (`HalfDone`).
* `ListsReplay` (`ListIsReplay`). The streams are the rows cut into pieces, each of
  one todo, each row in one piece (`StreamsArePieces`), and a fold that does not raise
  gives the title of the last event of its piece (`RebuildsToTheLast`). A fold raises
  unless its piece begins with a creation, and a todo has one (`OneCreation`), so
  a list that is returned had one piece for each todo (`StreamsReplay`). It holds
  whatever the order of the fields: with that of pydantic only the empty list
  is returned, as the run `listing` shows.
  `ToldInv` keeps what a list was told while later events arrive.

`SequenceLemmas`. Histories, streams and lists are flattened and folded, that is,
defined by recursion. The library states induction for an operator `P(_)`, which
no prover here can instantiate; `InductionOverNat` and `InductionOverSeq` state it
for a set, that of the numbers or sequences with a property, which comes to the
same. From them follow the lemmas on `FlattenSeq` (`FlattenAppend`, `FlattenLonger`,
`FlattenType`), which the registry and the store share, those on prefixes, and in
`TodoServiceProofs` what `Streams` and `Rebuild` compute, which are written as
recursive functions for that purpose.

The assumptions are those the modules declare on their constants. They say that
the base of a class is defined before it and that no chain of bases is endless
(`RegistryAssumption`), that `MISSING` is no handler and that messages have types other than
`object` (`MessageAssumption`), that an event class has a sequence of fields, among them
those of the base (`ModelAssumption`), and otherwise give constants their types.
Where a theorem needs more, its statement says so (`NoRepeats`, `Isolated`,
`OneIdPerClass`).

Only model-checked is liveness: `Terminates` of `HandlerManager` and of
`ListenerManager`, and `SinkEnds`, since `ENABLED` is out of the prover's reach. Every
other property that a run confirms is stated by a theorem.

## Plan

Next to prove: what a list of guards with one object twice does (`NoRepeats`
dropped), where the route of a message is its list with the guards between the
two occurrences skipped; and that the demo's lists do not raise
as long as the fields of their events come first and the histories of the todos
do not alternate, the converse of `ListIsReplay`.

## Abstractions, and what is not modelled

Messages, contexts and responses are not represented; no control depends on
them. A guard subclass that calls what follows it more than once and
cancellation inside `__aenter__` of a scope are left out, as is an `include`
that fails while merging dependency graphs. That ididi returns the same object for a class within a scope is
assumed. `all_subclasses(object)` raises `TypeError`, so a guard cannot target
`object`; generic annotations and registees that are neither functions nor
classes raise before anything changes; none of these is an action. The
`AttributeError` that `Anywise.sink` takes for an unset sink may come from
inside a sink of the application; `InMemorySink` raises none, and is the only
sink modelled. It has one eternal consumer. The
context shared by the listeners of `concurrent_publish` is a plain dict.

No statement of `EventStore` asks for an order of its rows. In the module of that
name any order may come; in `TodoService` the rows come in the order of their
insertion, as SQLite, the database of the demo, returns a table that it scans.

Which library models the events is decided at import (model.py): msgspec's
class where only msgspec is installed, pydantic's wherever pydantic is. The
package requires neither; the demo imports FastAPI, which brings pydantic. Of the
instances, `store`, `versions` and `history` have the order of fields of a msgspec
subclass that is not keyword-only, the only ones that can be read back; `listing`
has that of pydantic. `TodoService` is checked with both, since its steps are the
same and what holds once events can be read back is worth knowing. The title stands for the whole row of a todo, and
`list_events` of the demo is a read that `EventStore` has already.

Not modelled: the FastAPI integration (one lookup in the state of a request),
sources, runtime, command line and utilities (sketches that nothing calls), the
dependency graph (ididi, a library).

