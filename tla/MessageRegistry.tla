-------------------------- MODULE MessageRegistry ---------------------------
(***************************************************************************)
(* How handlers, listeners and guards are collected: MessageRegistry       *)
(* (anywise/registry.py) with gather_types (anywise/_visitor.py), and      *)
(* Anywise.include (anywise/anywise.py), which copies what a registry      *)
(* holds into the HandlerManager and the ListenerManager.                  *)
(*                                                                         *)
(* All of it runs at import time, in whatever order modules are imported:  *)
(* classes come to be between the calls, and a call sees only those that   *)
(* are defined by then.  register(a, b, ...) and add_guards(a, b, ...) go   *)
(* through what they are given one by one: if one of them raises, what     *)
(* came before it is done and stays, and what comes after it is not.       *)
(***************************************************************************)
EXTENDS Naturals, Sequences, SequencesExt

CONSTANTS
  Types,        \* message classes, and typing.Any
  AnyType,      \* typing.Any
  Bases,        \* the direct bases of each class that are in Types
  FirstTypes,   \* the classes that are defined at the start
  Registries,
  CommandBase, EventBase,   \* the bases of each registry, or MISSING
  MISSING,
  Registees,    \* the functions and classes that are registered
  Classes,      \* those of them that are classes
  Signatures,   \* the annotation of the message parameter of each function,
                \* and of each public method of a class, by name
  Guards,       \* guards: functions, BaseGuard classes and objects
  Instances,    \* those of them that are objects
  GuardTarget,  \* the annotation of the command parameter of each guard
  RegisterCalls,  \* what calls of register are given, by registry: handlers
                  \* and guard classes, then pre_hanldes, then post_handles
  GuardCalls,     \* what add_guards, pre_handle and post_handle are given
  MaxCalls      \* bound on the calls of registries and of include

ASSUME RegistryAssumption ==
  /\ AnyType \in Types
  /\ Bases \in [Types -> SUBSET (Types \ {AnyType})]
  /\ Bases[AnyType] = {}
  /\ \A T \in SUBSET Types : T # {} =>   \* no chain of bases is endless
       /\ \E c \in T : Bases[c] \cap T = {}
       /\ \E c \in T : \A d \in T : c \notin Bases[d]
  /\ FirstTypes \subseteq Types /\ AnyType \in FirstTypes
  /\ \A c \in FirstTypes : Bases[c] \subseteq FirstTypes
  /\ MISSING \notin Types
  /\ CommandBase \in [Registries -> Types \cup {MISSING}]
  /\ EventBase \in [Registries -> Types \cup {MISSING}]
  /\ Classes \subseteq Registees
  /\ Signatures \in [Registees -> Seq(SUBSET Types)]
  /\ \A f \in Registees \ Classes : Len(Signatures[f]) <= 1
  /\ Instances \subseteq Guards
  /\ GuardTarget \in [Guards -> SUBSET Types]
  /\ Registees \cap Guards = {}
  /\ RegisterCalls \in [Registries -> SUBSET Seq(Registees \cup Guards)]
  /\ GuardCalls \in [Registries -> SUBSET Seq(Guards)]
  /\ MaxCalls \in Nat

VARIABLES
  defined,         \* the classes that exist
  command_mapping, event_mapping, guard_mapping,  \* of each registry
  handler_metas,   \* HandlerManager._handler_metas
  guards,          \* HandlerManager._guard_mapping
  global_guards,   \* HandlerManager._global_guards
  listener_metas,  \* ListenerManager._listener_metas
  calls            \* history: the calls, what they were given, which classes
                   \* they saw and whether they raised

registry == <<command_mapping, event_mapping, guard_mapping>>
anywise  == <<handler_metas, guards, global_guards, listener_metas>>
vars     == <<defined, registry, anywise, calls>>

(* A FuncMeta or MethodMeta: which function, or which method of a class.   *)
Meta == [of: Registees, at: Nat \ {0}]

TypeOK ==
  /\ defined \subseteq Types
  /\ \A r \in Registries :
       /\ DOMAIN command_mapping[r] \subseteq defined
       /\ \A t \in DOMAIN command_mapping[r] : command_mapping[r][t] \in Meta
  /\ event_mapping \in [Registries -> [Types -> Seq(Meta)]]
  /\ guard_mapping \in [Registries -> [Types -> Seq(Guards)]]
  /\ DOMAIN handler_metas \subseteq defined
  /\ \A t \in DOMAIN handler_metas : handler_metas[t] \in Meta
  /\ guards \in [Types \ {AnyType} -> Seq(Guards)]
  /\ global_guards \in Seq(Guards)
  /\ listener_metas \in [Types -> Seq(Meta)]

-----------------------------------------------------------------------------
(* Python's cls.__subclasses__(): the direct ones that exist by now.        *)
Subclasses(c) == {d \in defined : c \in Bases[d]}

(* all_subclasses                                                          *)
AllSubclasses(c) ==
  LET below[d \in Types] == Subclasses(d) \cup UNION {below[e] : e \in Subclasses(d)}
  IN  below[c]

(* gather_types: the classes an annotation names, with all subclasses.     *)
Gather(annotation) == annotation \cup UNION {AllSubclasses(c) : c \in annotation}

(* Python's issubclass: through the bases, whenever they were defined.     *)
Above[d \in Types] == {d} \cup UNION {Above[b] : b \in Bases[d]}

IsSubclass(c, base) == base \in Above[c]

(* get_funcmetas and get_methodmetas: the types of each signature that is  *)
(* accepted, and none for the others.  A signature is accepted if all its  *)
(* types are of the base; a class skips the others, a function has no      *)
(* others and raises.                                                      *)
Derived(base, h) ==
  [k \in DOMAIN Signatures[h] |->
     LET types == Gather(Signatures[h][k])
     IN  IF base # MISSING /\ \A t \in types : IsSubclass(t, base)
         THEN types ELSE {}]

(* A class none of whose methods yields a type raises as well; a function  *)
(* without an annotation yields none and is taken for a success.           *)
Fails(base, h) ==
  /\ base # MISSING
  /\ IF h \in Classes
     THEN \A k \in DOMAIN Signatures[h] : Derived(base, h)[k] = {}
     ELSE \A k \in DOMAIN Signatures[h] :
            \E t \in Gather(Signatures[h][k]) : ~ IsSubclass(t, base)

(* What the items of a call yield, as <<item, signature, type>> ...         *)
Yields(base, items, done) ==
  UNION {UNION {{<<i, k, t>> : t \in Derived(base, items[i])[k]} :
                  k \in DOMAIN Signatures[items[i]]} :
           i \in {j \in done : items[j] \in Registees}}

(* ... and the metas of a type among it, item by item and then in the order *)
(* of the signatures.                                                       *)
InTurn(items, yields, t) ==
  FlattenSeq([i \in DOMAIN items |->
    IF items[i] \notin Registees THEN <<>>
    ELSE FlattenSeq([k \in DOMAIN Signatures[items[i]] |->
           IF <<i, k, t>> \in yields THEN <<[of |-> items[i], at |-> k]>> ELSE <<>>])])

-----------------------------------------------------------------------------
RefusedByEither(r, x) ==
  IF x \in Guards THEN x \in Instances
  ELSE Fails(CommandBase[r], x) \/ Fails(EventBase[r], x)

(* _register tries a registee as a command handler and as an event         *)
(* listener.  Failing as one of them is not an error, and failing as a     *)
(* command handler is forgotten if there is no event base.                 *)
(* get_guardtarget looks for the parameters of a function or of a class,   *)
(* and raises for anything else.                                           *)
Refused(r, x) ==
  IF x \in Guards THEN x \in Instances
  ELSE Fails(CommandBase[r], x) /\ Fails(EventBase[r], x)

DoneAllButRefused(r, items) == {i \in DOMAIN items : ~ Refused(r, items[i])}

(* Which of the items of a call are done: those before the first that      *)
(* raises.                                                                 *)
Done(r, items) ==
  LET refused == {i \in DOMAIN items : Refused(r, items[i])}
  IN  {i \in DOMAIN items : \A j \in refused : i < j}

(* The metas of each type that the items that are done yield.              *)
NewMetas(r, base, items) ==
  LET yields == Yields(base, items, Done(r, items))
  IN  [t \in Types |-> InTurn(items, yields, t)]

(* {meta.message_type: meta for meta in metas}: the last meta of a type.   *)
NewHandlers(r, items) ==
  LET metas == NewMetas(r, CommandBase[r], items)
  IN  [t \in {u \in Types : metas[u] # <<>>} |-> Last(metas[t])]

NewGuards(r, items) ==
  LET done == Done(r, items)
  IN  [t \in Types |->
        FlattenSeq([i \in DOMAIN items |->
          IF /\ i \in done /\ items[i] \in Guards
             /\ t \in Gather(GuardTarget[items[i]])
          THEN <<items[i]>> ELSE <<>>])]

(* d.update(e)                                                             *)
Kept(d, e) ==
  [t \in DOMAIN d \cup DOMAIN e |-> IF t \in DOMAIN d THEN d[t] ELSE e[t]]

Update(d, e) ==
  [t \in DOMAIN d \cup DOMAIN e |-> IF t \in DOMAIN e THEN e[t] ELSE d[t]]

-----------------------------------------------------------------------------
Ends(call, r, items, failure) ==
  /\ Len(calls) < MaxCalls
  /\ calls' = Append(calls, [call |-> call, reg |-> r, what |-> items,
                             seen |-> defined, raised |-> failure])

(* A class statement is executed.                                          *)
Define(c) ==
  /\ c \notin defined
  /\ Bases[c] \subseteq defined
  /\ defined' = defined \cup {c}
  /\ UNCHANGED <<registry, anywise, calls>>

Annotated(x) ==
  IF x \in Guards THEN GuardTarget[x] ELSE UNION Range(Signatures[x])

AnnotationsExist(items) == \A i \in DOMAIN items : Annotated(items[i]) \subseteq defined

(* One call, from its first item to its last or to the one that raises.    *)
Collect(call, r, items) ==
  /\ AnnotationsExist(items)
  /\ Ends(call, r, items, \E i \in DOMAIN items : Refused(r, items[i]))
  /\ command_mapping' = [command_mapping EXCEPT ![r] = Update(@, NewHandlers(r, items))]
  /\ LET metas == NewMetas(r, EventBase[r], items)
     IN  event_mapping' = [event_mapping EXCEPT ![r] = [t \in Types |-> @[t] \o metas[t]]]
  /\ LET added == NewGuards(r, items)
     IN  guard_mapping' = [guard_mapping EXCEPT ![r] = [t \in Types |-> @[t] \o added[t]]]
  /\ UNCHANGED <<defined, anywise>>

(* MessageRegistry.register, and its use as a decorator.                   *)
Register(r) == \E items \in RegisterCalls[r] : Collect("register", r, items)

(* add_guards, pre_handle and post_handle.                                 *)
AddGuards(r) == \E items \in GuardCalls[r] : Collect("add_guards", r, items)

IncludeGuardsUnsorted(r) ==
  /\ global_guards' = global_guards
  /\ guards' = [t \in Types |-> IF t \in DOMAIN guards
                                THEN guards[t] \o guard_mapping[r][t]
                                ELSE guard_mapping[r][t]]

(* HandlerManager.include_guards: those for typing.Any are kept apart.     *)
IncludeGuards(r) ==
  /\ global_guards' = global_guards \o guard_mapping[r][AnyType]
  /\ guards' = [t \in DOMAIN guards |-> guards[t] \o guard_mapping[r][t]]

IncludeListenersAnew(r) ==
  listener_metas' = [t \in Types |->
    IF event_mapping[r][t] = <<>> THEN listener_metas[t] ELSE event_mapping[r][t]]

(* ListenerManager.include_listeners                                       *)
IncludeListeners(r) ==
  listener_metas' = [t \in Types |-> listener_metas[t] \o event_mapping[r][t]]

(* Anywise.include, one registry at a time.                                *)
Include(r) ==
  /\ Ends("include", r, <<>>, FALSE)
  /\ handler_metas' = Update(handler_metas, command_mapping[r])
  /\ IncludeGuards(r)
  /\ IncludeListeners(r)
  /\ UNCHANGED <<defined, registry>>

Init ==
  /\ defined = FirstTypes
  /\ command_mapping = [r \in Registries |-> <<>>]
  /\ event_mapping = [r \in Registries |-> [t \in Types |-> <<>>]]
  /\ guard_mapping = [r \in Registries |-> [t \in Types |-> <<>>]]
  /\ handler_metas = <<>>
  /\ guards = [t \in Types \ {AnyType} |-> <<>>]
  /\ global_guards = <<>>
  /\ listener_metas = [t \in Types |-> <<>>]
  /\ calls = <<>>

Next ==
  \/ \E c \in Types : Define(c)
  \/ \E r \in Registries : Register(r) \/ AddGuards(r) \/ Include(r)

Spec == Init /\ [][Next]_vars

-----------------------------------------------------------------------------
(* What the calls so far amount to, said without the mappings.             *)

(* The classes an annotation meant in a call: those that existed by then   *)
(* and are subclasses of a class that it names.                            *)
Meant(c, annotation) == {t \in c.seen : annotation \cap Above[t] # {}}

(* A signature counts only when all that it meant is of the base.  A       *)
(* registee with no signature that counts is refused for the base, and     *)
(* what is refused for all bases ends its call.                            *)
Counts(c, base, annotation) == \A u \in Meant(c, annotation) : base \in Above[u]

Signed(c, base, annotation) ==
  IF Counts(c, base, annotation) THEN Meant(c, annotation) ELSE {}

RefusedFor(c, base, h) ==
  /\ base # MISSING
  /\ \A k \in DOMAIN Signatures[h] :
       \/ ~ Counts(c, base, Signatures[h][k])
       \/ h \in Classes /\ Meant(c, Signatures[h][k]) = {}

Accepts(c, x) ==
  IF x \in Guards THEN x \notin Instances
  ELSE \E base \in {CommandBase[c.reg], EventBase[c.reg]} : ~ RefusedFor(c, base, x)

Accepted(c) ==
  LET refused == {i \in DOMAIN c.what : ~ Accepts(c, c.what[i])}
  IN  {i \in DOMAIN c.what : \A j \in refused : i < j}

(* What a call contributes for type t.                                     *)
Contributed(c, base, t) ==
  LET taken == UNION {UNION {{<<i, k, u>> : u \in Signed(c, base, Signatures[c.what[i]][k])} :
                               k \in DOMAIN Signatures[c.what[i]]} :
                        i \in {j \in Accepted(c) : c.what[j] \in Registees}}
  IN  InTurn(c.what, taken, t)

Guarded(c, t) ==
  LET accepted == Accepted(c)
  IN  FlattenSeq([i \in DOMAIN c.what |->
        IF /\ i \in accepted /\ c.what[i] \in Guards
           /\ t \in Meant(c, GuardTarget[c.what[i]])
        THEN <<c.what[i]>> ELSE <<>>])

(* What registry r holds for type t after a series of calls ...            *)
Registered(past, r, base, t) ==
  FlattenSeq([i \in DOMAIN past |->
    IF past[i].call # "include" /\ past[i].reg = r
    THEN Contributed(past[i], base, t) ELSE <<>>])

Listeners(past, r, t) == Registered(past, r, EventBase[r], t)

Handlers(past, r, t) == Registered(past, r, CommandBase[r], t)

GuardsAdded(past, r, t) ==
  FlattenSeq([i \in DOMAIN past |->
    IF past[i].call # "include" /\ past[i].reg = r
    THEN Guarded(past[i], t) ELSE <<>>])

(* ... and what the includes among them took from all registries, each     *)
(* what its registry held by then.                                         *)
Before(past, i) == SubSeq(past, 1, i - 1)

ListenersIncluded(past, t) ==
  FlattenSeq([i \in DOMAIN past |->
    IF past[i].call = "include"
    THEN Listeners(Before(past, i), past[i].reg, t) ELSE <<>>])

HandlersIncluded(past, t) ==
  FlattenSeq([i \in DOMAIN past |->
    IF past[i].call = "include"
    THEN Handlers(Before(past, i), past[i].reg, t) ELSE <<>>])

GuardsIncluded(past, t) ==
  FlattenSeq([i \in DOMAIN past |->
    IF past[i].call = "include"
    THEN GuardsAdded(Before(past, i), past[i].reg, t) ELSE <<>>])

(* The handler of a type is the last of all there are, if there are any.   *)
HasLast(mapping, t, all) ==
  IF all = <<>> THEN t \notin DOMAIN mapping
                ELSE t \in DOMAIN mapping /\ mapping[t] = Last(all)

(* The command handler of a type in a registry is the last one registered  *)
(* for it or for a base of it that was known then; within a class, its     *)
(* last method.  All the rest is not there: no type of another base, no    *)
(* half of a function that is refused, and nothing that came after it in   *)
(* its call.                                                               *)
LastHandlerWins ==
  \A r \in Registries, t \in Types :
    HasLast(command_mapping[r], t, Handlers(calls, r, t))

(* An event gets every listener meant for it, once per registration and    *)
(* include, in the order of the includes and then of the registrations;    *)
(* of a call that raised, those before the one it raised for.              *)
ListenersInOrder ==
  \A t \in Types : listener_metas[t] = ListenersIncluded(calls, t)

(* A command gets every guard meant for it, once per registration and      *)
(* include (also by way of two bases at once), those for typing.Any first; *)
(* of a call that raised, those before the one it raised for.              *)
GuardsInOrder ==
  /\ global_guards = GuardsIncluded(calls, AnyType)
  /\ \A t \in Types \ {AnyType} : guards[t] = GuardsIncluded(calls, t)

(* What include_handlers does when several registries handle a command:    *)
(* the handler is the one its registry held at the last include of a       *)
(* registry with one.  docs/tutorial.md says that the lastly registered    *)
(* handler is used.  That is so within a registry (LastHandlerWins), but   *)
(* not among several: here it is the last include that counts, also if     *)
(* another registry, included before, registered its handler later.        *)
LastIncludeWins ==
  \A t \in Types : HasLast(handler_metas, t, HandlersIncluded(calls, t))

(* What a registry with both bases takes neither as a handler, nor as a    *)
(* listener, nor as a guard, of any class.  A function without an          *)
(* annotation is taken, for no class.                                      *)
Lost(c, x) ==
  \/ x \in Instances
  \/ /\ x \in Classes \/ (x \in Registees /\ Signatures[x] # <<{}>>)
     /\ \A k \in DOMAIN Signatures[x] :
          \A base \in {CommandBase[c.reg], EventBase[c.reg]} :
            Signed(c, base, Signatures[x][k]) = {}

(* In such a registry a call raises exactly if something that it was given *)
(* is lost: nothing is dropped without an exception, and nothing that was  *)
(* taken for one base is refused for the other.  An instance of a guard is *)
(* lost, though docs/tutorial.md has it that one may be added.             *)
RaisesForWhatIsLost ==
  \A i \in DOMAIN calls :
    MISSING \notin {CommandBase[calls[i].reg], EventBase[calls[i].reg]} =>
      (calls[i].raised <=> \E k \in DOMAIN calls[i].what : Lost(calls[i], calls[i].what[k]))

(* docs/tutorial.md: targeting a base command means targeting all its      *)
(* subcommands.  Every command with a handler is guarded by all guards     *)
(* that were included and target a base of it.                             *)
SubcommandsGuarded ==
  \A t \in DOMAIN handler_metas, i, j \in DOMAIN calls :
    i < j /\ calls[j].call = "include" /\ calls[j].reg = calls[i].reg =>
      \A k \in Accepted(calls[i]) :
        LET g == calls[i].what[k] IN
        g \in Guards /\ (\E c \in GuardTarget[g] : IsSubclass(t, c))
          => g \in Range(guards[t])
=============================================================================
