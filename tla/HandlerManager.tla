--------------------------- MODULE HandlerManager ---------------------------
(***************************************************************************)
(* The path of a command: Anywise.send, HandlerManager.resolve_handler and *)
(* _chain_guards (anywise/anywise.py), the guards it links                 *)
(* (anywise/guard.py) and default_send (anywise/strategies.py), run by any *)
(* number of asyncio tasks on one event loop.                              *)
(*                                                                         *)
(* A guard built by pre_handle or post_handle is one object for each type  *)
(* it targets, shared by all messages of the type, and by all messages if  *)
(* it targets typing.Any; a BaseGuard subclass is resolved in the scope of *)
(* the message, one object per class and scope, whatever the type.  Each   *)
(* keeps the link to what comes after it in its own attribute _next_guard, *)
(* which _chain_guards rewrites for every message.                         *)
(*                                                                         *)
(* The event loop is cooperative: a task keeps it until it awaits code     *)
(* that may suspend.  `running' is the task that has not yet reached such  *)
(* an await; the others can only move when there is none.                  *)
(***************************************************************************)
EXTENDS Naturals, Sequences, FiniteSets

CONSTANTS
  Sends,          \* the calls of Anywise.send, one message each
  CmdTypes,       \* the types of the messages
  Scopes,         \* the scopes that callers open and pass to send
  PreGuards,      \* Guard(pre_handle=...) objects
  PostGuards,     \* Guard(post_handle=...) objects
  ClassGuards,    \* BaseGuard subclasses
  NoScope, NoTask, None,
  TypeOf,         \* the type of the message of each send
  ScopeArg,       \* the scope argument of each send, or NoScope
  HandlerMetas,   \* the types that have a handler
  MethodMetas,    \* those of them whose handler is a method of a class
  GlobalGuards,   \* HandlerManager._global_guards
  GuardMapping    \* HandlerManager._guard_mapping

Guards  == PreGuards \cup PostGuards \cup ClassGuards
(* A guard object, and a handler as resolved for one message, are both     *)
(* callables `handler(message, context)'.  The scope that a send opens for *)
(* itself is identified with the send.                                     *)
Instance ==
  [kind: {"guard"}, obj: PreGuards \cup PostGuards, of: {NoScope}]
    \cup [kind: {"guard"}, obj: ClassGuards, of: Scopes \cup Sends]
Handler  == [kind: {"handler"}, obj: CmdTypes, of: Sends]
Target   == Instance \cup Handler

ASSUME ConstantsAssumption ==
  /\ PreGuards  \cap PostGuards = {}
  /\ ClassGuards \cap (PreGuards \cup PostGuards) = {}
  /\ NoTask \notin Sends
  /\ NoScope \notin Scopes \cup Sends
  /\ Scopes \cap Sends = {}
  /\ None \notin Target
  /\ TypeOf \in [Sends -> CmdTypes]
  /\ ScopeArg \in [Sends -> Scopes \cup {NoScope}]
  /\ HandlerMetas \subseteq CmdTypes
  /\ MethodMetas \subseteq HandlerMetas
  /\ GlobalGuards \in Seq(Guards)
  /\ GuardMapping \in [CmdTypes -> Seq(Guards)]

VARIABLES
  next,      \* _next_guard of every guard object
  pc,        \* where each send is
  stack,     \* the guards each send is inside of, innermost first
  outcome,   \* the response or the exception a send has in hand
  opened,    \* scopes entered by send and not exited
  running,   \* the task that holds the event loop
  trail,     \* history: the callables each message has reached, in order
  clock,     \* history: how many messages have linked their chain
  turn       \* history: the place of each message among them

vars == <<next, pc, stack, outcome, opened, running, trail, clock, turn>>

Errors  == {"error", "CancelledError"}
Outcome == {"pending", "response", "UnregisteredMessageError",
            "DunglingGuardError"} \cup Errors
Pc      == {"idle", "scoped", "resolving", "guard", "forward", "handling",
            "return", "post", "raise", "done"}

TypeOK ==
  /\ next \in [Instance -> Target \cup {None}]
  /\ pc \in [Sends -> Pc]
  /\ stack \in [Sends -> Seq(Instance)]
  /\ outcome \in [Sends -> Outcome]
  /\ opened \subseteq Sends
  /\ running \in Sends \cup {NoTask}
  /\ trail \in [Sends -> Seq(Target)]
  /\ clock \in Nat
  /\ turn \in [Sends -> Nat]

-----------------------------------------------------------------------------
(* The guards of a message: command_guards, with every class resolved in   *)
(* the scope of the message.  scope.resolve returns the same object for    *)
(* the same class as long as the scope lives.                              *)

ScopeOf(t) == IF ScopeArg[t] = NoScope THEN t ELSE ScopeArg[t]

CommandGuards(t) == GlobalGuards \o GuardMapping[TypeOf[t]]

(* Variants of the definitions, each with a plausible mistake, stand beside *)
(* them: the properties below tell every one of them from the original.    *)
ResolveClassAsIs(g, t) ==
  [kind |-> IF g \in ClassGuards THEN "class" ELSE "guard", obj |-> g,
   of |-> NoScope]

ResolveInOneScope(g, t) ==
  [kind |-> "guard", obj |-> g,
   of |-> IF g \in ClassGuards THEN CHOOSE s \in Scopes : TRUE ELSE NoScope]

Resolve(g, t) ==
  [kind |-> "guard", obj |-> g,
   of |-> IF g \in ClassGuards THEN ScopeOf(t) ELSE NoScope]

Chain(t) == [i \in 1..Len(CommandGuards(t)) |-> Resolve(CommandGuards(t)[i], t)]

ResolvedHandler(t) == [kind |-> "handler", obj |-> TypeOf[t], of |-> t]

Route(t) == Append(Chain(t), ResolvedHandler(t))

(* ptr.chain_next(nxt) along the list and ptr.chain_next(handler) at its   *)
(* end: an object that is in the list more than once keeps the last link.  *)
LastAt(s, x) ==
  CHOOSE i \in DOMAIN s : s[i] = x /\ \A j \in DOMAIN s : s[j] = x => j <= i

InChain(t, x) == \E i \in DOMAIN Chain(t) : Chain(t)[i] = x

LinkedWithoutHandler(t) ==
  [x \in Instance |->
    IF InChain(t, x) /\ LastAt(Chain(t), x) < Len(Chain(t))
    THEN Route(t)[LastAt(Chain(t), x) + 1] ELSE next[x]]

LinkedToHead(t) ==
  [x \in Instance |->
    IF ~ InChain(t, x) THEN next[x]
    ELSE IF LastAt(Chain(t), x) < Len(Chain(t))
         THEN Route(t)[LastAt(Chain(t), x) + 1] ELSE Head(Chain(t))]

LinkedUnlessLinked(t) ==
  [x \in Instance |-> IF InChain(t, x) /\ next[x] = None
                       THEN Route(t)[LastAt(Chain(t), x) + 1] ELSE next[x]]

Linked(t) ==
  [x \in Instance |-> IF InChain(t, x) THEN Route(t)[LastAt(Chain(t), x) + 1]
                                       ELSE next[x]]

(* Resolving the owner of a method, or a guard class, awaits the scope.    *)
AwaitsScope(t) ==
  \/ TypeOf[t] \in MethodMetas
  \/ \E i \in DOMAIN CommandGuards(t) : CommandGuards(t)[i] \in ClassGuards

-----------------------------------------------------------------------------
CanRun(t) == running \in {t, NoTask}

At(t, where) == pc[t] = where /\ CanRun(t)

EnterThenYield(t, x) ==
  /\ trail' = [trail EXCEPT ![t] = Append(@, x)]
  /\ running' = NoTask
  /\ \/ /\ x.kind = "handler"
        /\ pc' = [pc EXCEPT ![t] = "handling"]
        /\ stack' = stack
     \/ /\ x.kind = "guard"
        /\ stack' = [stack EXCEPT ![t] = <<x>> \o @]
        /\ pc' = [pc EXCEPT ![t] =
                    IF x.obj \in PostGuards THEN "forward" ELSE "guard"]

(* Calling a guard or the handler, without giving up the event loop until  *)
(* the code of the user gets to run: the pre_handle of a Guard, the        *)
(* __call__ of a BaseGuard subclass, or the handler itself.  A Guard that  *)
(* has only a post_handle goes straight on to its _next_guard.             *)
Enter(t, x) ==
  /\ trail' = [trail EXCEPT ![t] = Append(@, x)]
  /\ \/ /\ x.kind = "handler"
        /\ pc' = [pc EXCEPT ![t] = "handling"]
        /\ running' = NoTask
        /\ stack' = stack
     \/ /\ x.kind = "guard"
        /\ stack' = [stack EXCEPT ![t] = <<x>> \o @]
        /\ IF x.obj \in PostGuards
           THEN pc' = [pc EXCEPT ![t] = "forward"] /\ running' = t
           ELSE pc' = [pc EXCEPT ![t] = "guard"] /\ running' = NoTask

Raise(t, e) ==
  /\ outcome' = [outcome EXCEPT ![t] = e]
  /\ pc' = [pc EXCEPT ![t] = "raise"]
  /\ running' = t
  /\ UNCHANGED <<next, stack, opened, trail, clock, turn>>

(* Anywise.send: without a scope argument it enters a scope of its own.    *)
Send(t) ==
  /\ At(t, "idle")
  /\ pc' = [pc EXCEPT ![t] = "scoped"]
  /\ \/ /\ ScopeArg[t] = NoScope
        /\ opened' = opened \cup {t}
        /\ running' = NoTask
     \/ /\ ScopeArg[t] # NoScope
        /\ opened' = opened
        /\ running' = t
  /\ UNCHANGED <<next, stack, outcome, trail, clock, turn>>

(* resolve_handler: look up the handler, then resolve it and its guards.   *)
ResolveHandler(t) ==
  /\ At(t, "scoped")
  /\ TypeOf[t] \in HandlerMetas
  /\ pc' = [pc EXCEPT ![t] = "resolving"]
  /\ running' = IF AwaitsScope(t) THEN NoTask ELSE t
  /\ UNCHANGED <<next, stack, outcome, opened, trail, clock, turn>>

Unregistered(t) ==
  /\ At(t, "scoped")
  /\ TypeOf[t] \notin HandlerMetas
  /\ Raise(t, "UnregisteredMessageError")

ResolveFails(t) ==
  /\ At(t, "resolving")
  /\ AwaitsScope(t)
  /\ \E e \in Errors : Raise(t, e)

(* The rest of _chain_guards, the sender and the call of the head of the   *)
(* chain: no await lies between them that could suspend.                   *)
ChainGuards(t) ==
  /\ At(t, "resolving")
  /\ next' = Linked(t)
  /\ clock' = clock + 1
  /\ turn' = [turn EXCEPT ![t] = clock']
  /\ Enter(t, Head(Route(t)))
  /\ UNCHANGED <<outcome, opened>>

(* The pre_handle returns, or the subclass calls super().__call__: the     *)
(* guard reads its _next_guard now, and calls it.                          *)
Forward(t) ==
  /\ At(t, "guard") \/ At(t, "forward")
  /\ LET x == next[Head(stack[t])] IN
       IF x = None THEN Raise(t, "DunglingGuardError")
       ELSE Enter(t, x) /\ UNCHANGED <<next, outcome, opened, clock, turn>>

Return(t) ==
  /\ outcome' = [outcome EXCEPT ![t] = "response"]
  /\ pc' = [pc EXCEPT ![t] = "return"]
  /\ running' = t
  /\ UNCHANGED <<next, opened, trail, clock, turn>>

Leave(t) == stack' = [stack EXCEPT ![t] = Tail(@)]

(* A BaseGuard subclass may answer without calling what comes after it.    *)
ShortCircuit(t) ==
  /\ At(t, "guard")
  /\ Head(stack[t]).obj \in ClassGuards
  /\ Return(t)
  /\ Leave(t)

HandlerReturns(t) ==
  /\ At(t, "handling")
  /\ Return(t)
  /\ UNCHANGED stack

(* The code of the user raises, or its task is cancelled while suspended.  *)
UserRaises(t) ==
  /\ At(t, "guard") \/ At(t, "handling") \/ At(t, "post")
  /\ \E e \in Errors : Raise(t, e)

(* The response travels back: a guard with a post_handle, and a subclass,  *)
(* run code of the user on it; a guard without one just returns it.        *)
PostHandle(t) ==
  /\ At(t, "return")
  /\ stack[t] # <<>>
  /\ Head(stack[t]).obj \notin PreGuards
  /\ pc' = [pc EXCEPT ![t] = "post"]
  /\ running' = NoTask
  /\ UNCHANGED <<next, stack, outcome, opened, trail, clock, turn>>

PostReturns(t) ==
  /\ \/ At(t, "post")
     \/ /\ At(t, "return")
        /\ stack[t] # <<>>
        /\ Head(stack[t]).obj \in PreGuards
  /\ Return(t)
  /\ Leave(t)

PropagateToPost(t) ==
  /\ At(t, "raise")
  /\ stack[t] # <<>>
  /\ IF Head(stack[t]).obj \in PostGuards
     THEN pc' = [pc EXCEPT ![t] = "post"] /\ running' = NoTask /\ stack' = stack
     ELSE pc' = pc /\ running' = t /\ Leave(t)
  /\ UNCHANGED <<next, outcome, opened, trail, clock, turn>>

PropagateForever(t) ==
  /\ At(t, "raise")
  /\ stack[t] # <<>>
  /\ running' = t
  /\ UNCHANGED <<next, pc, stack, outcome, opened, trail, clock, turn>>

(* An exception travels back: no Guard catches it, a subclass may, unless  *)
(* it is a cancellation.                                                   *)
Propagate(t) ==
  /\ At(t, "raise")
  /\ stack[t] # <<>>
  /\ Leave(t)
  /\ running' = t
  /\ UNCHANGED <<next, pc, outcome, opened, trail, clock, turn>>

Catch(t) ==
  /\ At(t, "raise")
  /\ stack[t] # <<>>
  /\ Head(stack[t]).obj \in ClassGuards
  /\ outcome[t] # "CancelledError"
  /\ Return(t)
  /\ Leave(t)

Finish(t) ==
  /\ At(t, "return") \/ At(t, "raise")
  /\ stack[t] = <<>>
  /\ pc' = [pc EXCEPT ![t] = "done"]
  /\ running' = NoTask
  /\ UNCHANGED <<next, stack, outcome, opened, trail, clock, turn>>

-----------------------------------------------------------------------------
Init ==
  /\ next = [x \in Instance |-> None]
  /\ pc = [t \in Sends |-> "idle"]
  /\ stack = [t \in Sends |-> <<>>]
  /\ outcome = [t \in Sends |-> "pending"]
  /\ opened = {}
  /\ running = NoTask
  /\ trail = [t \in Sends |-> <<>>]
  /\ clock = 0
  /\ turn = [t \in Sends |-> 0]

Step(t) ==
  \/ ResolveHandler(t) \/ Unregistered(t) \/ ResolveFails(t)
  \/ ChainGuards(t) \/ Forward(t)
  \/ ShortCircuit(t) \/ HandlerReturns(t) \/ UserRaises(t)
  \/ PostHandle(t) \/ PostReturns(t) \/ Propagate(t) \/ Catch(t)
  \/ Finish(t)

Idle(t) == pc[t] \in {"idle", "done"}

(* Every message has been dealt with: the program waits for more.          *)
Quiescent == (\A t \in Sends : pc[t] = "done") /\ UNCHANGED vars

Next == (\E t \in Sends : Send(t) \/ Step(t)) \/ Quiescent

Spec == Init /\ [][Next]_vars

(* The event loop is fair and the code of the user does not hang.          *)
Fairness == \A t \in Sends : WF_vars(Step(t))

FairSpec == Spec /\ Fairness

(* Two messages are independent if they share no guard object, apart from  *)
(* post_handle guards that lead the lists of both: those are passed before *)
(* any other message can run.                                              *)
LeadingPost(t, i) == \A k \in 1..i : CommandGuards(t)[k] \in PostGuards

Independent(t, u) ==
  \A i \in DOMAIN CommandGuards(t), j \in DOMAIN CommandGuards(u) :
    CommandGuards(t)[i] = CommandGuards(u)[j] =>
      \/ CommandGuards(t)[i] \in ClassGuards /\ ScopeOf(t) # ScopeOf(u)
      \/ LeadingPost(t, i) /\ LeadingPost(u, j)

(* A careful caller sends a message only once those that it shares a guard *)
(* object with are over.                                                   *)
CarefulNext ==
  \/ \E t \in Sends :
       /\ Send(t)
       /\ \A u \in Sends \ {t} : Idle(u) \/ Independent(t, u)
  \/ \E t \in Sends : Step(t)
  \/ Quiescent

CarefulSpec == Init /\ [][CarefulNext]_vars

-----------------------------------------------------------------------------
(* No send ends in DunglingGuardError: whatever the other messages do to   *)
(* the shared links, a guard that a message is inside of always has a next.*)
(* This is about _chain_guards and Guard.__call__, whose error message     *)
(* calls the case "most likely a bug".                                     *)
NoDangling == \A t \in Sends : outcome[t] # "DunglingGuardError"

(* Rewriting the shared links for one message while others travel along    *)
(* them never closes a cycle of guards: there is no set of guard objects   *)
(* that only link to each other.                                           *)
Acyclic ==
  \A S \in SUBSET {x \in Instance : next[x] # None} :
    (\A x \in S : next[x] \in S) => S = {}

(* The links of a message may be rewritten under it, but only by a message *)
(* linked later: no message is ever handled by the callable resolved for   *)
(* one that was linked before it, whose scope may long be over.            *)
NoStaleHandler ==
  \A t, u \in Sends : \A i \in DOMAIN trail[t] :
    trail[t][i] = ResolvedHandler(u) => turn[t] <= turn[u]

(* A post_handle runs only on a response, and only after the message has   *)
(* reached a handler or a subclass that answered for it: an exception that *)
(* travels back through Guard.__call__ skips it.                           *)
PostOnlyAfterHandled ==
  \A t \in Sends : pc[t] = "post" =>
    /\ outcome[t] = "response"
    /\ \E i \in DOMAIN trail[t] :
         trail[t][i] \in Handler \/ trail[t][i].obj \in ClassGuards

(* Every send that has begun returns or raises.                            *)
Terminates == \A t \in Sends : pc[t] # "idle" ~> pc[t] = "done"

(* A message is only ever handled by the handler of its own type.          *)
HandledByItsType ==
  \A t \in Sends : \A i \in DOMAIN trail[t] :
    trail[t][i] \in Handler => trail[t][i].obj = TypeOf[t]

(* A message reaches a handler only after every guard of its type.         *)
EveryGuardRan ==
  \A t \in Sends : \A i \in DOMAIN trail[t] :
    trail[t][i] \in Handler =>
      \A g \in 1..Len(Chain(t)) : \E j \in 1..i : trail[t][j] = Chain(t)[g]

(* The abstract view of a send: what its message has visited, and what its *)
(* caller got once it is over.                                             *)
Abstract ==
  INSTANCE Pipeline WITH
    Messages  <- Sends,
    Known     <- {t \in Sends : TypeOf[t] \in HandlerMetas},
    Path      <- [t \in Sends |-> Route(t)],
    Answering <- {x \in Instance : x.obj \in ClassGuards},
    visited   <- trail,
    verdict   <- [t \in Sends |-> IF pc[t] = "done" THEN outcome[t]
                                                    ELSE "pending"]

(* A send does what Pipeline says: its own guards, in order, and its own   *)
(* handler, or an error.                                                   *)
Pipelined == Abstract!Spec
=============================================================================
