------------------------------ MODULE Anywise ------------------------------
(***************************************************************************)
(* Registries and messages together: Anywise.include may run at any time,  *)
(* also while messages are between the lookup of their handler, of their   *)
(* guards and of their listeners (HandlerManager.resolve_handler,          *)
(* ListenerManager.resolve_listeners, anywise/anywise.py).  What a caller  *)
(* can learn beforehand is what Inspect tells.                             *)
(*                                                                         *)
(* Looking up a function and copying the guards is one step of the event   *)
(* loop; resolving the owner of a method awaits, and includes may come     *)
(* between.  The list of listeners is not copied: it is walked while it    *)
(* may grow.                                                               *)
(***************************************************************************)
EXTENDS MessageRegistry

CONSTANTS
  Sends,         \* the calls of Anywise.send
  Publishes,     \* the calls of Anywise.publish
  MessageType    \* the class of the message of each

ASSUME MessageAssumption ==
  /\ Sends \cap Publishes = {}
  /\ \A m \in Sends \cup Publishes : MessageType[m] \in Types \ {AnyType}
  /\ MISSING \notin Meta

VARIABLES
  pc,          \* where each call is
  handler,     \* the handler found for each send, a meta or MISSING
  chain,       \* the guards it was given
  resolved,    \* the listeners found so far for each publish
  told,        \* history: what Inspect told when the message was sent, and
               \* how many calls of the registries had ended by then
  lookedUp     \* history: how many had ended at the lookup

messages == <<pc, handler, chain, resolved, told, lookedUp>>
allVars  == <<vars, messages>>

Pc == {"idle", "called", "resolving", "ready", "UnregisteredMessageError"}

MessagesOK ==
  /\ pc \in [Sends \cup Publishes -> Pc]
  /\ \A s \in Sends : handler[s] \in Meta \cup {MISSING}
  /\ chain \in [Sends -> Seq(Guards)]
  /\ resolved \in [Publishes -> Seq(Meta)]
  /\ \A s \in Sends : pc[s] = "ready" => handler[s] # MISSING
  /\ \A m \in Sends \cup Publishes : lookedUp[m] \in 0..Len(calls)

-----------------------------------------------------------------------------
(* Inspect.handler, Inspect.guards and Inspect.listeners                   *)
InspectHandler(t) == IF t \in DOMAIN handler_metas THEN handler_metas[t] ELSE MISSING

InspectGuards(t) == global_guards \o guards[t]

InspectListeners(t) == listener_metas[t]

Inspected(t) ==
  [handler |-> InspectHandler(t), guards |-> InspectGuards(t),
   listeners |-> InspectListeners(t), at |-> Len(calls)]

-----------------------------------------------------------------------------
(* Anywise.send and Anywise.publish: entering a scope may suspend.         *)
Call(m) ==
  /\ pc[m] = "idle"
  /\ MessageType[m] \in defined
  /\ pc' = [pc EXCEPT ![m] = "called"]
  /\ told' = [told EXCEPT ![m] = Inspected(MessageType[m])]
  /\ UNCHANGED <<vars, handler, chain, resolved, lookedUp>>

Refuse(m, error) ==
  /\ pc[m] = "called"
  /\ IF m \in Sends THEN MessageType[m] \notin DOMAIN handler_metas
                    ELSE listener_metas[MessageType[m]] = <<>>
  /\ pc' = [pc EXCEPT ![m] = error]
  /\ lookedUp' = [lookedUp EXCEPT ![m] = Len(calls)]
  /\ UNCHANGED <<vars, handler, chain, resolved, told>>

UnregisteredEscapes(m) == Refuse(m, "KeyError")

Unregistered(m) == Refuse(m, "UnregisteredMessageError")

(* command_guards: one copy of both lists.                                 *)
CommandGuards(s) == global_guards \o guards[MessageType[s]]

LookUp(s) ==
  /\ pc[s] = "called"
  /\ MessageType[s] \in DOMAIN handler_metas
  /\ handler' = [handler EXCEPT ![s] = handler_metas[MessageType[s]]]
  /\ lookedUp' = [lookedUp EXCEPT ![s] = Len(calls)]
  /\ UNCHANGED <<vars, resolved, told>>

(* resolve_handler, for a handler that is a function.                      *)
ResolveFunction(s) ==
  /\ LookUp(s)
  /\ handler'[s].of \notin Classes
  /\ chain' = [chain EXCEPT ![s] = CommandGuards(s)]
  /\ pc' = [pc EXCEPT ![s] = "ready"]

(* ... and for a method: `await scope.resolve(meta.owner_type)'            *)
ResolveMethod(s) ==
  /\ LookUp(s)
  /\ handler'[s].of \in Classes
  /\ pc' = [pc EXCEPT ![s] = "resolving"]
  /\ UNCHANGED chain

ReadGuardsAsTold(s) ==
  /\ s \in Sends
  /\ pc[s] = "resolving"
  /\ chain' = [chain EXCEPT ![s] = told[s].guards]
  /\ pc' = [pc EXCEPT ![s] = "ready"]
  /\ UNCHANGED <<vars, handler, resolved, told, lookedUp>>

(* _chain_guards begins when the owner of the method is there.             *)
ReadGuards(s) ==
  /\ pc[s] = "resolving"
  /\ chain' = [chain EXCEPT ![s] = CommandGuards(s)]
  /\ pc' = [pc EXCEPT ![s] = "ready"]
  /\ UNCHANGED <<vars, handler, resolved, told, lookedUp>>

(* resolve_listeners walks the list as far as the next method, whose owner *)
(* it awaits, or to the end.  The iterator sees what was appended          *)
(* meanwhile.                                                              *)
ResolveListeners(p) ==
  LET metas   == listener_metas[MessageType[p]]
      methods == {i \in Len(resolved[p]) + 1..Len(metas) : metas[i].of \in Classes}
  IN  /\ pc[p] \in {"called", "resolving"}
      /\ metas # <<>>
      /\ resolved' = [resolved EXCEPT ![p] =
           @ \o SubSeq(metas, Len(@) + 1,
                       IF methods = {} THEN Len(metas) ELSE Min(methods))]
      /\ pc' = [pc EXCEPT ![p] = IF methods = {} THEN "ready" ELSE "resolving"]
      /\ lookedUp' = IF pc[p] = "called"
                     THEN [lookedUp EXCEPT ![p] = Len(calls)] ELSE lookedUp
      /\ UNCHANGED <<vars, handler, chain, told>>

-----------------------------------------------------------------------------
AnywiseInit ==
  /\ Init
  /\ pc = [m \in Sends \cup Publishes |-> "idle"]
  /\ handler = [s \in Sends |-> MISSING]
  /\ chain = [s \in Sends |-> <<>>]
  /\ resolved = [p \in Publishes |-> <<>>]
  /\ told = [m \in Sends \cup Publishes |-> Inspected(MessageType[m])]
  /\ lookedUp = [m \in Sends \cup Publishes |-> 0]

AnywiseNext ==
  \/ Next /\ UNCHANGED messages
  \/ \E m \in Sends \cup Publishes : Call(m) \/ Unregistered(m)
  \/ \E s \in Sends : ResolveFunction(s) \/ ResolveMethod(s) \/ ReadGuards(s)
  \/ \E p \in Publishes : ResolveListeners(p)

AnywiseSpec == AnywiseInit /\ [][AnywiseNext]_allVars

-----------------------------------------------------------------------------
(* The first n calls.                                                      *)
Past(n) == SubSeq(calls, 1, n)

(* The guards of a message are those of one moment, the global ones and    *)
(* those of its type, and that moment is not before the one its handler is *)
(* from: a handler that is included together with its guards is never run  *)
(* without them, whenever the include happens.                             *)
GuardsOfOneMoment ==
  \A s \in Sends : pc[s] = "ready" =>
    /\ handler[s] = Last(HandlersIncluded(Past(lookedUp[s]), MessageType[s]))
    /\ \E n \in lookedUp[s]..Len(calls) :
         chain[s] = GuardsIncluded(Past(n), AnyType)
                      \o GuardsIncluded(Past(n), MessageType[s])

(* The i-th of the calls is an include that makes h the handler of type t.  *)
Gives(past, i, t, h) ==
  /\ past[i].call = "include"
  /\ LET held == Handlers(Before(past, i), past[i].reg, t)
     IN  held # <<>> /\ h = Last(held)

(* All of one sequence in another, in its order, with something between    *)
(* two parts of it and after it.                                           *)
Within(old, new) ==
  \E cut \in 0..Len(old), shift \in 0..Len(new) :
    \A i \in 1..Len(old) :
      LET j == IF i <= cut THEN i ELSE i + shift
      IN  j \in 1..Len(new) /\ new[j] = old[i]

(* What Inspect told holds of a message that is sent or published then,    *)
(* whatever is included before it gets through:                            *)
(*   - it is not refused if a handler or a listener was there;             *)
(*   - its handler is the one that was told, or one that an include gave   *)
(*     its type after that and before it was looked up;                    *)
(*   - it goes through all guards that were told, in their order;          *)
(*   - the listeners that were there are called, in that order and first,  *)
(*     and the others were included since.                                 *)
ToldIsKept ==
  /\ \A s \in Sends :
       /\ pc[s] = "UnregisteredMessageError" => told[s].handler = MISSING
       /\ pc[s] \in {"resolving", "ready"} =>
            \/ handler[s] = told[s].handler
            \/ \E i \in told[s].at + 1..lookedUp[s] :
                 Gives(calls, i, MessageType[s], handler[s])
       /\ pc[s] = "ready" => Within(told[s].guards, chain[s])
  /\ \A p \in Publishes :
       /\ pc[p] = "UnregisteredMessageError" => told[p].listeners = <<>>
       /\ IsPrefix(resolved[p], InspectListeners(MessageType[p]))
       /\ pc[p] = "ready" => IsPrefix(told[p].listeners, resolved[p])
=============================================================================
