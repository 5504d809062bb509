-------------------------- MODULE ListenerManager ---------------------------
(***************************************************************************)
(* The path of an event: Anywise.publish, ListenerManager.resolve_listeners*)
(* (anywise/anywise.py) and the two strategies of anywise/strategies.py:   *)
(* default_publish awaits one listener after the other, concurrent_publish *)
(* runs them as the tasks of an asyncio.TaskGroup.                         *)
(*                                                                         *)
(* A listener that is not a coroutine function runs in a thread            *)
(* (asyncio.to_thread): cancelling the await leaves the thread running.    *)
(***************************************************************************)
EXTENDS Naturals, Sequences

CONSTANTS
  Publishes,       \* the calls of Anywise.publish, one event each
  EventTypes,
  Listeners,
  AsyncListeners,  \* those that are coroutine functions
  MethodListeners, \* those that are methods of a class
  TypeOf,          \* the type of the event of each publish
  ListenerMetas,   \* ListenerManager._listener_metas
  Publisher        \* the strategy of the Anywise that makes each publish

ASSUME ListenerAssumption ==
  /\ AsyncListeners \subseteq Listeners
  /\ MethodListeners \subseteq Listeners
  /\ TypeOf \in [Publishes -> EventTypes]
  /\ DOMAIN ListenerMetas \subseteq EventTypes
  /\ \A e \in DOMAIN ListenerMetas : ListenerMetas[e] \in Seq(Listeners) \ {<<>>}
  /\ Publisher \in [Publishes -> {"default_publish", "concurrent_publish"}]

VARIABLES
  pc,         \* where each publish is
  task,       \* the state of the call of each listener of each publish
  cancelled,  \* the publishes whose task was asked to cancel
  result      \* what each publish ended in

vars == <<pc, task, cancelled, result>>

(* A call that is not begun, under way, asked to stop, or over; one that   *)
(* is "unbegun" never will begin.  The thread of a "detached" call runs on *)
(* though nobody awaits it, until it "ended".                              *)
Unfinished == {"waiting", "running", "cancelling"}
Over       == {"returned", "raised", "cancelled"}
Call       == Unfinished \cup Over \cup {"unbegun", "detached", "ended"}

Result == {"pending", "ok", "error", "CancelledError", "ExceptionGroup",
           "UnregisteredMessageError"}

TypeOK ==
  /\ pc \in [Publishes -> {"idle", "scoped", "publishing", "joining", "done"}]
  /\ task \in [Publishes -> Seq(Call)]
  /\ cancelled \subseteq Publishes
  /\ result \in [Publishes -> Result]

Metas(p) == ListenerMetas[TypeOf[p]]

Calls(p, states) == {i \in DOMAIN task[p] : task[p][i] \in states}

Put(p, i, state) == task' = [task EXCEPT ![p][i] = state]

Conclude(p, r) ==
  /\ pc' = [pc EXCEPT ![p] = "done"]
  /\ result' = [result EXCEPT ![p] = r]

-----------------------------------------------------------------------------
Publish(p) ==
  /\ pc[p] = "idle"
  /\ pc' = [pc EXCEPT ![p] = "scoped"]
  /\ UNCHANGED <<task, cancelled, result>>

UnregisteredEscapes(p) ==
  /\ pc[p] = "scoped"
  /\ TypeOf[p] \notin DOMAIN ListenerMetas
  /\ Conclude(p, "KeyError")
  /\ UNCHANGED <<task, cancelled>>

Unregistered(p) ==
  /\ pc[p] = "scoped"
  /\ TypeOf[p] \notin DOMAIN ListenerMetas
  /\ Conclude(p, "UnregisteredMessageError")
  /\ UNCHANGED <<task, cancelled>>

(* Resolving the owner of a method listener may fail, or be cancelled.     *)
ResolveFails(p) ==
  /\ pc[p] = "scoped"
  /\ TypeOf[p] \in DOMAIN ListenerMetas
  /\ \E i \in DOMAIN Metas(p) : Metas(p)[i] \in MethodListeners
  /\ \E e \in {"error", "CancelledError"} : Conclude(p, e)
  /\ UNCHANGED <<task, cancelled>>

(* All listeners are resolved before the strategy calls the first of them. *)
ResolveListeners(p) ==
  /\ pc[p] = "scoped"
  /\ TypeOf[p] \in DOMAIN ListenerMetas
  /\ pc' = [pc EXCEPT ![p] = "publishing"]
  /\ task' = [task EXCEPT ![p] = [i \in DOMAIN Metas(p) |-> "waiting"]]
  /\ UNCHANGED <<cancelled, result>>

(* for listener in listeners: await listener(...).  CallNextAnyway is the  *)
(* same loop with the exceptions of the listeners swallowed.               *)
CallNextAnyway(p) ==
  /\ Publisher[p] = "default_publish"
  /\ pc[p] = "publishing"
  /\ \E i \in Calls(p, {"waiting"}) :
       /\ \A j \in 1..i - 1 : task[p][j] \notin Unfinished
       /\ Put(p, i, "running")
  /\ UNCHANGED <<pc, cancelled, result>>

CallNext(p) ==
  /\ Publisher[p] = "default_publish"
  /\ pc[p] = "publishing"
  /\ \E i \in Calls(p, {"waiting"}) :
       /\ \A j \in 1..i - 1 : task[p][j] = "returned"
       /\ Put(p, i, "running")
  /\ UNCHANGED <<pc, cancelled, result>>

(* The event loop starts the tasks of the group one by one.                *)
StartTask(p) ==
  /\ Publisher[p] = "concurrent_publish"
  /\ pc[p] = "publishing"
  /\ \E i \in Calls(p, {"waiting"}) : Put(p, i, "running")
  /\ UNCHANGED <<pc, cancelled, result>>

(* A listener returns or raises; a coroutine may also end in               *)
(* CancelledError, by itself or when asked to stop.  When asked, what it   *)
(* does is up to it.                                                       *)
ListenerEnds(p) ==
  /\ \E i \in Calls(p, {"running", "cancelling"}), state \in Over :
       /\ state = "cancelled" => Metas(p)[i] \in AsyncListeners
       /\ Put(p, i, state)
  /\ UNCHANGED <<pc, cancelled, result>>

ThreadEnds(p) ==
  /\ \E i \in Calls(p, {"detached"}) : Put(p, i, "ended")
  /\ UNCHANGED <<pc, cancelled, result>>

StoppedOnceBegun(p, i, withdrawn) ==
  CASE task[p][i] = "running" ->
         IF Metas(p)[i] \in AsyncListeners THEN "cancelling"
         ELSE IF i \in withdrawn THEN "cancelled" ELSE "detached"
    [] OTHER -> task[p][i]

(* What becomes of a call that is cancelled: a task that has not begun     *)
(* never will, a coroutine is asked to stop, a thread is no longer awaited *)
(* (or is withdrawn, if the pool has not started it).                      *)
Stopped(p, i, withdrawn) ==
  CASE task[p][i] = "waiting" /\ Publisher[p] = "concurrent_publish" -> "unbegun"
    [] task[p][i] = "running" ->
         IF Metas(p)[i] \in AsyncListeners THEN "cancelling"
         ELSE IF i \in withdrawn THEN "cancelled" ELSE "detached"
    [] OTHER -> task[p][i]

StopAll(p) ==
  \E withdrawn \in SUBSET Calls(p, {"running"}) :
    task' = [task EXCEPT ![p] = [i \in DOMAIN @ |-> Stopped(p, i, withdrawn)]]

(* The task of the caller is cancelled while it awaits the listeners, at   *)
(* most once in this model.                                                *)
Cancel(p) ==
  /\ pc[p] = "publishing"
  /\ p \notin cancelled
  /\ Publisher[p] = "default_publish" => Calls(p, {"running"}) # {}
  /\ cancelled' = cancelled \cup {p}
  /\ StopAll(p)
  /\ pc' = [pc EXCEPT ![p] = IF Publisher[p] = "concurrent_publish"
                             THEN "joining" ELSE @]
  /\ UNCHANGED <<result>>

(* A task of the group failed: the group cancels the others.               *)
Abort(p) ==
  /\ Publisher[p] = "concurrent_publish"
  /\ pc[p] = "publishing"
  /\ Calls(p, {"raised"}) # {}
  /\ StopAll(p)
  /\ pc' = [pc EXCEPT ![p] = "joining"]
  /\ UNCHANGED <<cancelled, result>>

LoopEndsQuietly(p) ==
  /\ Publisher[p] = "default_publish"
  /\ pc[p] = "publishing"
  /\ \/ /\ Calls(p, {"cancelled", "detached", "ended"}) # {}
        /\ Conclude(p, "CancelledError")
     \/ /\ Calls(p, Unfinished) = {}
        /\ Conclude(p, "ok")
  /\ UNCHANGED <<task, cancelled>>

(* The loop of default_publish ends with the listeners, or with the first  *)
(* of them that does not return.                                           *)
LoopEnds(p) ==
  /\ Publisher[p] = "default_publish"
  /\ pc[p] = "publishing"
  /\ \/ /\ Calls(p, {"raised"}) # {}
        /\ Conclude(p, "error")
     \/ /\ Calls(p, {"cancelled", "detached", "ended"}) # {}
        /\ Conclude(p, "CancelledError")
     \/ /\ Calls(p, {"returned"}) = DOMAIN task[p]
        /\ Conclude(p, "ok")
  /\ UNCHANGED <<task, cancelled>>

(* What leaves the group once its tasks are over: the errors of the tasks, *)
(* or else the cancellation of the caller.  A CancelledError that a task   *)
(* raised by itself is dropped.                                            *)
CancelledFirst(p) ==
  IF p \in cancelled THEN "CancelledError"
  ELSE IF Calls(p, {"raised"}) # {} THEN "ExceptionGroup" ELSE "ok"

Verdict(p) ==
  IF Calls(p, {"raised"}) # {} THEN "ExceptionGroup"
  ELSE IF p \in cancelled THEN "CancelledError" ELSE "ok"

(* Gather concludes as asyncio.gather would: at the first failure.         *)
Gather(p) ==
  /\ Publisher[p] = "concurrent_publish"
  /\ pc[p] \in {"publishing", "joining"}
  /\ Calls(p, Unfinished) = {} \/ Calls(p, {"raised"}) # {}
  /\ Conclude(p, Verdict(p))
  /\ UNCHANGED <<task, cancelled>>

(* The end of the `async with TaskGroup()' block.                          *)
Join(p) ==
  /\ Publisher[p] = "concurrent_publish"
  /\ pc[p] \in {"publishing", "joining"}
  /\ Calls(p, Unfinished) = {}
  /\ Conclude(p, Verdict(p))
  /\ UNCHANGED <<task, cancelled>>

-----------------------------------------------------------------------------
Init ==
  /\ pc = [p \in Publishes |-> "idle"]
  /\ task = [p \in Publishes |-> <<>>]
  /\ cancelled = {}
  /\ result = [p \in Publishes |-> "pending"]

Step(p) ==
  \/ Unregistered(p) \/ ResolveFails(p) \/ ResolveListeners(p)
  \/ CallNext(p) \/ StartTask(p) \/ ListenerEnds(p)
  \/ Abort(p) \/ LoopEnds(p) \/ Join(p)

Quiescent ==
  /\ \A p \in Publishes : pc[p] = "done" /\ Calls(p, {"detached"}) = {}
  /\ UNCHANGED vars

Next ==
  \/ \E p \in Publishes :
       Publish(p) \/ Step(p) \/ ThreadEnds(p) \/ Cancel(p)
  \/ Quiescent

Spec == Init /\ [][Next]_vars

(* The event loop is fair and the listeners do not hang.                   *)
FairSpec == Spec /\ \A p \in Publishes : WF_vars(Step(p))

-----------------------------------------------------------------------------
(* default_publish calls the listeners one after the other, each only when *)
(* all before it have returned: a failure, and a cancellation that the     *)
(* listener does not swallow, is the last thing that happens.              *)
OneAfterAnother ==
  \A p \in Publishes : Publisher[p] = "default_publish" =>
    \A i, j \in DOMAIN task[p] :
      i < j /\ task[p][j] # "waiting" => task[p][i] = "returned"

(* However a publish ends, none of its coroutines runs on after it: of the *)
(* calls it made, only threads that cannot be stopped may outlive it.      *)
NoneLeftBehind ==
  \A p \in Publishes :
    pc[p] = "done" => Calls(p, {"running", "cancelling"}) = {}

(* The exception of a listener always reaches the publisher, also when its *)
(* task is cancelled while the other listeners are being stopped, and a    *)
(* publisher that was told of an error has a listener that raised it.      *)
FailureNotLost ==
  \A p \in Publishes : pc[p] = "done" /\ task[p] # <<>> =>
    (Calls(p, {"raised"}) # {} <=> result[p] \in {"error", "ExceptionGroup"})

(* Every publish that has begun ends, whatever fails or is cancelled.      *)
Terminates == \A p \in Publishes : pc[p] # "idle" ~> pc[p] = "done"

(* The abstract view of a publish: its listeners, those that were called,  *)
(* those the publisher waits for, those that raised, and what it was told. *)
Audience == [p \in Publishes |-> IF TypeOf[p] \in DOMAIN ListenerMetas
                                 THEN DOMAIN Metas(p) ELSE {}]
called   == [p \in Publishes |-> Calls(p, Call \ {"waiting", "unbegun"})]
busy     == [p \in Publishes |-> Calls(p, {"running", "cancelling"})]
failed   == [p \in Publishes |-> Calls(p, {"raised"})]
verdict  == [p \in Publishes |->
               IF result[p] # "pending" /\ task[p] = <<>> THEN "refused"
               ELSE IF result[p] = "ExceptionGroup" THEN "error"
               ELSE result[p]]

Abstract == INSTANCE Delivery WITH Events <- Publishes

(* Either strategy does what Delivery says: nobody is called twice, or     *)
(* once the publisher was answered; the answer is an error exactly if a    *)
(* listener raised, and otherwise "ok" only if all were called.            *)
Delivers == Abstract!Spec
=============================================================================
