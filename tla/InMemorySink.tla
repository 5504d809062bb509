---------------------------- MODULE InMemorySink ----------------------------
(***************************************************************************)
(* Anywise.sink (anywise/anywise.py) and InMemorySink                      *)
(* (anywise/sink/__init__.py): an event, or a sequence of events, is put   *)
(* into an asyncio.Queue of a bounded volume that a consumer takes from.   *)
(*                                                                         *)
(* A put that finds room does not give up the event loop, so a sequence    *)
(* goes in as far as it fits, in one step.  A put that finds none waits    *)
(* its turn in the queue's _putters; taking an event wakes one of them,    *)
(* which looks again when it gets to run: others may have come first.      *)
(***************************************************************************)
EXTENDS Naturals, Sequences, FiniteSets, SequencesExt

CONSTANTS
  Sinks,    \* the calls of Anywise.sink
  Unset,    \* those on an Anywise that has no sink
  Batch,    \* how many events each call sinks
  Volume    \* the size of the queue, 0 for no bound

ASSUME SinkAssumption ==
  /\ Unset \subseteq Sinks
  /\ Batch \in [Sinks -> Nat]
  /\ Volume \in Nat

VARIABLES
  queue,    \* the events in the queue, each as the call and its place in it
  sunk,     \* how many events of each call were put
  pc,       \* where each call is
  putters,  \* the calls that wait for room, first come first
  taken     \* history: the events the consumer took

vars == <<queue, sunk, pc, putters, taken>>

Event == Sinks \X (Nat \ {0})

TypeOK ==
  /\ queue \in Seq(Event)
  /\ sunk \in [Sinks -> Nat]
  /\ pc \in [Sinks -> {"idle", "waiting", "woken", "cancelling",
                       "done", "cancelled", "SinkUnsetError"}]
  /\ putters \in Seq(Sinks)
  /\ taken \in Seq(Event)

Full == Volume > 0 /\ Len(queue) >= Volume

EventsFromZero(s, from, to) == [i \in 1..to - from |-> <<s, from + i - 1>>]

Events(s, from, to) == [i \in 1..to - from |-> <<s, from + i>>]

ReachOneMore(s) ==
  IF Volume = 0 \/ Batch[s] - sunk[s] <= Volume - Len(queue) THEN Batch[s]
  ELSE IF Full /\ pc[s] = "woken" THEN sunk[s] + 1
  ELSE sunk[s] + (Volume - Len(queue))

(* How far call s gets before the queue is full.                           *)
Reach(s) ==
  IF Volume = 0 \/ Batch[s] - sunk[s] <= Volume - Len(queue)
  THEN Batch[s] ELSE sunk[s] + (Volume - Len(queue))

(* for e in event: await self._queue.put(e), until it is over or must wait *)
PutFromNext(s) ==
  /\ queue' = queue \o Events(s, sunk[s], Reach(s))
  /\ IF Reach(s) = Batch[s]
     THEN /\ sunk' = [sunk EXCEPT ![s] = Batch[s]]
          /\ pc' = [pc EXCEPT ![s] = "done"]
          /\ putters' = putters
     ELSE /\ sunk' = [sunk EXCEPT ![s] = Reach(s) + 1]
          /\ pc' = [pc EXCEPT ![s] = "waiting"]
          /\ putters' = Append(putters, s)

PutInFront(s) ==
  /\ queue' = Events(s, sunk[s], Reach(s)) \o queue
  /\ sunk' = [sunk EXCEPT ![s] = Reach(s)]
  /\ IF Reach(s) = Batch[s]
     THEN /\ pc' = [pc EXCEPT ![s] = "done"]
          /\ putters' = putters
     ELSE /\ pc' = [pc EXCEPT ![s] = "waiting"]
          /\ putters' = Append(putters, s)

Put(s) ==
  /\ queue' = queue \o Events(s, sunk[s], Reach(s))
  /\ sunk' = [sunk EXCEPT ![s] = Reach(s)]
  /\ IF Reach(s) = Batch[s]
     THEN /\ pc' = [pc EXCEPT ![s] = "done"]
          /\ putters' = putters
     ELSE /\ pc' = [pc EXCEPT ![s] = "waiting"]
          /\ putters' = Append(putters, s)

Sink(s) ==
  /\ pc[s] = "idle"
  /\ s \notin Unset
  /\ Put(s)
  /\ UNCHANGED taken

SinkUnset(s) ==
  /\ pc[s] = "idle"
  /\ s \in Unset
  /\ pc' = [pc EXCEPT ![s] = "SinkUnsetError"]
  /\ UNCHANGED <<queue, sunk, putters, taken>>

(* while self.full(): a call that was woken looks again.                   *)
Resume(s) ==
  /\ pc[s] = "woken"
  /\ Put(s)
  /\ UNCHANGED taken

(* The first of the calls that wait may look again.                        *)
WakeNext(state) ==
  IF putters = <<>> THEN pc' = state /\ putters' = putters
  ELSE /\ pc' = [state EXCEPT ![Head(putters)] = "woken"]
       /\ putters' = Tail(putters)

(* The task of the caller is cancelled while it waits, or after it was     *)
(* woken and before it runs.                                               *)
Cancel(s) ==
  /\ \/ /\ pc[s] = "waiting"
        /\ pc' = [pc EXCEPT ![s] = "cancelled"]
        /\ \E i \in DOMAIN putters :
             putters[i] = s /\ putters' = RemoveAt(putters, i)
     \/ /\ pc[s] = "woken"
        /\ pc' = [pc EXCEPT ![s] = "cancelling"]
        /\ putters' = putters
  /\ UNCHANGED <<queue, sunk, taken>>

GiveUpSilently(s) ==
  /\ pc[s] = "cancelling"
  /\ pc' = [pc EXCEPT ![s] = "cancelled"]
  /\ UNCHANGED <<queue, sunk, putters, taken>>

(* A call that was woken for nothing wakes the next, if there is room.     *)
GiveUp(s) ==
  /\ pc[s] = "cancelling"
  /\ LET over == [pc EXCEPT ![s] = "cancelled"] IN
       IF Full THEN pc' = over /\ putters' = putters ELSE WakeNext(over)
  /\ UNCHANGED <<queue, sunk, taken>>

TakeSilently ==
  /\ queue # <<>>
  /\ queue' = Tail(queue)
  /\ taken' = Append(taken, Head(queue))
  /\ IF Full THEN WakeNext(pc) ELSE UNCHANGED <<pc, putters>>
  /\ UNCHANGED sunk

(* The consumer takes an event.                                            *)
Take ==
  /\ queue # <<>>
  /\ queue' = Tail(queue)
  /\ taken' = Append(taken, Head(queue))
  /\ WakeNext(pc)
  /\ UNCHANGED sunk

-----------------------------------------------------------------------------
Init ==
  /\ queue = <<>>
  /\ sunk = [s \in Sinks |-> 0]
  /\ pc = [s \in Sinks |-> "idle"]
  /\ putters = <<>>
  /\ taken = <<>>

Over(s) == pc[s] \in {"done", "cancelled", "SinkUnsetError"}

Quiescent ==
  (\A s \in Sinks : Over(s)) /\ queue = <<>> /\ UNCHANGED vars

Next ==
  \/ \E s \in Sinks : Sink(s) \/ SinkUnset(s) \/ Resume(s) \/ Cancel(s) \/ GiveUp(s)
  \/ Take
  \/ Quiescent

Spec == Init /\ [][Next]_vars

(* The event loop is fair and the consumer keeps taking.                   *)
FairSpec ==
  /\ Spec
  /\ WF_vars(Take)
  /\ \A s \in Sinks : WF_vars(Resume(s)) /\ WF_vars(GiveUp(s))

-----------------------------------------------------------------------------
(* However many calls are woken and whoever comes between, the queue never *)
(* holds more than its volume.                                             *)
WithinVolume == Volume > 0 => Len(queue) <= Volume

(* What the consumer gets of a call is what the call has put so far, each  *)
(* event once and in order, though the events of other calls may come      *)
(* between; all of them, if the call returned, and the first few, if it    *)
(* was cancelled.                                                          *)
EventsInOrder ==
  LET put == taken \o queue IN
  \A s \in Sinks :
    /\ {put[i] : i \in {j \in DOMAIN put : put[j][1] = s}} = {s} \X (1..sunk[s])
    /\ \A i, j \in DOMAIN put :
         i < j /\ put[i][1] = s /\ put[j][1] = s => put[i][2] < put[j][2]
    /\ pc[s] = "done" => sunk[s] = Batch[s]

Woken == {s \in Sinks : pc[s] \in {"woken", "cancelling"}}

(* While calls wait, there is no more room than calls that were woken for  *)
(* it: no wakeup is lost, whoever is cancelled.                            *)
NoLostWakeup ==
  putters # <<>> => Volume - Len(queue) <= Cardinality(Woken)

(* Every call that waits for room gets it, or is cancelled.                *)
SinkEnds == \A s \in Sinks : pc[s] = "waiting" ~> Over(s)

(* The abstract view: what was put so far, and how much of it was taken.   *)
Abstract ==
  INSTANCE Channel WITH
    Senders  <- Sinks,
    Amount   <- Batch,
    Capacity <- Volume,
    sent     <- taken \o queue,
    received <- Len(taken)

(* The sink is a channel: whoever waits, is woken or is cancelled, events  *)
(* are taken in the order in which they were put, and never more are under *)
(* way than the volume.                                                    *)
IsChannel == Abstract!Spec
=============================================================================
