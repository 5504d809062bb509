----------------------- MODULE ListenerManagerProofs ------------------------
(***************************************************************************)
(* What ListenerManager promises, for any number of publishes, events and  *)
(* listeners: default_publish calls one after the other, no coroutine      *)
(* outlives its publish, no failure is lost, and either strategy           *)
(* implements Delivery.                                                    *)
(***************************************************************************)
EXTENDS ListenerManager, SequenceTheorems, TLAPS

(* The calls of a publish that is answered, or has just begun.             *)
Shape(p) ==
  /\ pc[p] \in {"idle", "scoped"} => task[p] = <<>>
  /\ pc[p] \in {"publishing", "joining"} => task[p] # <<>>
  /\ pc[p] = "done" <=> result[p] # "pending"
  /\ pc[p] = "joining" => Publisher[p] = "concurrent_publish"

(* There is a call for each listener of the event.                         *)
Staffed(p) ==
  task[p] # <<>> =>
    TypeOf[p] \in DOMAIN ListenerMetas /\ DOMAIN task[p] = DOMAIN Metas(p)

InOrder(p) ==
  Publisher[p] = "default_publish" =>
    \A i, j \in DOMAIN task[p] :
      i < j /\ task[p][j] # "waiting" => task[p][i] = "returned"

(* A task is kept from beginning only where the group fails, or is         *)
(* cancelled with the caller.                                              *)
Excused(p) ==
  Calls(p, {"unbegun"}) # {} =>
    /\ Publisher[p] = "concurrent_publish"
    /\ Calls(p, {"raised"}) # {} \/ p \in cancelled

(* What the publisher was told is what became of its calls.                *)
Answered(p) ==
  pc[p] = "done" /\ task[p] # <<>> =>
    /\ Calls(p, {"running", "cancelling"}) = {}
    /\ Calls(p, {"raised"}) # {} <=> result[p] \in {"error", "ExceptionGroup"}
    /\ result[p] = "ok" => Calls(p, {"waiting", "unbegun"}) = {}
    /\ result[p] \in {"ok", "error", "ExceptionGroup", "CancelledError"}

Good(p) == Shape(p) /\ Staffed(p) /\ InOrder(p) /\ Excused(p) /\ Answered(p)

IInv == TypeOK /\ \A p \in Publishes : Good(p)

-----------------------------------------------------------------------------
LEMMA TaskShape ==
  ASSUME TypeOK, NEW p \in Publishes
  PROVE  /\ Len(task[p]) \in Nat
         /\ DOMAIN task[p] = 1..Len(task[p])
         /\ \A i \in DOMAIN task[p] : task[p][i] \in Call
         /\ task[p] = <<>> <=> DOMAIN task[p] = {}
<1>1. task[p] \in Seq(Call)
  BY DEF TypeOK
<1>2. Len(task[p]) \in Nat /\ DOMAIN task[p] = 1..Len(task[p])
  BY <1>1, LenProperties
<1>3. \A i \in DOMAIN task[p] : task[p][i] \in Call
  BY <1>1, <1>2, ElementOfSeq
<1>4. task[p] # <<>> => Len(task[p]) \in Nat \ {0}
  BY <1>1, EmptySeq
<1>5. Len(<<>>) = 0
  BY EmptySeq
<1>6. ASSUME task[p] = <<>> PROVE DOMAIN task[p] = {}
  <2>1. Len(task[p]) = 0
    BY <1>5, <1>6
  <2> QED BY <1>2, <2>1
<1>7. ASSUME task[p] # <<>> PROVE DOMAIN task[p] # {}
  <2>1. 1 \in 1..Len(task[p])
    BY <1>4, <1>7
  <2> QED BY <1>2, <2>1
<1> QED BY <1>2, <1>3, <1>6, <1>7

(* A sequence keeps its length and its type when its elements change.      *)
LEMMA ReplaceTask ==
  ASSUME TypeOK, NEW p \in Publishes, NEW f,
         DOMAIN f = DOMAIN task[p], f = [i \in DOMAIN f |-> f[i]],
         \A i \in DOMAIN f : f[i] \in Call,
         task' = [task EXCEPT ![p] = f]
  PROVE  /\ task' \in [Publishes -> Seq(Call)]
         /\ task'[p] = f
         /\ task[p] = <<>> <=> task'[p] = <<>>
         /\ \A q \in Publishes \ {p} : task'[q] = task[q]
<1>1. f \in [1..Len(task[p]) -> Call] /\ Len(task[p]) \in Nat
  BY TaskShape
<1>2. f \in Seq(Call)
  BY <1>1, SeqDef
<1>3. task' \in [Publishes -> Seq(Call)] /\ task'[p] = f
  BY <1>2 DEF TypeOK
<1>4. f = <<>> <=> DOMAIN f = {}
  <2>1. DOMAIN f = 1..Len(f) /\ Len(f) \in Nat
    BY <1>2, LenProperties
  <2>2. f # <<>> => Len(f) \in Nat \ {0}
    BY <1>2, EmptySeq
  <2>3. Len(<<>>) = 0
    BY EmptySeq
  <2>4. ASSUME f = <<>> PROVE DOMAIN f = {}
    <3>1. Len(f) = 0
      BY <2>3, <2>4
    <3> QED BY <2>1, <3>1
  <2>5. ASSUME f # <<>> PROVE DOMAIN f # {}
    <3>1. 1 \in 1..Len(f)
      BY <2>2, <2>5
    <3> QED BY <2>1, <3>1
  <2> QED BY <2>4, <2>5
<1> QED BY <1>3, <1>4, TaskShape DEF TypeOK

LEMMA PutTask ==
  ASSUME TypeOK, NEW p \in Publishes, NEW i \in DOMAIN task[p],
         NEW s \in Call, Put(p, i, s)
  PROVE  /\ task' \in [Publishes -> Seq(Call)]
         /\ task[p] = <<>> <=> task'[p] = <<>>
         /\ DOMAIN task'[p] = DOMAIN task[p]
         /\ task'[p][i] = s
         /\ \A j \in DOMAIN task[p] \ {i} : task'[p][j] = task[p][j]
         /\ \A q \in Publishes \ {p} : task'[q] = task[q]
<1> DEFINE f == [task[p] EXCEPT ![i] = s]
<1>1. task' = [task EXCEPT ![p] = f]
  BY DEF Put
<1>2. /\ DOMAIN f = DOMAIN task[p]
      /\ f = [j \in DOMAIN f |-> f[j]]
      /\ f[i] = s
      /\ \A j \in DOMAIN task[p] \ {i} : f[j] = task[p][j]
  OBVIOUS
<1>3. \A j \in DOMAIN f : f[j] \in Call
  BY <1>2, TaskShape
<1> HIDE DEF f
<1> QED BY <1>1, <1>2, <1>3, ReplaceTask

LEMMA StopTask ==
  ASSUME TypeOK, NEW p \in Publishes, StopAll(p)
  PROVE  /\ task' \in [Publishes -> Seq(Call)]
         /\ task[p] = <<>> <=> task'[p] = <<>>
         /\ DOMAIN task'[p] = DOMAIN task[p]
         /\ \A i \in DOMAIN task[p] :
              /\ task[p][i] \notin {"waiting", "running"} =>
                   task'[p][i] = task[p][i]
              /\ task[p][i] = "waiting" =>
                   task'[p][i] = IF Publisher[p] = "concurrent_publish"
                                 THEN "unbegun" ELSE "waiting"
              /\ task[p][i] = "running" =>
                   task'[p][i] \in {"cancelling", "cancelled", "detached"}
         /\ \A q \in Publishes \ {p} : task'[q] = task[q]
<1>1. PICK w \in SUBSET Calls(p, {"running"}) :
        task' = [task EXCEPT ![p] = [i \in DOMAIN task[p] |-> Stopped(p, i, w)]]
  BY DEF StopAll, TypeOK
<1> DEFINE f == [i \in DOMAIN task[p] |-> Stopped(p, i, w)]
<1>2. \A i \in DOMAIN task[p] :
        /\ task[p][i] \notin {"waiting", "running"} => f[i] = task[p][i]
        /\ task[p][i] = "waiting" =>
             f[i] = IF Publisher[p] = "concurrent_publish"
                    THEN "unbegun" ELSE "waiting"
        /\ task[p][i] = "running" =>
             f[i] \in {"cancelling", "cancelled", "detached"}
  <2> SUFFICES ASSUME NEW i \in DOMAIN task[p]
               PROVE  /\ task[p][i] \notin {"waiting", "running"} => f[i] = task[p][i]
                      /\ task[p][i] = "waiting" =>
                           f[i] = IF Publisher[p] = "concurrent_publish"
                                  THEN "unbegun" ELSE "waiting"
                      /\ task[p][i] = "running" =>
                           f[i] \in {"cancelling", "cancelled", "detached"}
    OBVIOUS
  <2>1. f[i] = Stopped(p, i, w)
    OBVIOUS
  <2>2. CASE task[p][i] \notin {"waiting", "running"}
    BY <2>1, <2>2, Zenon DEF Stopped
  <2>3. CASE task[p][i] = "waiting"
    BY <2>1, <2>3, Zenon DEF Stopped
  <2>4. CASE task[p][i] = "running"
    BY <2>1, <2>4, Zenon DEF Stopped
  <2> QED BY <2>2, <2>3, <2>4
<1>3. \A i \in DOMAIN task[p] : f[i] \in Call
  BY <1>2, TaskShape DEF Call, Unfinished, Over
<1>4. DOMAIN f = DOMAIN task[p] /\ f = [i \in DOMAIN f |-> f[i]]
  OBVIOUS
<1> HIDE DEF f
<1>5. task' = [task EXCEPT ![p] = f]
  BY <1>1 DEF f
<1> QED BY <1>2, <1>3, <1>4, <1>5, ReplaceTask

(* A step of one publish leaves the others as they are.                    *)
LEMMA OthersStay ==
  ASSUME NEW q \in Publishes, Good(q),
         UNCHANGED <<pc[q], task[q], result[q]>>,
         q \in cancelled <=> q \in cancelled'
  PROVE  Good(q)'
BY DEF Good, Shape, Staffed, InOrder, Excused, Answered, Calls, Metas

-----------------------------------------------------------------------------
(* One step of a publish: it stays well typed and good, and no other       *)
(* publish notices.                                                        *)
Kept(p) ==
  /\ TypeOK' /\ Good(p)'
  /\ \A q \in Publishes \ {p} :
       /\ UNCHANGED <<pc[q], task[q], result[q]>>
       /\ q \in cancelled <=> q \in cancelled'

LEMMA ConcludeKept ==
  ASSUME IInv, NEW p \in Publishes, NEW r \in Result \ {"pending"},
         Conclude(p, r), UNCHANGED <<task, cancelled>>, Answered(p)'
  PROVE  Kept(p)
<1>1. /\ pc'[p] = "done" /\ result'[p] = r
      /\ \A q \in Publishes \ {p} : pc'[q] = pc[q] /\ result'[q] = result[q]
  BY DEF Conclude, IInv, TypeOK
<1>2. TypeOK'
  BY DEF Conclude, IInv, TypeOK
<1>3. Shape(p)' /\ Staffed(p)' /\ InOrder(p)' /\ Excused(p)'
  BY <1>1 DEF IInv, Good, Shape, Staffed, InOrder, Excused, Calls, Metas
<1> QED BY <1>1, <1>2, <1>3 DEF Kept, Good

LEMMA PublishKept ==
  ASSUME IInv, NEW p \in Publishes, Publish(p)
  PROVE  Kept(p)
<1>1. /\ pc'[p] = "scoped"
      /\ \A q \in Publishes \ {p} : pc'[q] = pc[q]
  BY DEF Publish, IInv, TypeOK
<1>2. TypeOK'
  BY DEF Publish, IInv, TypeOK
<1>3. Good(p)'
  BY <1>1 DEF Publish, IInv, Good, Shape, Staffed, InOrder, Excused, Answered,
              Calls, Metas
<1> QED BY <1>1, <1>2, <1>3 DEF Kept, Publish

LEMMA RefusedKept ==
  ASSUME IInv, NEW p \in Publishes, Unregistered(p) \/ ResolveFails(p)
  PROVE  Kept(p)
<1>1. task[p] = <<>> /\ UNCHANGED <<task, cancelled>>
  BY DEF IInv, Good, Shape, Unregistered, ResolveFails
<1>2. Answered(p)'
  BY <1>1 DEF Answered
<1>3. PICK r \in Result \ {"pending"} : Conclude(p, r)
  BY DEF Unregistered, ResolveFails, Result
<1> QED BY <1>1, <1>2, <1>3, ConcludeKept

LEMMA ResolveKept ==
  ASSUME IInv, NEW p \in Publishes, ResolveListeners(p)
  PROVE  Kept(p)
<1> DEFINE f == [i \in DOMAIN Metas(p) |-> "waiting"]
<1>1. TypeOf[p] \in DOMAIN ListenerMetas /\ task[p] = <<>>
  BY DEF ResolveListeners, IInv, Good, Shape
<1>2. Metas(p) \in Seq(Listeners) /\ Metas(p) # <<>>
  BY <1>1, ListenerAssumption DEF Metas
<1>3. Len(Metas(p)) \in Nat \ {0} /\ DOMAIN Metas(p) = 1..Len(Metas(p))
  BY <1>2, EmptySeq, LenProperties
<1>4. f \in [1..Len(Metas(p)) -> Call]
  BY <1>3 DEF Call, Unfinished
<1>5. f \in Seq(Call)
  BY <1>3, <1>4, SeqDef
<1>6. DOMAIN f = DOMAIN Metas(p) /\ \A i \in DOMAIN f : f[i] = "waiting"
  OBVIOUS
<1>7. f # <<>>
  <2>1. 1 \in DOMAIN f
    BY <1>3, <1>6
  <2>2. DOMAIN <<>> = {}
    BY LenProperties, EmptySeq
  <2> QED BY <2>1, <2>2
<1>8. task' = [task EXCEPT ![p] = f]
  BY DEF ResolveListeners
<1> HIDE DEF f
<1>9. /\ pc'[p] = "publishing" /\ task'[p] = f
      /\ \A q \in Publishes \ {p} : pc'[q] = pc[q] /\ task'[q] = task[q]
  BY <1>8 DEF ResolveListeners, IInv, TypeOK
<1>10. TypeOK'
  BY <1>5, <1>8 DEF ResolveListeners, IInv, TypeOK
<1>11. Shape(p)' /\ Staffed(p)' /\ Answered(p)'
  BY <1>1, <1>6, <1>7, <1>9 DEF ResolveListeners, IInv, Good, Shape, Staffed, Answered,
                          Metas
<1>12. InOrder(p)' /\ Excused(p)'
  BY <1>6, <1>9 DEF InOrder, Excused, Calls
<1> QED BY <1>9, <1>10, <1>11, <1>12 DEF Kept, Good, ResolveListeners

LEMMA CallKept ==
  ASSUME IInv, NEW p \in Publishes, CallNext(p) \/ StartTask(p)
  PROVE  Kept(p)
<1>1. PICK i \in Calls(p, {"waiting"}) :
        /\ Put(p, i, "running")
        /\ Publisher[p] = "default_publish" =>
             \A j \in 1..i - 1 : task[p][j] = "returned"
  BY DEF CallNext, StartTask
<1>2. i \in DOMAIN task[p] /\ task[p][i] = "waiting" /\ "running" \in Call /\ TypeOK
  BY DEF Calls, IInv, Call, Unfinished
<1>3. pc[p] = "publishing" /\ UNCHANGED <<pc, cancelled, result>>
  BY DEF CallNext, StartTask
<1>4. Len(task[p]) \in Nat /\ DOMAIN task[p] = 1..Len(task[p])
  BY <1>2, TaskShape
<1>5. /\ task' \in [Publishes -> Seq(Call)]
      /\ task[p] = <<>> <=> task'[p] = <<>>
      /\ DOMAIN task'[p] = DOMAIN task[p]
      /\ task'[p][i] = "running"
      /\ \A j \in DOMAIN task[p] \ {i} : task'[p][j] = task[p][j]
      /\ \A q \in Publishes \ {p} : task'[q] = task[q]
  BY <1>1, <1>2, PutTask
<1>6. TypeOK'
  BY <1>2, <1>3, <1>5 DEF TypeOK
<1>7. InOrder(p)'
  <2> SUFFICES ASSUME Publisher[p] = "default_publish", NEW j \in DOMAIN task[p],
                      NEW k \in DOMAIN task[p], j < k, task'[p][k] # "waiting"
               PROVE  task'[p][j] = "returned"
    BY <1>5 DEF InOrder
  <2>1. task[p][j] = "returned"
    <3>1. CASE k = i
      BY <1>1, <1>4, <3>1
    <3>2. CASE k # i
      BY <1>5, <3>2 DEF IInv, Good, InOrder
    <3> QED BY <3>1, <3>2
  <2> QED BY <1>2, <1>5, <2>1
<1>8. Excused(p)'
  BY <1>2, <1>3, <1>5 DEF IInv, Good, Excused, Calls
<1>9. Shape(p)' /\ Staffed(p)' /\ Answered(p)'
  BY <1>3, <1>5 DEF IInv, Good, Shape, Staffed, Answered, Metas
<1> QED BY <1>3, <1>5, <1>6, <1>7, <1>8, <1>9 DEF Kept, Good

(* A call that is over, or whose thread is over: the calls before it have  *)
(* returned, and those after it are waiting.                               *)
LEMMA OverKept ==
  ASSUME IInv, NEW p \in Publishes, NEW i \in DOMAIN task[p], NEW s \in Call,
         task[p][i] \in {"running", "cancelling", "detached"},
         s \notin {"waiting", "running", "cancelling", "unbegun"},
         pc[p] = "done" => task[p][i] = "detached" /\ s = "ended",
         Put(p, i, s), UNCHANGED <<pc, cancelled, result>>
  PROVE  Kept(p)
<1>1. TypeOK /\ Good(p)
  BY DEF IInv
<1>2. /\ task' \in [Publishes -> Seq(Call)]
      /\ task[p] = <<>> <=> task'[p] = <<>>
      /\ DOMAIN task'[p] = DOMAIN task[p]
      /\ task'[p][i] = s
      /\ \A j \in DOMAIN task[p] \ {i} : task'[p][j] = task[p][j]
      /\ \A q \in Publishes \ {p} : task'[q] = task[q]
  BY <1>1, PutTask
<1>3. TypeOK'
  BY <1>1, <1>2 DEF TypeOK
<1>4. InOrder(p)'
  BY <1>1, <1>2 DEF Good, InOrder
<1>5. Excused(p)'
  BY <1>1, <1>2 DEF Good, Excused, Calls
<1>6. Shape(p)' /\ Staffed(p)'
  BY <1>1, <1>2 DEF Good, Shape, Staffed, Metas
<1>7. Answered(p)'
  BY <1>1, <1>2 DEF Good, Answered, Calls
<1> QED BY <1>2, <1>3, <1>4, <1>5, <1>6, <1>7 DEF Kept, Good

LEMMA EndKept ==
  ASSUME IInv, NEW p \in Publishes, ListenerEnds(p) \/ ThreadEnds(p)
  PROVE  Kept(p)
<1>1. CASE ListenerEnds(p)
  <2>1. PICK i \in Calls(p, {"running", "cancelling"}), s \in Over : Put(p, i, s)
    BY <1>1 DEF ListenerEnds
  <2>2. /\ i \in DOMAIN task[p] /\ task[p][i] \in {"running", "cancelling"}
        /\ s \in Call \ {"waiting", "running", "cancelling", "unbegun"}
    BY DEF Calls, Call, Over
  <2>3. pc[p] # "done"
    <3>1. task[p] # <<>>
      BY <2>2, TaskShape DEF IInv
    <3> QED BY <2>1, <3>1 DEF IInv, Good, Answered
  <2> QED BY <1>1, <2>1, <2>2, <2>3, OverKept DEF ListenerEnds
<1>2. CASE ThreadEnds(p)
  <2>1. PICK i \in Calls(p, {"detached"}) : Put(p, i, "ended")
    BY <1>2 DEF ThreadEnds
  <2>2. i \in DOMAIN task[p] /\ task[p][i] = "detached" /\ "ended" \in Call
    BY DEF Calls, Call
  <2> QED BY <1>2, <2>1, <2>2, OverKept DEF ThreadEnds
<1> QED BY <1>1, <1>2

LEMMA StopKept ==
  ASSUME IInv, NEW p \in Publishes, Cancel(p) \/ Abort(p)
  PROVE  Kept(p)
<1>1. TypeOK /\ Good(p) /\ pc[p] = "publishing" /\ StopAll(p) /\ UNCHANGED result
  BY DEF IInv, Cancel, Abort
<1>2. /\ task' \in [Publishes -> Seq(Call)]
      /\ task[p] = <<>> <=> task'[p] = <<>>
      /\ DOMAIN task'[p] = DOMAIN task[p]
      /\ \A i \in DOMAIN task[p] :
           /\ task[p][i] \notin {"waiting", "running"} => task'[p][i] = task[p][i]
           /\ task[p][i] = "waiting" =>
                task'[p][i] = IF Publisher[p] = "concurrent_publish"
                              THEN "unbegun" ELSE "waiting"
           /\ task[p][i] = "running" =>
                task'[p][i] \in {"cancelling", "cancelled", "detached"}
      /\ \A q \in Publishes \ {p} : task'[q] = task[q]
  BY <1>1, StopTask
<1>3. /\ pc' \in [Publishes -> {"idle", "scoped", "publishing", "joining", "done"}]
      /\ pc'[p] = IF Publisher[p] = "concurrent_publish" THEN "joining" ELSE "publishing"
      /\ \A q \in Publishes \ {p} : pc'[q] = pc[q]
  BY <1>1 DEF Cancel, Abort, TypeOK
<1>4. /\ cancelled' \subseteq Publishes /\ cancelled \subseteq cancelled'
      /\ \A q \in Publishes \ {p} : q \in cancelled <=> q \in cancelled'
      /\ p \in cancelled' \/ Calls(p, {"raised"}) # {}
  BY <1>1 DEF Cancel, Abort, TypeOK
<1>5. TypeOK'
  BY <1>1, <1>2, <1>3, <1>4 DEF TypeOK
<1>6. InOrder(p)'
  BY <1>1, <1>2, ListenerAssumption DEF Good, InOrder
<1>7. Excused(p)'
  <2>1. Calls(p, {"raised"}) # {} => Calls(p, {"raised"})' # {}
    BY <1>2 DEF Calls
  <2>2. Publisher[p] = "concurrent_publish" \/ Calls(p, {"unbegun"})' = {}
    <3>1. \A i \in DOMAIN task[p] : task'[p][i] = "unbegun" =>
            task[p][i] = "unbegun" \/ Publisher[p] = "concurrent_publish"
      BY <1>1, <1>2, TaskShape DEF Call, Unfinished, Over
    <3> QED BY <1>1, <1>2, <3>1 DEF Good, Excused, Calls
  <2> QED BY <1>4, <2>1, <2>2 DEF Excused
<1>8. Shape(p)' /\ Staffed(p)' /\ Answered(p)'
  BY <1>1, <1>2, <1>3 DEF Good, Shape, Staffed, Answered, Metas
<1> QED BY <1>1, <1>2, <1>3, <1>4, <1>5, <1>6, <1>7, <1>8 DEF Kept, Good

(* When the loop ends, all calls before the last one that began have       *)
(* returned, so at most that one raised, and none is under way.            *)
LEMMA LoopKept ==
  ASSUME IInv, NEW p \in Publishes, LoopEnds(p)
  PROVE  Kept(p)
<1>1. /\ TypeOK /\ Good(p) /\ pc[p] = "publishing" /\ UNCHANGED <<task, cancelled>>
      /\ Publisher[p] = "default_publish"
  BY DEF IInv, LoopEnds
<1>2. PICK r \in {"error", "CancelledError", "ok"} :
        /\ Conclude(p, r)
        /\ r = "error" => Calls(p, {"raised"}) # {}
        /\ r = "CancelledError" => Calls(p, {"cancelled", "detached", "ended"}) # {}
        /\ r = "ok" => Calls(p, {"returned"}) = DOMAIN task[p]
  BY DEF LoopEnds
<1>3. result'[p] = r
  BY <1>1, <1>2 DEF Conclude, TypeOK
<1>4. Len(task[p]) \in Nat /\ DOMAIN task[p] = 1..Len(task[p])
  BY <1>1, TaskShape
<1>5. ASSUME NEW i \in DOMAIN task[p], task[p][i] \notin {"waiting", "returned"},
             NEW j \in DOMAIN task[p], j # i
      PROVE  task[p][j] \in {"waiting", "returned"}
  BY <1>1, <1>4, <1>5 DEF Good, InOrder
<1>6. Calls(p, {"running", "cancelling"}) = {}
  BY <1>2, <1>5 DEF Calls
<1>7. Calls(p, {"raised"}) # {} <=> r = "error"
  BY <1>2, <1>5 DEF Calls
<1>8. r = "ok" => Calls(p, {"waiting", "unbegun"}) = {}
  BY <1>2 DEF Calls
<1>9. Answered(p)'
  BY <1>1, <1>3, <1>6, <1>7, <1>8 DEF Answered, Calls
<1> QED BY <1>1, <1>2, <1>9, ConcludeKept DEF Result

LEMMA JoinKept ==
  ASSUME IInv, NEW p \in Publishes, Join(p)
  PROVE  Kept(p)
<1>1. /\ TypeOK /\ Good(p) /\ UNCHANGED <<task, cancelled>>
      /\ Calls(p, Unfinished) = {} /\ Conclude(p, Verdict(p))
  BY DEF IInv, Join
<1>2. Verdict(p) \in {"ExceptionGroup", "CancelledError", "ok"}
  BY DEF Verdict
<1>3. result'[p] = Verdict(p)
  BY <1>1 DEF Conclude, TypeOK
<1>4. Calls(p, {"running", "cancelling"}) = {} /\ Calls(p, {"waiting"}) = {}
  BY <1>1 DEF Calls, Unfinished
<1>5. Calls(p, {"raised"}) # {} <=> Verdict(p) = "ExceptionGroup"
  BY DEF Verdict
<1>6. Verdict(p) = "ok" => Calls(p, {"unbegun"}) = {}
  BY <1>1 DEF Verdict, Good, Excused
<1>7. Answered(p)'
  BY <1>1, <1>2, <1>3, <1>4, <1>5, <1>6 DEF Answered, Calls
<1> QED BY <1>1, <1>2, <1>7, ConcludeKept DEF Result

LEMMA IInvStep == IInv /\ [Next]_vars => IInv'
<1> SUFFICES ASSUME IInv, [Next]_vars PROVE IInv'
  OBVIOUS
<1>1. ASSUME NEW p \in Publishes, Kept(p) PROVE IInv'
  BY <1>1, OthersStay DEF Kept, IInv
<1>2. ASSUME NEW p \in Publishes,
             Publish(p) \/ Step(p) \/ ThreadEnds(p) \/ Cancel(p)
      PROVE  Kept(p)
  BY <1>2, PublishKept, RefusedKept, ResolveKept, CallKept, EndKept, StopKept,
     LoopKept, JoinKept DEF Step
<1>3. CASE UNCHANGED vars
  <2>1. TypeOK'
    BY <1>3 DEF vars, IInv, TypeOK
  <2> QED BY <1>3, <2>1, OthersStay DEF vars, IInv
<1> QED BY <1>1, <1>2, <1>3 DEF Next, Quiescent

LEMMA IInvInit == Init => IInv
<1> SUFFICES ASSUME Init PROVE IInv
  OBVIOUS
<1>1. TypeOK
  BY EmptySeq DEF Init, TypeOK, Result
<1>2. \A p \in Publishes : DOMAIN task[p] = {}
  BY <1>1, TaskShape DEF Init
<1> QED BY <1>1, <1>2 DEF Init, IInv, Good, Shape, Staffed, InOrder, Excused, Answered,
                          Calls

LEMMA IInvHolds == Spec => []IInv
BY IInvInit, IInvStep, PTL DEF Spec

-----------------------------------------------------------------------------
(* The state of a publish is well typed: every call is in a known state,   *)
(* and every publish ends in one of the results its caller can see.        *)
THEOREM TypeCorrect == Spec => []TypeOK
<1>1. IInv => TypeOK
  BY DEF IInv
<1> QED BY <1>1, IInvHolds, PTL

(* default_publish calls a listener only when all before it have returned, *)
(* whatever fails or is cancelled.                                         *)
THEOREM InTurn == Spec => []OneAfterAnother
<1>1. IInv => OneAfterAnother
  BY DEF IInv, Good, InOrder, OneAfterAnother
<1> QED BY <1>1, IInvHolds, PTL

(* No coroutine of a listener runs on after its publish, by either         *)
(* strategy.                                                               *)
THEOREM NobodyLeftBehind == Spec => []NoneLeftBehind
<1>1. IInv => NoneLeftBehind
  <2> SUFFICES ASSUME IInv, NEW p \in Publishes, pc[p] = "done"
               PROVE  Calls(p, {"running", "cancelling"}) = {}
    BY DEF NoneLeftBehind
  <2>1. task[p] = <<>> => DOMAIN task[p] = {}
    BY TaskShape DEF IInv
  <2> QED BY <2>1 DEF IInv, Good, Answered, Calls
<1> QED BY <1>1, IInvHolds, PTL

(* A publisher is told of an error exactly if one of its listeners raised. *)
THEOREM NoFailureLost == Spec => []FailureNotLost
<1>1. IInv => FailureNotLost
  BY DEF IInv, Good, Answered, FailureNotLost
<1> QED BY <1>1, IInvHolds, PTL

-----------------------------------------------------------------------------
(* Only the view of the publish that takes a step changes.                 *)
LEMMA ViewOfOne ==
  ASSUME NEW p \in Publishes,
         \A q \in Publishes \ {p} : UNCHANGED <<task[q], result[q]>>
  PROVE  /\ called' = [called EXCEPT ![p] = called'[p]]
         /\ busy' = [busy EXCEPT ![p] = busy'[p]]
         /\ failed' = [failed EXCEPT ![p] = failed'[p]]
         /\ verdict' = [verdict EXCEPT ![p] = verdict'[p]]
<1>1. called' = [called EXCEPT ![p] = called'[p]]
  BY DEF called, Calls
<1>2. busy' = [busy EXCEPT ![p] = busy'[p]]
  BY DEF busy, Calls
<1>3. failed' = [failed EXCEPT ![p] = failed'[p]]
  BY DEF failed, Calls
<1>4. verdict' = [verdict EXCEPT ![p] = verdict'[p]]
  BY DEF verdict
<1> QED BY <1>1, <1>2, <1>3, <1>4

LEMMA SameParts ==
  ASSUME NEW p \in Publishes,
         \A q \in Publishes \ {p} : UNCHANGED <<task[q], result[q]>>
  PROVE  /\ called'[p] = called[p] => called' = called
         /\ busy'[p] = busy[p] => busy' = busy
         /\ failed'[p] = failed[p] => failed' = failed
         /\ verdict'[p] = verdict[p] => verdict' = verdict
<1>1. called = [q \in Publishes |-> called[q]]
  BY DEF called
<1>2. busy = [q \in Publishes |-> busy[q]]
  BY DEF busy
<1>3. failed = [q \in Publishes |-> failed[q]]
  BY DEF failed
<1>4. verdict = [q \in Publishes |-> verdict[q]]
  BY DEF verdict
<1> QED BY <1>1, <1>2, <1>3, <1>4, ViewOfOne

LEMMA SameView ==
  ASSUME NEW p \in Publishes,
         \A q \in Publishes \ {p} : UNCHANGED <<task[q], result[q]>>,
         UNCHANGED <<called[p], busy[p], failed[p], verdict[p]>>
  PROVE  UNCHANGED Abstract!dvars
BY SameParts DEF Abstract!dvars

(* A publish that is under way has no verdict.                             *)
LEMMA PendingView ==
  ASSUME IInv, NEW p \in Publishes, pc[p] # "done"
  PROVE  result[p] = "pending" /\ verdict[p] = "pending"
BY DEF IInv, Good, Shape, verdict

LEMMA EmptyView ==
  ASSUME TypeOK, NEW p \in Publishes, task[p] = <<>>
  PROVE  called[p] = {} /\ busy[p] = {} /\ failed[p] = {}
<1>1. DOMAIN task[p] = {}
  BY TaskShape
<1> QED BY <1>1 DEF called, busy, failed, Calls

LEMMA CallMaps ==
  ASSUME IInv, NEW p \in Publishes, CallNext(p) \/ StartTask(p)
  PROVE  Abstract!Next
<1>1. PICK i \in Calls(p, {"waiting"}) : Put(p, i, "running")
  BY DEF CallNext, StartTask
<1>2. i \in DOMAIN task[p] /\ task[p][i] = "waiting" /\ "running" \in Call /\ TypeOK
  BY DEF Calls, IInv, Call, Unfinished
<1>3. pc[p] = "publishing" /\ UNCHANGED result
  BY DEF CallNext, StartTask
<1>4. /\ task[p] = <<>> <=> task'[p] = <<>>
      /\ DOMAIN task'[p] = DOMAIN task[p]
      /\ task'[p][i] = "running"
      /\ \A j \in DOMAIN task[p] \ {i} : task'[p][j] = task[p][j]
      /\ \A q \in Publishes \ {p} : task'[q] = task[q]
  BY <1>1, <1>2, PutTask
<1>5. called'[p] = called[p] \cup {i} /\ i \notin called[p]
  BY <1>2, <1>4 DEF called, Calls
<1>6. busy'[p] = busy[p] \cup {i}
  BY <1>2, <1>4 DEF busy, Calls
<1>7. failed'[p] = failed[p]
  BY <1>2, <1>4 DEF failed, Calls
<1>8. verdict'[p] = verdict[p] /\ verdict[p] = "pending"
  BY <1>3, <1>4, PendingView DEF verdict
<1>9. i \in Audience[p]
  <2>1. task[p] # <<>>
    BY <1>2, TaskShape
  <2> QED BY <1>2, <2>1 DEF Audience, IInv, Good, Staffed
<1>10. Abstract!Call(p, i)
  <2>1. failed' = failed /\ verdict' = verdict
    BY <1>3, <1>4, <1>7, <1>8, SameParts
  <2>2. /\ called' = [called EXCEPT ![p] = called[p] \cup {i}]
        /\ busy' = [busy EXCEPT ![p] = busy[p] \cup {i}]
    BY <1>3, <1>4, <1>5, <1>6, ViewOfOne
  <2> QED BY <1>5, <1>8, <2>1, <2>2 DEF Abstract!Call
<1> QED BY <1>9, <1>10 DEF Abstract!Next

LEMMA EndMaps ==
  ASSUME IInv, NEW p \in Publishes, UNCHANGED result,
         NEW some \in SUBSET busy[p], NEW raised \in SUBSET some,
         \A q \in Publishes \ {p} : task'[q] = task[q],
         called'[p] = called[p], busy'[p] = busy[p] \ some,
         failed'[p] = failed[p] \cup raised,
         task[p] = <<>> <=> task'[p] = <<>>
  PROVE  Abstract!Next
<1>1. verdict' = verdict /\ called' = called
  <2>1. verdict'[p] = verdict[p]
    BY DEF verdict
  <2> QED BY <2>1, SameParts
<1>2. /\ busy' = [busy EXCEPT ![p] = busy[p] \ some]
      /\ failed' = [failed EXCEPT ![p] = failed[p] \cup raised]
  BY ViewOfOne
<1>3. Abstract!End(p, some, raised)
  BY <1>1, <1>2 DEF Abstract!End
<1> QED BY <1>3 DEF Abstract!Next

LEMMA ListenerEndsMaps ==
  ASSUME IInv, NEW p \in Publishes, ListenerEnds(p)
  PROVE  Abstract!Next
<1>1. PICK i \in Calls(p, {"running", "cancelling"}), s \in Over : Put(p, i, s)
  BY DEF ListenerEnds
<1>2. /\ i \in DOMAIN task[p] /\ task[p][i] \in {"running", "cancelling"}
      /\ s \in Call \ {"waiting", "running", "cancelling", "unbegun"}
  BY DEF Calls, Call, Over
<1>3. /\ task[p] = <<>> <=> task'[p] = <<>>
      /\ DOMAIN task'[p] = DOMAIN task[p]
      /\ task'[p][i] = s
      /\ \A j \in DOMAIN task[p] \ {i} : task'[p][j] = task[p][j]
      /\ \A q \in Publishes \ {p} : task'[q] = task[q]
  BY <1>1, <1>2, PutTask DEF IInv
<1>4. called'[p] = called[p]
  BY <1>2, <1>3, TaskShape DEF called, Calls, IInv, Call, Unfinished
<1>5. busy'[p] = busy[p] \ {i} /\ i \in busy[p]
  BY <1>2, <1>3 DEF busy, Calls
<1>6. failed'[p] = failed[p] \cup (IF s = "raised" THEN {i} ELSE {})
  BY <1>2, <1>3 DEF failed, Calls
<1> DEFINE raised == IF s = "raised" THEN {i} ELSE {}
<1>7. {i} \in SUBSET busy[p] /\ raised \in SUBSET {i} /\ UNCHANGED result
  BY <1>5 DEF ListenerEnds
<1> HIDE DEF raised
<1>8. failed'[p] = failed[p] \cup raised
  BY <1>6 DEF raised
<1> QED BY <1>3, <1>4, <1>5, <1>7, <1>8, EndMaps

LEMMA StopMaps ==
  ASSUME IInv, NEW p \in Publishes, Cancel(p) \/ Abort(p)
  PROVE  Abstract!Next
<1>1. TypeOK /\ StopAll(p) /\ UNCHANGED result
  BY DEF IInv, Cancel, Abort
<1>2. /\ task[p] = <<>> <=> task'[p] = <<>>
      /\ DOMAIN task'[p] = DOMAIN task[p]
      /\ \A i \in DOMAIN task[p] :
           /\ task[p][i] \notin {"waiting", "running"} => task'[p][i] = task[p][i]
           /\ task[p][i] = "waiting" =>
                task'[p][i] = IF Publisher[p] = "concurrent_publish"
                              THEN "unbegun" ELSE "waiting"
           /\ task[p][i] = "running" =>
                task'[p][i] \in {"cancelling", "cancelled", "detached"}
      /\ \A q \in Publishes \ {p} : task'[q] = task[q]
  BY <1>1, StopTask
<1>3. \A i \in DOMAIN task[p] : task[p][i] \in Call
  BY <1>1, TaskShape
<1>4. called'[p] = called[p]
  <2>1. \A i \in DOMAIN task[p] :
          task'[p][i] \in Call \ {"waiting", "unbegun"}
            <=> task[p][i] \in Call \ {"waiting", "unbegun"}
    BY <1>2, <1>3 DEF Call, Unfinished, Over
  <2> QED BY <1>2, <2>1 DEF called, Calls
<1>5. failed'[p] = failed[p] \cup {}
  BY <1>2, <1>3 DEF failed, Calls
<1>6. busy'[p] \subseteq busy[p]
  BY <1>2, <1>3 DEF busy, Calls
<1> DEFINE some == busy[p] \ busy'[p]
<1>7. busy'[p] = busy[p] \ some
  BY <1>6
<1>8. some \in SUBSET busy[p] /\ {} \in SUBSET some
  OBVIOUS
<1> HIDE DEF some
<1> QED BY <1>1, <1>2, <1>4, <1>5, <1>7, <1>8, EndMaps

LEMMA VerdictMaps ==
  ASSUME IInv, IInv', NEW p \in Publishes, NEW r \in Result \ {"pending"},
         pc[p] # "done", Conclude(p, r), UNCHANGED task
  PROVE  Abstract!Next
<1>1. /\ pc'[p] = "done" /\ result'[p] = r
      /\ \A q \in Publishes \ {p} : result'[q] = result[q]
  BY DEF Conclude, IInv, TypeOK
<1>2. verdict[p] = "pending"
  BY PendingView
<1>3. called' = called /\ busy' = busy /\ failed' = failed
  BY DEF called, busy, failed, Calls
<1>4. Answered(p)' /\ Staffed(p)'
  BY DEF IInv, Good
<1>5. verdict' = [verdict EXCEPT ![p] = verdict'[p]]
  BY <1>1, ViewOfOne
<1>6. CASE task[p] = <<>>
  <2>1. verdict'[p] = "refused"
    BY <1>1, <1>6 DEF verdict
  <2>2. called[p] = {} /\ busy[p] = {} /\ failed[p] = {}
    BY <1>6, EmptyView DEF IInv
  <2>3. Abstract!Conclude(p, "refused")
    BY <1>2, <1>3, <1>5, <2>1, <2>2 DEF Abstract!Conclude
  <2> QED BY <2>3 DEF Abstract!Next, Abstract!Verdict
<1>7. CASE task[p] # <<>>
  <2> DEFINE v == IF r = "ExceptionGroup" THEN "error" ELSE r
  <2>1. verdict'[p] = v
    BY <1>1, <1>7 DEF verdict
  <2>2. /\ busy[p] = {}
        /\ failed[p] # {} <=> r \in {"error", "ExceptionGroup"}
        /\ r \in {"ok", "error", "ExceptionGroup", "CancelledError"}
    BY <1>1, <1>4, <1>7 DEF Answered, busy, failed, Calls
  <2>3. r = "ok" => called[p] = Audience[p]
    <3>1. TypeOf[p] \in DOMAIN ListenerMetas /\ DOMAIN task[p] = DOMAIN Metas(p)
      BY <1>4, <1>7 DEF Staffed, Metas
    <3>2. r = "ok" => Calls(p, {"waiting", "unbegun"}) = {}
      BY <1>1, <1>4, <1>7 DEF Answered, Calls
    <3>3. \A i \in DOMAIN task[p] : task[p][i] \in Call
      BY TaskShape DEF IInv
    <3> QED BY <3>1, <3>2, <3>3 DEF Audience, called, Calls
  <2>4. v \in Abstract!Verdict /\ v # "refused" /\ (v = "error" <=> failed[p] # {})
    BY <2>2 DEF Abstract!Verdict
  <2>5. v = "ok" => called[p] = Audience[p]
    BY <2>3
  <2> HIDE DEF v
  <2>6. Abstract!Conclude(p, v)
    BY <1>2, <1>3, <1>5, <2>1, <2>2, <2>4, <2>5 DEF Abstract!Conclude
  <2> QED BY <2>4, <2>6 DEF Abstract!Next
<1> QED BY <1>6, <1>7

LEMMA ConcludeMaps ==
  ASSUME IInv, IInv', NEW p \in Publishes,
         Unregistered(p) \/ ResolveFails(p) \/ LoopEnds(p) \/ Join(p)
  PROVE  Abstract!Next
<1>1. pc[p] # "done" /\ UNCHANGED task
  BY DEF Unregistered, ResolveFails, LoopEnds, Join
<1>2. \E r \in Result \ {"pending"} : Conclude(p, r)
  BY DEF Unregistered, ResolveFails, LoopEnds, Join, Verdict, Result
<1> QED BY <1>1, <1>2, VerdictMaps

LEMMA QuietMaps ==
  ASSUME IInv, NEW p \in Publishes,
         Publish(p) \/ ResolveListeners(p) \/ ThreadEnds(p)
  PROVE  UNCHANGED Abstract!dvars
<1>1. CASE Publish(p)
  BY <1>1, SameView DEF Publish, called, busy, failed, verdict, Calls
<1>2. CASE ResolveListeners(p)
  <2> DEFINE f == [i \in DOMAIN Metas(p) |-> "waiting"]
  <2>1. task' = [task EXCEPT ![p] = f] /\ pc[p] = "scoped" /\ UNCHANGED result
    BY <1>2 DEF ResolveListeners
  <2>2. task'[p] = f /\ \A q \in Publishes \ {p} : task'[q] = task[q]
    BY <2>1 DEF IInv, TypeOK
  <2>3. \A i \in DOMAIN f : f[i] = "waiting"
    OBVIOUS
  <2> HIDE DEF f
  <2>4. called[p] = {} /\ busy[p] = {} /\ failed[p] = {} /\ result[p] = "pending"
    BY <2>1, EmptyView, PendingView DEF IInv, Good, Shape
  <2>5. called'[p] = {} /\ busy'[p] = {} /\ failed'[p] = {}
    BY <2>2, <2>3 DEF called, busy, failed, Calls
  <2>6. verdict'[p] = verdict[p]
    BY <2>1, <2>4 DEF verdict
  <2> QED BY <2>1, <2>2, <2>4, <2>5, <2>6, SameView
<1>3. CASE ThreadEnds(p)
  <2>1. PICK i \in Calls(p, {"detached"}) : Put(p, i, "ended")
    BY <1>3 DEF ThreadEnds
  <2>2. i \in DOMAIN task[p] /\ task[p][i] = "detached" /\ "ended" \in Call /\ "detached" \in Call
    BY DEF Calls, Call
  <2>3. /\ task[p] = <<>> <=> task'[p] = <<>>
        /\ DOMAIN task'[p] = DOMAIN task[p]
        /\ task'[p][i] = "ended"
        /\ \A j \in DOMAIN task[p] \ {i} : task'[p][j] = task[p][j]
        /\ \A q \in Publishes \ {p} : task'[q] = task[q]
    BY <2>1, <2>2, PutTask DEF IInv
  <2>4. called'[p] = called[p] /\ busy'[p] = busy[p] /\ failed'[p] = failed[p]
    BY <2>2, <2>3 DEF called, busy, failed, Calls
  <2>5. verdict'[p] = verdict[p] /\ UNCHANGED result
    BY <1>3, <2>3 DEF verdict, ThreadEnds
  <2> QED BY <2>3, <2>4, <2>5, SameView
<1> QED BY <1>1, <1>2, <1>3

LEMMA InitMaps == Init => Abstract!Init
<1> SUFFICES ASSUME Init PROVE Abstract!Init
  OBVIOUS
<1>1. \A p \in Publishes : called[p] = {} /\ busy[p] = {} /\ failed[p] = {}
  BY IInvInit, EmptyView DEF Init, IInv
<1>2. \A p \in Publishes : verdict[p] = "pending"
  BY DEF Init, verdict
<1> QED BY <1>1, <1>2 DEF Abstract!Init, called, busy, failed, verdict

(* Either strategy, with any listeners, failures and cancellations, is     *)
(* Delivery: publish calls nobody twice, nor once its caller is answered;  *)
(* the answer is an error exactly if a listener raised, and otherwise "ok" *)
(* only if all of them were called.                                        *)
THEOREM PublishDelivers == Spec => Delivers
<1>1. ASSUME IInv, IInv', [Next]_vars PROVE [Abstract!Next]_(Abstract!dvars)
  <2>1. ASSUME UNCHANGED vars PROVE UNCHANGED Abstract!dvars
    BY <2>1 DEF vars, Abstract!dvars, called, busy, failed, verdict, Calls
  <2>2. ASSUME NEW p \in Publishes,
               Publish(p) \/ Step(p) \/ ThreadEnds(p) \/ Cancel(p)
        PROVE  Abstract!Next \/ UNCHANGED Abstract!dvars
    BY <1>1, <2>2, CallMaps, ListenerEndsMaps, StopMaps, ConcludeMaps, QuietMaps
    DEF Step
  <2> QED BY <1>1, <2>1, <2>2 DEF Next, Quiescent
<1> QED BY <1>1, InitMaps, IInvHolds, PTL DEF Spec, Delivers, Abstract!Spec
=============================================================================
