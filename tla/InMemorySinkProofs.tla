------------------------- MODULE InMemorySinkProofs -------------------------
(***************************************************************************)
(* What InMemorySink promises of its queue for any volume, and any number  *)
(* of calls and events: it stays within its volume, and no call is left    *)
(* waiting where there is room that nobody was woken for.                  *)
(***************************************************************************)
EXTENDS InMemorySink, SequenceLemmas, FiniteSetTheorems

State == {"idle", "waiting", "woken", "cancelling", "done", "cancelled",
          "SinkUnsetError"}

(* The calls that wait are those in the line, each once.                   *)
InLine ==
  /\ \A i, j \in DOMAIN putters : putters[i] = putters[j] => i = j
  /\ \A s \in Sinks :
       pc[s] = "waiting" <=> \E i \in DOMAIN putters : putters[i] = s

(* A call that waits, or was woken, has events left.                       *)
Unspent ==
  \A s \in Sinks :
    /\ sunk[s] <= Batch[s]
    /\ pc[s] \in {"waiting", "woken", "cancelling"} => sunk[s] < Batch[s]

SinkInv ==
  TypeOK /\ InLine /\ Unspent /\ WithinVolume /\ IsFiniteSet(Woken) /\ NoLostWakeup

-----------------------------------------------------------------------------
LEMMA QueueShape ==
  ASSUME TypeOK
  PROVE  /\ Len(queue) \in Nat
         /\ Len(putters) \in Nat
         /\ DOMAIN putters = 1..Len(putters)
         /\ \A i \in DOMAIN putters : putters[i] \in Sinks
         /\ putters # <<>> <=> Len(putters) # 0
<1>1. Len(queue) \in Nat
  BY LenProperties DEF TypeOK
<1>2. Len(putters) \in Nat /\ DOMAIN putters = 1..Len(putters)
  BY LenProperties DEF TypeOK
<1>3. \A i \in 1..Len(putters) : putters[i] \in Sinks
  BY ElementOfSeq DEF TypeOK
<1>4. putters # <<>> => Len(putters) \in Nat \ {0}
  BY EmptySeq DEF TypeOK
<1>5. putters = <<>> => Len(putters) = 0
  BY EmptySeq
<1> QED BY <1>1, <1>2, <1>3, <1>4, <1>5

(* How far a call gets: to its end, within the volume, or until the queue  *)
(* is full.                                                                *)
LEMMA ReachBounds ==
  ASSUME SinkInv, NEW s \in Sinks
  PROVE  /\ Reach(s) \in Nat
         /\ sunk[s] <= Reach(s) /\ Reach(s) <= Batch[s]
         /\ Volume > 0 => Len(queue) + (Reach(s) - sunk[s]) <= Volume
         /\ Reach(s) # Batch[s] => Len(queue) + (Reach(s) - sunk[s]) = Volume
<1>1. /\ Volume \in Nat /\ Batch[s] \in Nat /\ sunk[s] \in Nat /\ Len(queue) \in Nat
      /\ sunk[s] <= Batch[s] /\ (Volume > 0 => Len(queue) <= Volume)
  BY SinkAssumption, QueueShape DEF SinkInv, TypeOK, Unspent, WithinVolume
<1> QED BY <1>1 DEF Reach

LEMMA EventsType ==
  ASSUME NEW s \in Sinks, NEW m \in Nat, NEW n \in Nat, m <= n
  PROVE  /\ Events(s, m, n) \in Seq(Event)
         /\ Len(Events(s, m, n)) = n - m
<1> DEFINE es == Events(s, m, n)
<1>1. n - m \in Nat
  OBVIOUS
<1>2. es \in [1..n - m -> Event] /\ DOMAIN es = 1..n - m
  BY <1>1 DEF Events, Event
<1> HIDE DEF es
<1>3. es \in Seq(Event)
  BY <1>1, <1>2, SeqDef
<1>4. Len(es) \in Nat /\ DOMAIN es = 1..Len(es)
  BY <1>3, LenProperties
<1> QED BY <1>1, <1>2, <1>3, <1>4 DEF es

LEMMA EventsAssociate ==
  \A s, t, u \in Seq(Event) : s \o (t \o u) = (s \o t) \o u
BY ConcatAssociative

(* A call that puts what fits is done, or waits at the end of the line     *)
(* before a full queue.                                                    *)
LEMMA PutKeeps ==
  ASSUME SinkInv, NEW s \in Sinks, pc[s] \in {"idle", "woken"}, Put(s), UNCHANGED taken
  PROVE  SinkInv'
<1> DEFINE k == Reach(s) - sunk[s]
<1>1. TypeOK /\ InLine /\ Unspent /\ IsFiniteSet(Woken) /\ NoLostWakeup /\ WithinVolume
  BY DEF SinkInv
<1>2. /\ Reach(s) \in Nat /\ sunk[s] \in Nat /\ Batch[s] \in Nat /\ Volume \in Nat
      /\ sunk[s] <= Reach(s) /\ Reach(s) <= Batch[s] /\ k \in Nat
      /\ Volume > 0 => Len(queue) + k <= Volume
      /\ Reach(s) # Batch[s] => Len(queue) + k = Volume
  BY <1>1, ReachBounds, SinkAssumption DEF TypeOK
<1>3. queue' \in Seq(Event) /\ Len(queue') = Len(queue) + k
  <2>1. Events(s, sunk[s], Reach(s)) \in Seq(Event) /\ Len(Events(s, sunk[s], Reach(s))) = k
    BY <1>2, EventsType
  <2> QED BY <1>1, <2>1, ConcatProperties DEF Put, TypeOK
<1> HIDE DEF k
<1>4. /\ sunk' \in [Sinks -> Nat] /\ sunk'[s] = Reach(s)
      /\ \A t \in Sinks \ {s} : sunk'[t] = sunk[t]
  BY <1>1, <1>2 DEF Put, TypeOK
<1>5. WithinVolume'
  BY <1>2, <1>3 DEF WithinVolume
<1>6. \A i \in DOMAIN putters : putters[i] # s
  BY <1>1 DEF InLine
<1>7. Len(queue) \in Nat
  BY <1>1, QueueShape
<1>8. CASE Reach(s) = Batch[s]
  <2>1. pc' = [pc EXCEPT ![s] = "done"] /\ putters' = putters
    BY <1>8 DEF Put
  <2>2. /\ pc' \in [Sinks -> State] /\ pc'[s] = "done"
        /\ \A t \in Sinks \ {s} : pc'[t] = pc[t]
    BY <1>1, <2>1 DEF TypeOK, State
  <2>3. TypeOK'
    BY <1>1, <1>3, <1>4, <2>1, <2>2 DEF TypeOK, State
  <2>4. InLine' /\ Unspent'
    BY <1>1, <1>2, <1>4, <1>6, <2>1, <2>2 DEF InLine, Unspent
  <2>5. Woken' = Woken \ {s}
    BY <2>2 DEF Woken
  <2>6. /\ IsFiniteSet(Woken')
        /\ Cardinality(Woken') = IF s \in Woken THEN Cardinality(Woken) - 1
                                 ELSE Cardinality(Woken)
    BY <1>1, <2>5, FS_RemoveElement
  <2>7. NoLostWakeup'
    <3>1. s \in Woken => k > 0
      BY <1>1, <1>2, <1>8 DEF Woken, Unspent, k
    <3>2. Cardinality(Woken) \in Nat
      BY <1>1, FS_CardinalityType
    <3> QED BY <1>1, <1>2, <1>3, <1>7, <2>1, <2>6, <3>1, <3>2 DEF NoLostWakeup
  <2> QED BY <1>5, <2>3, <2>4, <2>6, <2>7 DEF SinkInv
<1>9. CASE Reach(s) # Batch[s]
  <2>1. pc' = [pc EXCEPT ![s] = "waiting"] /\ putters' = Append(putters, s)
    BY <1>9 DEF Put
  <2>2. /\ pc' \in [Sinks -> State] /\ pc'[s] = "waiting"
        /\ \A t \in Sinks \ {s} : pc'[t] = pc[t]
    BY <1>1, <2>1 DEF TypeOK, State
  <2>3. /\ putters' \in Seq(Sinks) /\ Len(putters') = Len(putters) + 1
        /\ \A i \in 1..Len(putters) : putters'[i] = putters[i]
        /\ putters'[Len(putters) + 1] = s
    BY <1>1, <2>1, AppendProperties DEF TypeOK
  <2>4. TypeOK'
    BY <1>1, <1>3, <1>4, <2>2, <2>3 DEF TypeOK, State
  <2>5. /\ Len(putters) \in Nat /\ DOMAIN putters = 1..Len(putters)
        /\ DOMAIN putters' = 1..Len(putters) + 1
    BY <1>1, <2>3, <2>4, QueueShape
  <2>6. InLine'
    <3>1. \A i \in DOMAIN putters' :
            \/ i \in DOMAIN putters /\ putters'[i] = putters[i]
            \/ i = Len(putters) + 1 /\ putters'[i] = s
      BY <2>3, <2>5
    <3>2. \A i, j \in DOMAIN putters' : putters'[i] = putters'[j] => i = j
      BY <1>1, <1>6, <3>1 DEF InLine
    <3>3. \A i \in DOMAIN putters : i \in DOMAIN putters' /\ putters'[i] = putters[i]
      BY <2>3, <2>5
    <3>4. Len(putters) + 1 \in DOMAIN putters'
      BY <2>5
    <3>5. ASSUME NEW t \in Sinks
          PROVE  pc'[t] = "waiting" <=> \E i \in DOMAIN putters' : putters'[i] = t
      BY <1>1, <2>2, <2>3, <3>1, <3>3, <3>4 DEF InLine
    <3> QED BY <3>2, <3>5 DEF InLine
  <2>7. Unspent'
    BY <1>1, <1>2, <1>4, <1>9, <2>2 DEF Unspent
  <2>8. Woken' = Woken \ {s}
    BY <2>2 DEF Woken
  <2>9. IsFiniteSet(Woken') /\ Cardinality(Woken') \in Nat
    BY <1>1, <2>8, FS_RemoveElement, FS_CardinalityType
  <2>10. NoLostWakeup'
    BY <1>2, <1>3, <1>7, <1>9, <2>9 DEF NoLostWakeup
  <2> QED BY <1>5, <2>4, <2>6, <2>7, <2>9, <2>10 DEF SinkInv
<1> QED BY <1>8, <1>9

(* The first in the line is woken, or there is nobody to wake.             *)
LEMMA WakeKeepsLine ==
  ASSUME TypeOK, InLine, NEW state \in [Sinks -> State], WakeNext(state),
         \A s \in Sinks : state[s] = "waiting" <=> pc[s] = "waiting"
  PROVE  /\ putters' \in Seq(Sinks) /\ pc' \in [Sinks -> State] /\ InLine'
         /\ \/ putters = <<>> /\ putters' = <<>> /\ pc' = state
            \/ \E h \in Sinks : /\ pc[h] = "waiting" /\ state[h] = "waiting"
                                /\ pc' = [state EXCEPT ![h] = "woken"]
<1>1. CASE putters = <<>>
  BY <1>1 DEF WakeNext, InLine, TypeOK
<1>2. CASE putters # <<>>
  <2> DEFINE h == Head(putters)
  <2>1. pc' = [state EXCEPT ![h] = "woken"] /\ putters' = Tail(putters)
    BY <1>2 DEF WakeNext
  <2>2. /\ h \in Sinks /\ putters' \in Seq(Sinks)
        /\ Len(putters') = Len(putters) - 1
        /\ \A i \in 1..Len(putters') : putters'[i] = putters[i + 1]
    BY <1>2, <2>1, HeadTailProperties DEF TypeOK
  <2>3. /\ Len(putters) \in Nat \ {0} /\ DOMAIN putters = 1..Len(putters)
        /\ h = putters[1]
    BY <1>2, QueueShape DEF TypeOK
  <2> HIDE DEF h
  <2>4. DOMAIN putters' = 1..Len(putters) - 1
    BY <2>2, LenProperties
  <2>5. /\ pc' \in [Sinks -> State] /\ pc'[h] = "woken"
        /\ \A t \in Sinks \ {h} : pc'[t] = state[t]
    BY <2>1, <2>2 DEF State
  <2>6. pc[h] = "waiting"
    BY <2>2, <2>3 DEF InLine
  <2>7. \A i \in DOMAIN putters' :
          i + 1 \in DOMAIN putters /\ i + 1 # 1 /\ putters'[i] = putters[i + 1]
    BY <2>2, <2>3, <2>4
  <2>8. \A i, j \in DOMAIN putters' : putters'[i] = putters'[j] => i = j
    <3> SUFFICES ASSUME NEW i \in DOMAIN putters', NEW j \in DOMAIN putters',
                        putters'[i] = putters'[j]
                 PROVE  i = j
      OBVIOUS
    <3>1. i + 1 = j + 1
      BY <2>7 DEF InLine
    <3> QED BY <2>3, <2>4, <3>1
  <2>9. ASSUME NEW t \in Sinks
        PROVE  pc'[t] = "waiting" <=> \E i \in DOMAIN putters' : putters'[i] = t
    <3>1. CASE t = h
      <4>1. \A i \in DOMAIN putters' : putters'[i] # h
        BY <2>3, <2>7 DEF InLine
      <4> QED BY <2>5, <3>1, <4>1
    <3>2. CASE t # h
      <4>1. pc'[t] = "waiting" <=> \E i \in DOMAIN putters : putters[i] = t
        BY <2>5, <3>2 DEF InLine
      <4>2. \A i \in DOMAIN putters : putters[i] = t =>
              i - 1 \in DOMAIN putters' /\ putters'[i - 1] = t
        BY <2>2, <2>3, <2>4, <3>2
      <4> QED BY <2>7, <4>1, <4>2
    <3> QED BY <3>1, <3>2
  <2>10. InLine'
    BY <2>8, <2>9 DEF InLine
  <2> QED BY <2>1, <2>2, <2>5, <2>6, <2>10
<1> QED BY <1>1, <1>2

(* A call that waits leaves the line.                                      *)
LEMMA LeaveKeepsLine ==
  ASSUME TypeOK, InLine, NEW s \in Sinks, NEW k \in DOMAIN putters, putters[k] = s,
         putters' = RemoveAt(putters, k), pc' = [pc EXCEPT ![s] = "cancelled"]
  PROVE  putters' \in Seq(Sinks) /\ InLine' /\ (putters' # <<>> => putters # <<>>)
<1> DEFINE n == Len(putters)
           a == SubSeq(putters, 1, k - 1)
           b == SubSeq(putters, k + 1, n)
<1>1. n \in Nat /\ DOMAIN putters = 1..n /\ k \in 1..n
      /\ \A i \in DOMAIN putters : putters[i] \in Sinks
  BY QueueShape
<1>2. /\ a \in Seq(Sinks) /\ Len(a) = k - 1
      /\ \A i \in 1..k - 1 : a[i] = putters[i]
  <2>1. \A i \in 1..k - 1 : putters[i] \in Sinks
    BY <1>1
  <2>2. 1 \in Int /\ k - 1 \in Int
    BY <1>1
  <2>3. /\ a \in Seq(Sinks)
        /\ Len(a) = IF 1 <= k - 1 THEN (k - 1) - 1 + 1 ELSE 0
        /\ \A i \in 1..(k - 1) - 1 + 1 : a[i] = putters[1 + i - 1]
    BY <2>1, <2>2, SubSeqProperties
  <2> QED BY <1>1, <2>3
<1>3. /\ b \in Seq(Sinks) /\ Len(b) = n - k
      /\ \A i \in 1..n - k : b[i] = putters[k + i]
  <2> DEFINE m == k + 1
  <2>1. m \in Int /\ n \in Int /\ \A i \in m..n : putters[i] \in Sinks
    BY <1>1
  <2>2. b = SubSeq(putters, m, n)
    OBVIOUS
  <2> HIDE DEF m, b
  <2>3. /\ b \in Seq(Sinks)
        /\ Len(b) = IF m <= n THEN n - m + 1 ELSE 0
        /\ \A i \in 1..n - m + 1 : b[i] = putters[m + i - 1]
    BY <2>1, <2>2, SubSeqProperties
  <2>4. n - m + 1 = n - k /\ (~ m <= n => n - k = 0)
    BY <1>1 DEF m
  <2>5. \A i \in 1..n - k : m + i - 1 = k + i
    BY <1>1 DEF m
  <2> QED BY <2>3, <2>4, <2>5
<1>4. putters' = a \o b
  BY DEF RemoveAt
<1> HIDE DEF a, b, n
<1>5. /\ putters' \in Seq(Sinks) /\ Len(putters') = n - 1
      /\ \A i \in 1..n - 1 :
           putters'[i] = IF i <= k - 1 THEN a[i] ELSE b[i - (k - 1)]
  <2>1. /\ a \o b \in Seq(Sinks) /\ Len(a \o b) = Len(a) + Len(b)
        /\ \A i \in 1..Len(a) + Len(b) :
             (a \o b)[i] = IF i <= Len(a) THEN a[i] ELSE b[i - Len(a)]
    BY <1>2, <1>3, ConcatProperties
  <2>2. Len(a) + Len(b) = n - 1 /\ Len(a) = k - 1
    BY <1>1, <1>2, <1>3
  <2> QED BY <1>4, <2>1, <2>2
<1>6. DOMAIN putters' = 1..n - 1
  BY <1>5, LenProperties
<1>7. \A i \in 1..n - 1 : putters'[i] = putters[IF i < k THEN i ELSE i + 1]
  <2> SUFFICES ASSUME NEW i \in 1..n - 1
               PROVE  putters'[i] = putters[IF i < k THEN i ELSE i + 1]
    OBVIOUS
  <2>1. CASE i < k
    <3>1. i \in 1..k - 1 /\ i <= k - 1
      BY <1>1, <2>1
    <3>2. a[i] = putters[i]
      BY <1>2, <3>1
    <3> QED BY <1>5, <2>1, <3>1, <3>2
  <2>2. CASE i >= k
    <3>1. i - (k - 1) \in 1..n - k /\ k + (i - (k - 1)) = i + 1
      BY <1>1, <2>2
    <3>2. b[i - (k - 1)] = putters[i + 1]
      BY <1>3, <3>1
    <3>3. ~ (i <= k - 1) /\ ~ (i < k)
      BY <1>1, <2>2
    <3> QED BY <1>5, <3>2, <3>3
  <2> QED BY <1>1, <2>1, <2>2
<1> DEFINE at(i) == IF i < k THEN i ELSE i + 1
<1>8. \A i \in DOMAIN putters' :
        at(i) \in DOMAIN putters /\ at(i) # k /\ putters'[i] = putters[at(i)]
  BY <1>1, <1>6, <1>7
<1>9. \A i, j \in DOMAIN putters' : at(i) = at(j) => i = j
  BY <1>1, <1>6
<1>10. \A j \in DOMAIN putters : j # k => \E i \in DOMAIN putters' : at(i) = j
  <2> SUFFICES ASSUME NEW j \in DOMAIN putters, j # k
               PROVE  \E i \in DOMAIN putters' : at(i) = j
    OBVIOUS
  <2>1. CASE j < k
    <3>1. j \in DOMAIN putters' /\ at(j) = j
      BY <1>1, <1>6, <2>1
    <3> QED BY <3>1
  <2>2. CASE j > k
    <3>1. j - 1 \in DOMAIN putters' /\ at(j - 1) = j
      BY <1>1, <1>6, <2>2
    <3> QED BY <3>1
  <2> QED BY <1>1, <2>1, <2>2
<1> HIDE DEF at
<1>11. \A i, j \in DOMAIN putters' : putters'[i] = putters'[j] => i = j
  BY <1>8, <1>9 DEF InLine
<1>12. ASSUME NEW t \in Sinks
       PROVE  pc'[t] = "waiting" <=> \E i \in DOMAIN putters' : putters'[i] = t
  <2>1. CASE t = s
    <3>1. \A i \in DOMAIN putters' : putters'[i] # s
      BY <1>8 DEF InLine
    <3> QED BY <2>1, <3>1 DEF TypeOK
  <2>2. CASE t # s
    <3>1. pc'[t] = "waiting" <=> \E i \in DOMAIN putters : putters[i] = t
      BY <2>2 DEF InLine, TypeOK
    <3> QED BY <1>8, <1>10, <2>2, <3>1
  <2> QED BY <2>1, <2>2
<1> QED BY <1>1, <1>5, <1>11, <1>12, QueueShape DEF InLine

LEMMA CancelKeeps ==
  ASSUME SinkInv, NEW s \in Sinks, Cancel(s)
  PROVE  SinkInv'
<1>1. /\ TypeOK /\ InLine /\ Unspent /\ WithinVolume /\ IsFiniteSet(Woken)
      /\ NoLostWakeup /\ UNCHANGED <<queue, sunk, taken>>
  BY DEF SinkInv, Cancel
<1>2. CASE pc[s] = "waiting"
  <2>1. pc' = [pc EXCEPT ![s] = "cancelled"]
    BY <1>2 DEF Cancel
  <2>2. PICK k \in DOMAIN putters :
          putters[k] = s /\ putters' = RemoveAt(putters, k)
    BY <1>2 DEF Cancel
  <2>3. /\ putters' \in Seq(Sinks) /\ InLine'
        /\ putters' # <<>> => putters # <<>>
    BY <1>1, <2>1, <2>2, LeaveKeepsLine
  <2>4. /\ pc' \in [Sinks -> State] /\ pc'[s] = "cancelled"
        /\ \A t \in Sinks \ {s} : pc'[t] = pc[t]
    BY <1>1, <2>1 DEF TypeOK, State
  <2>5. TypeOK' /\ Unspent' /\ WithinVolume'
    BY <1>1, <2>3, <2>4 DEF TypeOK, State, Unspent, WithinVolume
  <2>6. Woken' = Woken
    BY <1>2, <2>4 DEF Woken
  <2> QED BY <1>1, <2>3, <2>5, <2>6 DEF SinkInv, NoLostWakeup
<1>3. CASE pc[s] = "woken"
  <2>1. pc' = [pc EXCEPT ![s] = "cancelling"] /\ putters' = putters
    BY <1>3 DEF Cancel
  <2>2. /\ pc' \in [Sinks -> State] /\ pc'[s] = "cancelling"
        /\ \A t \in Sinks \ {s} : pc'[t] = pc[t]
    BY <1>1, <2>1 DEF TypeOK, State
  <2>3. TypeOK' /\ Unspent' /\ WithinVolume' /\ InLine'
    BY <1>1, <1>3, <2>1, <2>2 DEF TypeOK, State, Unspent, WithinVolume, InLine
  <2>4. Woken' = Woken
    BY <1>3, <2>2 DEF Woken
  <2> QED BY <1>1, <2>1, <2>3, <2>4 DEF SinkInv, NoLostWakeup
<1> QED BY <1>2, <1>3 DEF Cancel

(* Waking the first in the line makes one more that was woken, and leaves  *)
(* nobody in a line that was empty.                                        *)
LEMMA WakeCounts ==
  ASSUME TypeOK, InLine, NEW state \in [Sinks -> State], WakeNext(state),
         \A t \in Sinks : state[t] = "waiting" <=> pc[t] = "waiting",
         NEW W, W = {t \in Sinks : state[t] \in {"woken", "cancelling"}},
         IsFiniteSet(W)
  PROVE  /\ putters' \in Seq(Sinks) /\ pc' \in [Sinks -> State] /\ InLine'
         /\ IsFiniteSet(Woken')
         /\ \A t \in Sinks : pc'[t] = state[t] \/ pc[t] = "waiting"
         /\ putters' # <<>> =>
              putters # <<>> /\ Cardinality(Woken') = Cardinality(W) + 1
<1>1. /\ putters' \in Seq(Sinks) /\ pc' \in [Sinks -> State] /\ InLine'
      /\ \/ putters = <<>> /\ putters' = <<>> /\ pc' = state
         \/ \E h \in Sinks : /\ pc[h] = "waiting" /\ state[h] = "waiting"
                             /\ pc' = [state EXCEPT ![h] = "woken"]
  BY WakeKeepsLine
<1>2. CASE putters = <<>> /\ putters' = <<>> /\ pc' = state
  <2>1. Woken' = W
    BY <1>2 DEF Woken
  <2> QED BY <1>1, <1>2, <2>1
<1>3. ASSUME NEW h \in Sinks, pc[h] = "waiting", state[h] = "waiting",
             pc' = [state EXCEPT ![h] = "woken"]
      PROVE  /\ IsFiniteSet(Woken') /\ Cardinality(Woken') = Cardinality(W) + 1
             /\ \A t \in Sinks : pc'[t] = state[t] \/ pc[t] = "waiting"
             /\ putters # <<>>
  <2>1. Woken' = W \cup {h} /\ h \notin W
    BY <1>3 DEF Woken
  <2>2. IsFiniteSet(Woken') /\ Cardinality(Woken') = Cardinality(W) + 1
    BY <2>1, FS_AddElement
  <2>3. putters # <<>>
    BY <1>3, QueueShape DEF InLine
  <2> QED BY <1>3, <2>2, <2>3
<1> QED BY <1>1, <1>2, <1>3

(* Nobody is done by being woken.                                          *)
LEMMA WokenNotDone ==
  ASSUME NEW state \in [Sinks -> State], WakeNext(state)
  PROVE  \A t \in Sinks : pc'[t] = "done" => state[t] = "done"
BY DEF WakeNext

(* A call that was woken for nothing passes the wakeup on.                 *)
LEMMA GiveUpKeeps ==
  ASSUME SinkInv, NEW s \in Sinks, GiveUp(s)
  PROVE  SinkInv'
<1> DEFINE over == [pc EXCEPT ![s] = "cancelled"]
<1>1. /\ TypeOK /\ InLine /\ Unspent /\ WithinVolume /\ IsFiniteSet(Woken)
      /\ NoLostWakeup /\ UNCHANGED <<queue, sunk, taken>> /\ pc[s] = "cancelling"
  BY DEF SinkInv, GiveUp
<1>2. /\ over \in [Sinks -> State] /\ over[s] = "cancelled"
      /\ \A t \in Sinks \ {s} : over[t] = pc[t]
  BY <1>1 DEF TypeOK, State
<1>3. /\ Full => pc' = over /\ putters' = putters
      /\ ~ Full => WakeNext(over)
  BY DEF GiveUp
<1> HIDE DEF over
<1>4. /\ IsFiniteSet(Woken \ {s}) /\ Cardinality(Woken \ {s}) = Cardinality(Woken) - 1
      /\ Cardinality(Woken) \in Nat /\ Cardinality(Woken \ {s}) \in Nat
  <2>1. s \in Woken
    BY <1>1 DEF Woken
  <2>2. /\ IsFiniteSet(Woken \ {s}) /\ Cardinality(Woken \ {s}) = Cardinality(Woken) - 1
    BY <1>1, <2>1, FS_RemoveElement
  <2> QED BY <1>1, <2>2, FS_CardinalityType
<1>5. Len(queue) \in Nat /\ Volume \in Nat
  BY <1>1, QueueShape, SinkAssumption
<1>6. Woken \ {s} = {t \in Sinks : over[t] \in {"woken", "cancelling"}}
  BY <1>2 DEF Woken
<1>7. CASE Full
  <2>1. TypeOK' /\ Unspent' /\ WithinVolume' /\ InLine'
    BY <1>1, <1>2, <1>3, <1>7 DEF TypeOK, State, Unspent, WithinVolume, InLine
  <2>2. Woken' = Woken \ {s}
    BY <1>3, <1>6, <1>7 DEF Woken
  <2>3. NoLostWakeup'
    BY <1>1, <1>4, <1>5, <1>7, <2>2 DEF NoLostWakeup, Full
  <2> QED BY <1>4, <2>1, <2>2, <2>3 DEF SinkInv
<1>8. CASE ~ Full
  <2>1. \A t \in Sinks : over[t] = "waiting" <=> pc[t] = "waiting"
    BY <1>1, <1>2
  <2>2. /\ putters' \in Seq(Sinks) /\ pc' \in [Sinks -> State] /\ InLine'
        /\ IsFiniteSet(Woken')
        /\ \A t \in Sinks : pc'[t] = over[t] \/ pc[t] = "waiting"
        /\ putters' # <<>> => /\ putters # <<>>
                             /\ Cardinality(Woken') = Cardinality(Woken \ {s}) + 1
    BY <1>1, <1>2, <1>3, <1>4, <1>6, <1>8, <2>1, WakeCounts
  <2>3. TypeOK' /\ WithinVolume'
    BY <1>1, <2>2 DEF TypeOK, State, WithinVolume
  <2>4. Unspent'
    BY <1>1, <1>2, <2>2 DEF Unspent
  <2>5. NoLostWakeup'
    BY <1>1, <1>4, <1>5, <2>2 DEF NoLostWakeup
  <2> QED BY <2>2, <2>3, <2>4, <2>5 DEF SinkInv
<1> QED BY <1>7, <1>8

LEMMA TakeKeeps ==
  ASSUME SinkInv, Take
  PROVE  SinkInv'
<1>1. /\ TypeOK /\ InLine /\ Unspent /\ WithinVolume /\ IsFiniteSet(Woken)
      /\ NoLostWakeup /\ UNCHANGED sunk /\ WakeNext(pc)
      /\ queue # <<>> /\ queue' = Tail(queue) /\ taken' = Append(taken, Head(queue))
  BY DEF SinkInv, Take
<1>2. /\ queue' \in Seq(Event) /\ Len(queue') = Len(queue) - 1
      /\ taken' \in Seq(Event)
  <2>1. Head(queue) \in Event /\ Tail(queue) \in Seq(Event)
        /\ Len(Tail(queue)) = Len(queue) - 1
    BY <1>1, HeadTailProperties DEF TypeOK
  <2> QED BY <1>1, <2>1, AppendProperties DEF TypeOK
<1>3. pc \in [Sinks -> State]
  BY <1>1 DEF TypeOK, State
<1>4. /\ putters' \in Seq(Sinks) /\ pc' \in [Sinks -> State] /\ InLine'
      /\ IsFiniteSet(Woken')
      /\ \A t \in Sinks : pc'[t] = pc[t] \/ pc[t] = "waiting"
      /\ putters' # <<>> => /\ putters # <<>>
                           /\ Cardinality(Woken') = Cardinality(Woken) + 1
  BY <1>1, <1>3, WakeCounts DEF Woken
<1>5. Len(queue) \in Nat /\ Volume \in Nat /\ Cardinality(Woken) \in Nat
  BY <1>1, QueueShape, SinkAssumption, FS_CardinalityType
<1>6. TypeOK'
  <2>1. UNCHANGED sunk
    BY <1>1
  <2> QED BY <1>1, <1>2, <1>4, <2>1 DEF TypeOK, State
<1>7. WithinVolume'
  BY <1>1, <1>2, <1>5 DEF WithinVolume
<1>8. Unspent'
  BY <1>1, <1>4 DEF Unspent
<1>9. NoLostWakeup'
  BY <1>1, <1>2, <1>4, <1>5 DEF NoLostWakeup
<1> QED BY <1>4, <1>6, <1>7, <1>8, <1>9 DEF SinkInv

LEMMA UnsetKeeps ==
  ASSUME SinkInv, NEW s \in Sinks, SinkUnset(s)
  PROVE  SinkInv'
<1>1. /\ TypeOK /\ InLine /\ Unspent /\ WithinVolume /\ IsFiniteSet(Woken)
      /\ NoLostWakeup /\ UNCHANGED <<queue, sunk, putters, taken>>
      /\ pc[s] = "idle" /\ pc' = [pc EXCEPT ![s] = "SinkUnsetError"]
  BY DEF SinkInv, SinkUnset
<1>2. /\ pc' \in [Sinks -> State] /\ pc'[s] = "SinkUnsetError"
      /\ \A t \in Sinks \ {s} : pc'[t] = pc[t]
  BY <1>1 DEF TypeOK, State
<1>3. TypeOK' /\ Unspent' /\ WithinVolume' /\ InLine'
  BY <1>1, <1>2 DEF TypeOK, State, Unspent, WithinVolume, InLine
<1>4. Woken' = Woken
  BY <1>1, <1>2 DEF Woken
<1> QED BY <1>1, <1>3, <1>4 DEF SinkInv, NoLostWakeup

LEMMA SinkStep == SinkInv /\ [Next]_vars => SinkInv'
<1> SUFFICES ASSUME SinkInv, [Next]_vars PROVE SinkInv'
  OBVIOUS
<1>1. ASSUME UNCHANGED vars PROVE SinkInv'
  BY <1>1 DEF vars, SinkInv, TypeOK, InLine, Unspent, WithinVolume, Woken, NoLostWakeup
<1>2. ASSUME NEW s \in Sinks, Sink(s) \/ Resume(s) PROVE SinkInv'
  BY <1>2, PutKeeps DEF Sink, Resume
<1> QED BY <1>1, <1>2, UnsetKeeps, CancelKeeps, GiveUpKeeps, TakeKeeps
        DEF Next, Quiescent

LEMMA SinkInit == Init => SinkInv
<1> SUFFICES ASSUME Init PROVE SinkInv
  OBVIOUS
<1>1. TypeOK
  BY EmptySeq DEF Init, TypeOK
<1>2. DOMAIN putters = {} /\ Len(queue) = 0
  <2>1. Len(putters) = 0 /\ Len(queue) = 0
    BY EmptySeq DEF Init
  <2> QED BY <1>1, <2>1, QueueShape
<1>3. InLine
  BY <1>2 DEF Init, InLine
<1>4. Unspent
  BY SinkAssumption DEF Init, Unspent
<1>5. WithinVolume
  BY <1>2, SinkAssumption DEF WithinVolume
<1>6. Woken = {}
  BY DEF Init, Woken
<1>7. IsFiniteSet(Woken) /\ NoLostWakeup
  BY <1>6, FS_EmptySet DEF Init, NoLostWakeup
<1> QED BY <1>1, <1>3, <1>4, <1>5, <1>7 DEF SinkInv

LEMMA SinkInvHolds == Spec => []SinkInv
BY SinkInit, SinkStep, PTL DEF Spec

-----------------------------------------------------------------------------
(* The queue, the line of waiting calls and the count of each call stay    *)
(* well typed: every event in the queue carries its call and its place.    *)
THEOREM TypeCorrect == Spec => []TypeOK
<1>1. SinkInv => TypeOK
  BY DEF SinkInv
<1> QED BY <1>1, SinkInvHolds, PTL

(* The queue never holds more than its volume, whichever of the calls that *)
(* were woken, or came meanwhile, gets to put first.                       *)
THEOREM VolumeKept == Spec => []WithinVolume
<1>1. SinkInv => WithinVolume
  BY DEF SinkInv
<1> QED BY <1>1, SinkInvHolds, PTL

(* While calls wait, there is no room that nobody was woken for, though    *)
(* calls are cancelled while they wait and after they were woken.          *)
THEOREM WakeupKept == Spec => []NoLostWakeup
<1>1. SinkInv => NoLostWakeup
  BY DEF SinkInv
<1> QED BY <1>1, SinkInvHolds, PTL

-----------------------------------------------------------------------------
(* What was put so far of the call s: its events up to the n-th, each once *)
(* and in their order.                                                     *)
Placed(put, s, n) ==
  /\ \A i \in DOMAIN put : put[i][1] = s => put[i][2] \in 1..n
  /\ \A k \in 1..n : \E i \in DOMAIN put : put[i] = <<s, k>>
  /\ \A i, j \in DOMAIN put :
       i < j /\ put[i][1] = s /\ put[j][1] = s => put[i][2] < put[j][2]

PutSoFar == taken \o queue

OrderInv ==
  /\ SinkInv
  /\ \A s \in Sinks : Placed(PutSoFar, s, sunk[s])
  /\ \A s \in Sinks : pc[s] = "done" => sunk[s] = Batch[s]

LEMMA PutSoFarShape ==
  ASSUME SinkInv
  PROVE  /\ PutSoFar \in Seq(Event) /\ taken \in Seq(Event) /\ queue \in Seq(Event)
         /\ Len(PutSoFar) = Len(taken) + Len(queue)
         /\ Len(taken) \in Nat /\ Len(queue) \in Nat
         /\ \A s \in Sinks : sunk[s] \in Nat
BY ConcatProperties, LenProperties DEF SinkInv, TypeOK, PutSoFar

LEMMA OrderMeans == OrderInv => EventsInOrder
<1> SUFFICES ASSUME OrderInv, NEW s \in Sinks
             PROVE  /\ {PutSoFar[i] : i \in {j \in DOMAIN PutSoFar : PutSoFar[j][1] = s}}
                          = {s} \X (1..sunk[s])
                    /\ \A i, j \in DOMAIN PutSoFar :
                         i < j /\ PutSoFar[i][1] = s /\ PutSoFar[j][1] = s
                           => PutSoFar[i][2] < PutSoFar[j][2]
                    /\ pc[s] = "done" => sunk[s] = Batch[s]
  BY DEF EventsInOrder, PutSoFar
<1>1. Placed(PutSoFar, s, sunk[s]) /\ (pc[s] = "done" => sunk[s] = Batch[s])
  BY DEF OrderInv
<1>2. \A i \in DOMAIN PutSoFar : PutSoFar[i] \in Event
  BY PutSoFarShape, ElementOfSeq, LenProperties DEF OrderInv
<1> DEFINE put == PutSoFar
           mine == {put[i] : i \in {j \in DOMAIN put : put[j][1] = s}}
<1> HIDE DEF put
<1>3. ASSUME NEW e \in mine PROVE e \in {s} \X (1..sunk[s])
  <2>1. PICK i \in DOMAIN put : put[i] = e /\ put[i][1] = s
    OBVIOUS
  <2>2. put[i] \in Event /\ put[i][2] \in 1..sunk[s]
    BY <1>1, <1>2, <2>1 DEF put, Placed
  <2> QED BY <2>1, <2>2 DEF Event
<1>4. ASSUME NEW e \in {s} \X (1..sunk[s]) PROVE e \in mine
  <2>1. e = <<s, e[2]>> /\ e[2] \in 1..sunk[s] /\ e[1] = s
    OBVIOUS
  <2>2. PICK i \in DOMAIN put : put[i] = e
    BY <1>1, <2>1 DEF put, Placed
  <2> QED BY <2>1, <2>2
<1>5. mine = {s} \X (1..sunk[s])
  BY <1>3, <1>4
<1> QED BY <1>1, <1>5 DEF put, Placed

(* The next events of a call at the end.                                   *)
LEMMA PlacedMore ==
  ASSUME NEW put \in Seq(Event), NEW s \in Sinks, NEW m \in Nat, NEW n \in Nat, m <= n,
         Placed(put, s, m)
  PROVE  /\ put \o Events(s, m, n) \in Seq(Event)
         /\ Placed(put \o Events(s, m, n), s, n)
         /\ \A t \in Sinks \ {s} : \A k \in Nat :
              Placed(put, t, k) => Placed(put \o Events(s, m, n), t, k)
<1> DEFINE es == Events(s, m, n)
           more == put \o es
           p == Len(put)
<1>1. /\ es \in Seq(Event) /\ Len(es) = n - m
      /\ \A i \in 1..n - m : es[i] = <<s, m + i>>
  BY EventsType DEF Events
<1> HIDE DEF es
<1>2. /\ p \in Nat /\ DOMAIN put = 1..p
      /\ more \in Seq(Event) /\ DOMAIN more = 1..p + (n - m)
  <2>1. p \in Nat /\ DOMAIN put = 1..p
    BY LenProperties
  <2>2. more \in Seq(Event) /\ Len(more) = p + (n - m)
    BY <1>1, ConcatProperties
  <2> HIDE DEF more
  <2>3. DOMAIN more = 1..Len(more)
    BY <2>2, LenProperties
  <2> QED BY <2>1, <2>2, <2>3
<1>3. /\ \A i \in 1..p : more[i] = put[i]
      /\ \A i \in 1..n - m : more[p + i] = <<s, m + i>>
  <2>1. \A i \in 1..p + (n - m) : more[i] = IF i <= p THEN put[i] ELSE es[i - p]
    BY <1>1, ConcatProperties
  <2>2. \A i \in 1..p : i \in 1..p + (n - m) /\ i <= p
    BY <1>2
  <2>3. \A i \in 1..n - m : /\ p + i \in 1..p + (n - m) /\ ~ p + i <= p
                           /\ (p + i) - p = i
    BY <1>2
  <2> HIDE DEF more
  <2> QED BY <1>1, <2>1, <2>2, <2>3
<1> HIDE DEF more, p
<1>4. \A i \in 1..p + (n - m) : i \in 1..p \/ (i - p \in 1..n - m /\ p + (i - p) = i)
  BY <1>2
<1>5. \A i \in 1..p + (n - m) : i \notin 1..p =>
        /\ more[i] = <<s, m + (i - p)>> /\ more[i][1] = s
        /\ more[i][2] = m + (i - p) /\ i - p \in 1..n - m
  BY <1>3, <1>4
<1>6. Placed(more, s, n)
  <2>1. ASSUME NEW i \in DOMAIN more, more[i][1] = s PROVE more[i][2] \in 1..n
    <3>1. CASE i \in 1..p
      BY <1>2, <1>3, <2>1, <3>1 DEF Placed
    <3>2. CASE i \notin 1..p
      BY <1>2, <1>5, <3>2
    <3> QED BY <3>1, <3>2
  <2>2. ASSUME NEW k \in 1..n PROVE \E i \in DOMAIN more : more[i] = <<s, k>>
    <3>1. CASE k \in 1..m
      <4>1. PICK i \in DOMAIN put : put[i] = <<s, k>>
        BY <3>1 DEF Placed
      <4>2. i \in DOMAIN more /\ more[i] = put[i]
        BY <1>2, <1>3
      <4> QED BY <4>1, <4>2
    <3>2. CASE k \notin 1..m
      <4>1. k - m \in 1..n - m /\ m + (k - m) = k
        BY <3>2
      <4>2. p + (k - m) \in DOMAIN more
        BY <1>2, <4>1
      <4> QED BY <1>3, <4>1, <4>2
    <3> QED BY <3>1, <3>2
  <2>3. ASSUME NEW i \in DOMAIN more, NEW j \in DOMAIN more, i < j,
               more[i][1] = s, more[j][1] = s
        PROVE  more[i][2] < more[j][2]
    <3>1. CASE j \in 1..p
      <4>1. i \in 1..p
        BY <1>2, <2>3, <3>1
      <4> QED BY <1>2, <1>3, <2>3, <3>1, <4>1 DEF Placed
    <3>2. CASE j \notin 1..p /\ i \in 1..p
      <4>1. more[i][2] \in 1..m
        BY <1>2, <1>3, <2>3, <3>2 DEF Placed
      <4> QED BY <1>2, <1>5, <3>2, <4>1
    <3>3. CASE j \notin 1..p /\ i \notin 1..p
      BY <1>2, <1>5, <2>3, <3>3
    <3> QED BY <3>1, <3>2, <3>3
  <2> QED BY <2>1, <2>2, <2>3 DEF Placed
<1>7. ASSUME NEW t \in Sinks \ {s}, NEW k \in Nat, Placed(put, t, k)
      PROVE  Placed(more, t, k)
  <2>1. \A i \in DOMAIN more : more[i][1] = t =>
          i \in DOMAIN put /\ more[i] = put[i]
    BY <1>2, <1>3, <1>5
  <2>2. \A i \in DOMAIN put : i \in DOMAIN more /\ more[i] = put[i]
    BY <1>2, <1>3
  <2> QED BY <1>7, <2>1, <2>2 DEF Placed
<1>8. more \in Seq(Event)
  BY <1>2
<1> QED BY <1>6, <1>7, <1>8 DEF more, es

(* Taking the first event of the queue moves it, and no more.              *)
LEMMA TakeMoves ==
  ASSUME NEW a \in Seq(Event), NEW q \in Seq(Event), q # <<>>
  PROVE  Append(a, Head(q)) \o Tail(q) = a \o q
<1> DEFINE l == Append(a, Head(q)) \o Tail(q)
           r == a \o q
<1>1. /\ Head(q) \in Event /\ Tail(q) \in Seq(Event) /\ Len(Tail(q)) = Len(q) - 1
      /\ \A i \in 1..Len(q) - 1 : Tail(q)[i] = q[i + 1]
      /\ Head(q) = q[1] /\ Len(q) \in Nat \ {0} /\ Len(a) \in Nat
  BY HeadTailProperties, LenProperties, EmptySeq
<1>2. /\ Append(a, Head(q)) \in Seq(Event) /\ Len(Append(a, Head(q))) = Len(a) + 1
      /\ \A i \in 1..Len(a) : Append(a, Head(q))[i] = a[i]
      /\ Append(a, Head(q))[Len(a) + 1] = Head(q)
  BY <1>1, AppendProperties
<1>3. /\ l \in Seq(Event) /\ Len(l) = (Len(a) + 1) + (Len(q) - 1)
      /\ \A i \in 1..(Len(a) + 1) + (Len(q) - 1) :
           l[i] = IF i <= Len(a) + 1 THEN Append(a, Head(q))[i]
                                     ELSE Tail(q)[i - (Len(a) + 1)]
  BY <1>1, <1>2, ConcatProperties
<1>4. /\ r \in Seq(Event) /\ Len(r) = Len(a) + Len(q)
      /\ \A i \in 1..Len(a) + Len(q) : r[i] = IF i <= Len(a) THEN a[i] ELSE q[i - Len(a)]
  BY ConcatProperties
<1> HIDE DEF l, r
<1>5. (Len(a) + 1) + (Len(q) - 1) = Len(a) + Len(q)
  BY <1>1
<1>6. ASSUME NEW i \in 1..Len(a) + Len(q) PROVE l[i] = r[i]
  <2>1. CASE i <= Len(a)
    BY <1>1, <1>2, <1>3, <1>4, <1>5, <2>1
  <2>2. CASE i = Len(a) + 1
    <3>1. l[i] = q[1]
      BY <1>1, <1>2, <1>3, <1>5, <2>2
    <3>2. i - Len(a) = 1 /\ ~ i <= Len(a)
      BY <1>1, <2>2
    <3> QED BY <1>4, <3>1, <3>2
  <2>3. CASE i > Len(a) + 1
    <3>1. /\ i - (Len(a) + 1) \in 1..Len(q) - 1
          /\ (i - (Len(a) + 1)) + 1 = i - Len(a)
          /\ ~ i <= Len(a) + 1 /\ ~ i <= Len(a)
      BY <1>1, <2>3
    <3>2. l[i] = Tail(q)[i - (Len(a) + 1)]
      BY <1>3, <1>5, <3>1
    <3>3. Tail(q)[i - (Len(a) + 1)] = q[i - Len(a)]
      BY <1>1, <3>1
    <3> QED BY <1>4, <3>1, <3>2, <3>3
  <2> QED BY <1>1, <2>1, <2>2, <2>3
<1>7. l = r
  BY <1>3, <1>4, <1>5, <1>6, SeqEqual
<1> QED BY <1>7 DEF l, r
LEMMA OrderStep == OrderInv /\ [Next]_vars => OrderInv'
<1> SUFFICES ASSUME OrderInv, [Next]_vars PROVE OrderInv'
  OBVIOUS
<1>1. SinkInv /\ SinkInv' /\ TypeOK
  BY SinkStep DEF OrderInv, SinkInv
<1>2. ASSUME UNCHANGED <<queue, taken, sunk>>,
             \A t \in Sinks : pc'[t] = "done" => pc[t] = "done"
      PROVE  OrderInv'
  BY <1>1, <1>2 DEF OrderInv, PutSoFar
<1>3. ASSUME NEW s \in Sinks, Put(s), UNCHANGED taken PROVE OrderInv'
  <2> DEFINE es == Events(s, sunk[s], Reach(s))
  <2>1. /\ sunk[s] \in Nat /\ Reach(s) \in Nat /\ sunk[s] <= Reach(s)
        /\ es \in Seq(Event)
    BY <1>1, ReachBounds, EventsType DEF TypeOK
  <2>2. PutSoFar \in Seq(Event) /\ Placed(PutSoFar, s, sunk[s])
    BY <1>1, PutSoFarShape DEF OrderInv
  <2>3. PutSoFar' = PutSoFar \o es
    <3>1. queue' = queue \o es
      BY <1>3 DEF Put
    <3> HIDE DEF es
    <3>2. taken \in Seq(Event) /\ queue \in Seq(Event)
      BY <1>1 DEF TypeOK
    <3>3. taken \o (queue \o es) = (taken \o queue) \o es
      BY <2>1, <3>2, EventsAssociate
    <3> QED BY <1>3, <3>1, <3>3 DEF PutSoFar
  <2>4. /\ sunk'[s] = Reach(s) /\ \A t \in Sinks \ {s} : sunk'[t] = sunk[t]
        /\ pc'[s] = "done" => Reach(s) = Batch[s]
        /\ \A t \in Sinks \ {s} : pc'[t] = pc[t]
    BY <1>1, <1>3 DEF Put, TypeOK
  <2>5. Placed(PutSoFar \o es, s, Reach(s))
    BY <2>1, <2>2, PlacedMore
  <2>6. ASSUME NEW t \in Sinks \ {s} PROVE Placed(PutSoFar \o es, t, sunk[t])
    <3>1. Placed(PutSoFar, t, sunk[t]) /\ sunk[t] \in Nat
      BY <1>1 DEF OrderInv, TypeOK
    <3> QED BY <2>1, <2>2, <3>1, PlacedMore
  <2> HIDE DEF es
  <2>7. \A t \in Sinks : Placed(PutSoFar', t, sunk'[t])
    BY <2>3, <2>4, <2>5, <2>6
  <2>8. \A t \in Sinks : pc'[t] = "done" => sunk'[t] = Batch[t]
    BY <2>4 DEF OrderInv
  <2> QED BY <1>1, <2>7, <2>8 DEF OrderInv, Placed
<1>4. ASSUME Take PROVE OrderInv'
  <2>1. PutSoFar' = PutSoFar /\ sunk' = sunk
    BY <1>1, <1>4, TakeMoves DEF Take, PutSoFar, TypeOK
  <2>2. \A t \in Sinks : pc'[t] = "done" => pc[t] = "done"
    <3>1. pc \in [Sinks -> State] /\ WakeNext(pc)
      BY <1>1, <1>4 DEF Take, TypeOK, State
    <3> QED BY <3>1, WokenNotDone
  <2> QED BY <1>1, <2>1, <2>2 DEF OrderInv, Placed
<1>5. ASSUME NEW s \in Sinks, GiveUp(s) PROVE OrderInv'
  <2> DEFINE over == [pc EXCEPT ![s] = "cancelled"]
  <2>1. UNCHANGED <<queue, taken, sunk>> /\ (pc' = over \/ WakeNext(over))
    BY <1>5 DEF GiveUp
  <2>2. over \in [Sinks -> State] /\ \A t \in Sinks : over[t] = "done" => pc[t] = "done"
    BY <1>1 DEF TypeOK, State
  <2> HIDE DEF over
  <2>3. \A t \in Sinks : pc'[t] = "done" => pc[t] = "done"
    BY <1>1, <2>1, <2>2, WokenNotDone
  <2> QED BY <1>2, <2>1, <2>3
<1>6. ASSUME NEW s \in Sinks, SinkUnset(s) \/ Cancel(s) PROVE OrderInv'
  <2>1. UNCHANGED <<queue, taken, sunk>>
    BY <1>6 DEF SinkUnset, Cancel
  <2>2. \/ pc' = [pc EXCEPT ![s] = "SinkUnsetError"]
        \/ pc' = [pc EXCEPT ![s] = "cancelled"]
        \/ pc' = [pc EXCEPT ![s] = "cancelling"]
    BY <1>6 DEF SinkUnset, Cancel
  <2>3. \A t \in Sinks : pc'[t] = "done" => pc[t] = "done"
    BY <1>1, <2>2 DEF TypeOK
  <2> QED BY <1>2, <2>1, <2>3
<1>7. CASE UNCHANGED vars
  BY <1>2, <1>7 DEF vars
<1> QED BY <1>3, <1>4, <1>5, <1>6, <1>7 DEF Next, Sink, Resume, Quiescent

LEMMA OrderInit == Init => OrderInv
<1> SUFFICES ASSUME Init PROVE OrderInv
  OBVIOUS
<1>1. SinkInv
  BY SinkInit
<1>2. DOMAIN PutSoFar = {} /\ \A s \in Sinks : sunk[s] = 0 /\ pc[s] # "done"
  <2>1. Len(PutSoFar) = 0
    BY <1>1, PutSoFarShape, EmptySeq DEF Init
  <2>2. DOMAIN PutSoFar = 1..0
    BY <1>1, <2>1, PutSoFarShape, LenProperties
  <2> QED BY <2>2 DEF Init
<1>3. ASSUME NEW s \in Sinks PROVE Placed(PutSoFar, s, sunk[s])
  BY <1>2 DEF Placed
<1> QED BY <1>1, <1>2, <1>3 DEF OrderInv

LEMMA OrderInvHolds == Spec => []OrderInv
BY OrderInit, OrderStep, PTL DEF Spec

(* The consumer gets of every call what the call has put, each event once  *)
(* and in the order of the sequence, whoever waits, is woken, comes first  *)
(* or is cancelled; all of it, when the call returned.                     *)
THEOREM OrderKept == Spec => []EventsInOrder
<1> QED BY OrderMeans, OrderInvHolds, PTL

-----------------------------------------------------------------------------
(* The sink is a channel.  What the channel counts of a sender is how many *)
(* events the call has put.                                                *)
LEMMA CountIs ==
  ASSUME OrderInv, NEW s \in Sinks
  PROVE  Abstract!Count(s) = sunk[s]
<1> DEFINE put == PutSoFar
           mine == {i \in DOMAIN put : put[i][1] = s}
           f == [i \in mine |-> put[i][2]]
<1>1. Placed(put, s, sunk[s]) /\ sunk[s] \in Nat
  BY DEF OrderInv, SinkInv, TypeOK
<1>2. DOMAIN put = 1..Len(put) /\ Len(put) \in Nat
  BY PutSoFarShape, LenProperties DEF OrderInv
<1> HIDE DEF put
<1>3. \A i, j \in mine : i < j => f[i] < f[j]
  BY <1>1 DEF Placed
<1>4. f \in [mine -> 1..sunk[s]]
  BY <1>1 DEF Placed
<1>5. \A i, j \in mine : f[i] = f[j] => i = j
  <2> SUFFICES ASSUME NEW i \in mine, NEW j \in mine, f[i] = f[j], i # j PROVE FALSE
    OBVIOUS
  <2>1. i \in Nat /\ j \in Nat /\ f[i] \in Nat
    BY <1>2, <1>4
  <2>2. i < j \/ j < i
    BY <2>1
  <2>3. f[i] < f[j] \/ f[j] < f[i]
    BY <1>3, <2>2
  <2> HIDE DEF f
  <2> QED BY <2>1, <2>3
<1>6. \A k \in 1..sunk[s] : \E i \in mine : f[i] = k
  <2> TAKE k \in 1..sunk[s]
  <2>1. PICK i \in DOMAIN put : put[i] = <<s, k>>
    BY <1>1 DEF Placed
  <2>2. i \in mine /\ f[i] = k
    BY <2>1
  <2> QED BY <2>2
<1> HIDE DEF mine, f
<1>7. f \in Surjection(mine, 1..sunk[s]) /\ f \in Injection(mine, 1..sunk[s])
  BY <1>4, <1>5, <1>6 DEF Surjection, Injection, IsInjective
<1>8. IsFiniteSet(mine)
  <2>1. mine \subseteq 1..Len(put) /\ IsFiniteSet(1..Len(put))
    BY <1>2, FS_Interval DEF mine
  <2> QED BY <2>1, FS_Subset
<1>9. Cardinality(1..sunk[s]) = Cardinality(mine)
  BY <1>7, <1>8, FS_Surjection
<1>10. Cardinality(1..sunk[s]) = sunk[s]
  BY <1>1, FS_Interval
<1>11. Abstract!Count(s) = Cardinality(mine)
  BY DEF Abstract!Count, mine, put, PutSoFar, Abstract!Cardinality, Cardinality
<1> QED BY <1>9, <1>10, <1>11

LEMMA PutMaps ==
  ASSUME OrderInv, NEW s \in Sinks, Put(s), UNCHANGED taken
  PROVE  [Abstract!Next]_(Abstract!cvars)
<1> DEFINE n == Reach(s) - sunk[s]
<1>1. SinkInv /\ TypeOK
  BY DEF OrderInv, SinkInv
<1>2. /\ sunk[s] \in Nat /\ Reach(s) \in Nat /\ Batch[s] \in Nat /\ n \in Nat
      /\ sunk[s] + n = Reach(s) /\ sunk[s] <= Reach(s) /\ Reach(s) <= Batch[s]
      /\ Volume > 0 => Len(queue) + n <= Volume
  BY <1>1, ReachBounds, SinkAssumption DEF TypeOK
<1>3. (taken \o queue)' = (taken \o queue) \o Events(s, sunk[s], Reach(s))
  <2> DEFINE es == Events(s, sunk[s], Reach(s))
  <2>1. es \in Seq(Event)
    BY <1>2, EventsType
  <2>2. queue' = queue \o es /\ taken \in Seq(Event) /\ queue \in Seq(Event)
    BY <1>1 DEF Put, TypeOK
  <2> HIDE DEF es
  <2>3. taken \o (queue \o es) = (taken \o queue) \o es
    BY <2>1, <2>2, EventsAssociate
  <2>4. (taken \o queue)' = (taken \o queue) \o es
    BY <2>2, <2>3
  <2> QED BY <2>4 DEF es
<1>4. Events(s, sunk[s], Reach(s)) = [i \in 1..n |-> <<s, Abstract!Count(s) + i>>]
  BY CountIs DEF Events
<1>5. Len(taken \o queue) + n - Len(taken) = Len(queue) + n
  BY <1>1, <1>2, PutSoFarShape DEF PutSoFar
<1>6. CASE n = 0
  <2>1. Events(s, sunk[s], Reach(s)) = <<>>
    <3>1. /\ Events(s, sunk[s], Reach(s)) \in Seq(Event)
          /\ Len(Events(s, sunk[s], Reach(s))) = 0
      BY <1>2, <1>6, EventsType
    <3> QED BY <3>1, EmptySeq
  <2>2. (taken \o queue)' = taken \o queue
    BY <1>1, <1>3, <2>1, PutSoFarShape, ConcatEmptySeq DEF PutSoFar
  <2> QED BY <2>2 DEF Abstract!cvars
<1>7. CASE n # 0
  <2>1. n \in 1..Batch[s]
    BY <1>2, <1>7
  <2>2. Abstract!Count(s) + n <= Batch[s]
    BY <1>2, CountIs
  <2>3. Volume > 0 => Len(taken \o queue) + n - Len(taken) <= Volume
    BY <1>2, <1>5
  <2> HIDE DEF n
  <2>4. Abstract!Send(s, n)
    BY <1>3, <1>4, <2>2, <2>3 DEF Abstract!Send
  <2> QED BY <2>1, <2>4 DEF Abstract!Next
<1> QED BY <1>6, <1>7

LEMMA TakeMaps ==
  ASSUME OrderInv, Take
  PROVE  [Abstract!Next]_(Abstract!cvars)
<1>1. /\ taken \in Seq(Event) /\ queue \in Seq(Event) /\ queue # <<>>
      /\ queue' = Tail(queue) /\ taken' = Append(taken, Head(queue))
  BY DEF OrderInv, SinkInv, TypeOK, Take
<1>2. (taken \o queue)' = taken \o queue
  BY <1>1, TakeMoves
<1>3. Len(taken') = Len(taken) + 1 /\ Len(taken) < Len(taken \o queue)
  <2>1. Head(queue) \in Event /\ Len(queue) \in Nat \ {0} /\ Len(taken) \in Nat
    BY <1>1, HeadTailProperties, LenProperties, EmptySeq
  <2>2. Len(taken \o queue) = Len(taken) + Len(queue)
    BY <1>1, ConcatProperties
  <2>3. Len(taken') = Len(taken) + 1
    BY <1>1, <2>1, AppendProperties
  <2> QED BY <2>1, <2>2, <2>3
<1>4. Abstract!Receive
  BY <1>2, <1>3 DEF Abstract!Receive
<1> QED BY <1>4 DEF Abstract!Next

LEMMA ChannelStep == OrderInv /\ [Next]_vars => [Abstract!Next]_(Abstract!cvars)
<1> SUFFICES ASSUME OrderInv, [Next]_vars PROVE [Abstract!Next]_(Abstract!cvars)
  OBVIOUS
<1>1. ASSUME UNCHANGED <<queue, taken>> PROVE [Abstract!Next]_(Abstract!cvars)
  BY <1>1 DEF Abstract!cvars
<1>2. ASSUME NEW s \in Sinks, SinkUnset(s) \/ Cancel(s) \/ GiveUp(s)
      PROVE  UNCHANGED <<queue, taken>>
  BY <1>2 DEF SinkUnset, Cancel, GiveUp
<1>3. ASSUME NEW s \in Sinks, Sink(s) \/ Resume(s)
      PROVE  [Abstract!Next]_(Abstract!cvars)
  BY <1>3, PutMaps DEF Sink, Resume
<1> QED BY <1>1, <1>2, <1>3, TakeMaps DEF Next, Quiescent, vars

LEMMA ChannelInit == Init => Abstract!Init
<1> SUFFICES ASSUME Init PROVE Abstract!Init
  OBVIOUS
<1>1. taken \o queue = <<>> /\ Len(taken) = 0
  BY EmptySeq, ConcatEmptySeq DEF Init
<1> QED BY <1>1 DEF Abstract!Init

(* The sink implements Channel: whoever waits, is woken or is cancelled,   *)
(* events are taken in the order in which they were put, each call puts    *)
(* its own in their order, and never more are under way than the volume.   *)
THEOREM SinkIsChannel == Spec => IsChannel
<1> QED BY ChannelInit, ChannelStep, OrderInvHolds, PTL
        DEF Spec, IsChannel, Abstract!Spec
=============================================================================
