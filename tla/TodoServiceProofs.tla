------------------------- MODULE TodoServiceProofs --------------------------
(***************************************************************************)
(* What the todo application promises for any number of requests, todos    *)
(* and faults, however the requests interleave: an event belongs to a todo *)
(* that is in the table, a todo is created once, its row and its history   *)
(* agree as far as its commands keep apart and whole, and a list that is   *)
(* returned replays the events that were there.                            *)
(***************************************************************************)
EXTENDS TodoService, SequenceLemmas, TLAPS

TablesOK ==
  /\ todos \in [Todos -> Titles \cup {None}]
  /\ events \in Seq(TodoEvent)
  /\ pc \in [Requests -> Steps \cup {"idle", "done", "lost"}]

Creates(r) == Kind[r] = "CreateTodo"

(* Which command is at which step.                                         *)
Placed ==
  \A r \in Requests :
    /\ pc[r] = "add" => Creates(r)
    /\ pc[r] \in {"get", "retitle"} => ~ Creates(r)

(* A command that is about to store its event has its row.                 *)
RowFirst ==
  \A r \in Requests : pc[r] \in {"retitle", "store"} => todos[TodoOf[r]] # None

(* Of the creations of one todo, one at most is about to store its event,  *)
(* and none once such an event is there.                                   *)
OneCreator ==
  \A r, s \in Requests :
    /\ Creates(r) /\ pc[r] = "store"
    /\ Creates(s) /\ pc[s] = "store" /\ TodoOf[r] = TodoOf[s]
    => r = s

NotYetCreated ==
  \A r \in Requests : Creates(r) /\ pc[r] = "store" =>
    \A i \in DOMAIN events :
      events[i].type = "TodoCreated" => events[i].of # TodoOf[r]

TodoInv ==
  TablesOK /\ Placed /\ RowFirst /\ EventsHaveRows
    /\ OneCreator /\ NotYetCreated /\ OneCreation

-----------------------------------------------------------------------------
LEMMA EventShape ==
  ASSUME TablesOK
  PROVE  /\ Len(events) \in Nat
         /\ DOMAIN events = 1..Len(events)
         /\ \A i \in DOMAIN events : events[i].of \in Todos
<1>1. Len(events) \in Nat /\ DOMAIN events = 1..Len(events)
  BY LenProperties DEF TablesOK
<1>2. \A i \in 1..Len(events) : events[i] \in TodoEvent
  BY ElementOfSeq DEF TablesOK
<1> QED BY <1>1, <1>2 DEF TodoEvent

(* Requests that end, begin or are lost, and rows that are retitled,       *)
(* disturb nothing: no request comes to its event.                         *)
LEMMA Harmless ==
  ASSUME TodoInv, TablesOK', Placed', UNCHANGED events,
         \A n \in Todos : todos[n] # None => todos'[n] # None,
         \A r \in Requests :
           /\ pc'[r] = "retitle" => pc[r] = "retitle" \/ todos[TodoOf[r]] # None
           /\ pc'[r] = "store" =>
                pc[r] = "store" \/ (~ Creates(r) /\ todos[TodoOf[r]] # None)
  PROVE  TodoInv'
<1>1. \A r \in Requests : TodoOf[r] \in Todos
  BY TodoAssumption
<1>2. RowFirst'
  BY <1>1 DEF TodoInv, RowFirst
<1>3. EventsHaveRows'
  BY EventShape DEF TodoInv, EventsHaveRows
<1>4. OneCreator' /\ NotYetCreated' /\ OneCreation'
  BY DEF TodoInv, OneCreator, NotYetCreated, OneCreation, Creates
<1> QED BY <1>2, <1>3, <1>4 DEF TodoInv

(* Where a step of one request may lead.                                   *)
LEMMA EndsAt ==
  ASSUME TablesOK, NEW r \in Requests, NEW a, Ends(r, a)
  PROVE  /\ pc' \in [Requests -> Steps \cup {"idle", "done", "lost"}]
         /\ pc'[r] = "done" /\ \A s \in Requests \ {r} : pc'[s] = pc[s]
BY DEF Ends, TablesOK

LEMMA CommitsAt ==
  ASSUME TablesOK, NEW r \in Requests, NEW after \in Steps, NEW changed,
         Commits(r, after, changed)
  PROVE  /\ pc' \in [Requests -> Steps \cup {"idle", "done", "lost"}]
         /\ pc'[r] \in {after, "done"} /\ \A s \in Requests \ {r} : pc'[s] = pc[s]
BY EndsAt DEF Commits, TablesOK

LEMMA RowAdded ==
  ASSUME TodoInv, NEW r \in Requests, RepoAdd(r)
  PROVE  TodoInv'
<1>1. /\ TablesOK /\ Creates(r) /\ todos[TodoOf[r]] = None /\ UNCHANGED events
      /\ Commits(r, "store", {TodoOf[r]})
      /\ TodoOf[r] \in Todos /\ TitleOf[r] \in Titles /\ TitleOf[r] # None
      /\ todos' = [todos EXCEPT ![TodoOf[r]] = TitleOf[r]]
  BY TodoAssumption DEF RepoAdd, TodoInv, Placed
<1>2. /\ pc' \in [Requests -> Steps \cup {"idle", "done", "lost"}]
      /\ pc'[r] \in {"store", "done"} /\ \A s \in Requests \ {r} : pc'[s] = pc[s]
  BY <1>1, CommitsAt DEF Steps
<1>3. /\ todos' \in [Todos -> Titles \cup {None}]
      /\ \A n \in Todos : todos[n] # None => todos'[n] # None
      /\ todos'[TodoOf[r]] # None
  BY <1>1 DEF TablesOK
<1>4. TablesOK'
  BY <1>1, <1>2, <1>3 DEF TablesOK
<1>5. Placed' /\ RowFirst'
  <2>1. \A s \in Requests : TodoOf[s] \in Todos
    BY TodoAssumption
  <2> QED BY <1>2, <1>3, <2>1 DEF TodoInv, Placed, RowFirst, Creates
<1>6. EventsHaveRows' /\ OneCreation'
  BY <1>1, <1>3, EventShape DEF TodoInv, EventsHaveRows, OneCreation
<1>7. OneCreator'
  <2>1. \A s \in Requests : pc[s] = "store" => TodoOf[s] # TodoOf[r]
    BY <1>1 DEF TodoInv, RowFirst
  <2> QED BY <1>2, <2>1 DEF TodoInv, OneCreator, Creates
<1>8. NotYetCreated'
  <2>1. \A i \in DOMAIN events : events[i].of # TodoOf[r]
    BY <1>1 DEF TodoInv, EventsHaveRows
  <2> QED BY <1>1, <1>2, <2>1 DEF TodoInv, NotYetCreated, Creates
<1> QED BY <1>4, <1>5, <1>6, <1>7, <1>8 DEF TodoInv

LEMMA EventAdded ==
  ASSUME TodoInv, NEW r \in Requests, EsAdd(r)
  PROVE  TodoInv'
<1> DEFINE e == EventOf(r)
<1>1. /\ TablesOK /\ pc[r] = "store" /\ todos[TodoOf[r]] # None /\ UNCHANGED todos
      /\ events' = Append(events, e) /\ Commits(r, "publish", {})
  BY DEF EsAdd, TodoInv, RowFirst
<1>2. /\ e \in TodoEvent /\ e.of = TodoOf[r]
      /\ e.type = "TodoCreated" => Creates(r)
  BY TodoAssumption DEF EventOf, TodoEvent, Creates
<1> HIDE DEF e
<1>3. /\ events' \in Seq(TodoEvent) /\ Len(events') = Len(events) + 1
      /\ \A i \in 1..Len(events) : events'[i] = events[i]
      /\ events'[Len(events) + 1] = e
  BY <1>1, <1>2, AppendProperties DEF TablesOK
<1>4. /\ pc' \in [Requests -> Steps \cup {"idle", "done", "lost"}]
      /\ pc'[r] \in {"publish", "done"} /\ \A s \in Requests \ {r} : pc'[s] = pc[s]
  BY <1>1, CommitsAt DEF Steps
<1>5. TablesOK'
  BY <1>1, <1>3, <1>4 DEF TablesOK
<1>6. /\ Len(events) \in Nat /\ DOMAIN events = 1..Len(events)
      /\ DOMAIN events' = 1..Len(events) + 1
  BY <1>1, <1>3, <1>5, EventShape
<1>7. \A i \in DOMAIN events' :
        \/ i \in DOMAIN events /\ events'[i] = events[i]
        \/ i = Len(events) + 1 /\ events'[i] = e
  BY <1>3, <1>6
<1>8. Placed' /\ RowFirst' /\ OneCreator'
  BY <1>1, <1>4 DEF TodoInv, Placed, RowFirst, OneCreator, Creates
<1>9. EventsHaveRows'
  BY <1>1, <1>2, <1>7 DEF TodoInv, EventsHaveRows
<1>10. NotYetCreated'
  <2> SUFFICES ASSUME NEW s \in Requests, Creates(s), pc'[s] = "store",
                      NEW i \in DOMAIN events', events'[i].type = "TodoCreated"
               PROVE  events'[i].of # TodoOf[s]
    BY DEF NotYetCreated, Creates
  <2>1. s # r /\ pc[s] = "store"
    BY <1>4
  <2>2. CASE i \in DOMAIN events /\ events'[i] = events[i]
    BY <2>1, <2>2 DEF TodoInv, NotYetCreated
  <2>3. CASE events'[i] = e
    BY <1>1, <1>2, <2>1, <2>3 DEF TodoInv, OneCreator
  <2> QED BY <1>7, <2>2, <2>3
<1>11. OneCreation'
  <2>1. e.type = "TodoCreated" =>
          \A i \in DOMAIN events : events[i].type = "TodoCreated" => events[i].of # e.of
    BY <1>1, <1>2 DEF TodoInv, NotYetCreated
  <2> QED BY <1>7, <2>1 DEF TodoInv, OneCreation
<1> QED BY <1>5, <1>8, <1>9, <1>10, <1>11 DEF TodoInv

LEMMA TodoStep == TodoInv /\ [Next]_vars => TodoInv'
<1> SUFFICES ASSUME TodoInv, [Next]_vars PROVE TodoInv'
  OBVIOUS
<1> USE DEF Steps
<1>1. TablesOK /\ Placed /\ RowFirst
  BY DEF TodoInv
<1>2. ASSUME NEW r \in Requests, Receive(r) PROVE TodoInv'
  <2>1. Kind[r] \in Kinds
    BY TodoAssumption
  <2>2. /\ pc' = [pc EXCEPT ![r] = FirstStep[Kind[r]]] /\ UNCHANGED tables
        /\ FirstStep[Kind[r]] \in {"add", "get", "list"}
        /\ FirstStep[Kind[r]] = "add" => Creates(r)
        /\ FirstStep[Kind[r]] = "get" => ~ Creates(r)
    BY <1>2, <2>1 DEF Receive, FirstStep, Kinds, Creates
  <2>3. TablesOK' /\ Placed'
    BY <1>1, <2>2 DEF TablesOK, Placed, tables, Creates
  <2> QED BY <1>1, <2>2, <2>3, Harmless DEF TablesOK, tables
<1>3. ASSUME NEW r \in Requests, NEW a, Ends(r, a), UNCHANGED tables PROVE TodoInv'
  <2>1. /\ pc' \in [Requests -> Steps \cup {"idle", "done", "lost"}]
        /\ pc'[r] = "done" /\ \A s \in Requests \ {r} : pc'[s] = pc[s]
    BY <1>1, <1>3, EndsAt
  <2>2. TablesOK' /\ Placed'
    BY <1>1, <1>3, <2>1 DEF TablesOK, Placed, tables, Creates
  <2> QED BY <1>3, <2>1, <2>2, Harmless DEF tables
<1>4. ASSUME NEW r \in Requests, RepoGet(r), todos[TodoOf[r]] # None PROVE TodoInv'
  <2>1. pc' = [pc EXCEPT ![r] = "retitle"] /\ pc[r] = "get" /\ UNCHANGED tables
    BY <1>4 DEF RepoGet
  <2>2. TablesOK' /\ Placed'
    BY <1>1, <2>1 DEF TablesOK, Placed, tables, Creates
  <2> QED BY <1>1, <1>4, <2>1, <2>2, Harmless DEF TablesOK, tables
<1>5. ASSUME NEW r \in Requests, Retitle(r) PROVE TodoInv'
  <2>1. /\ pc[r] = "retitle" /\ ~ Creates(r) /\ todos[TodoOf[r]] # None
        /\ TitleOf[r] \in Titles /\ TitleOf[r] # None /\ UNCHANGED events
        /\ Commits(r, "store", {TodoOf[r]})
        /\ todos' = [todos EXCEPT ![TodoOf[r]] = IF @ = None THEN @ ELSE TitleOf[r]]
    BY <1>1, <1>5, TodoAssumption DEF Retitle, Placed, RowFirst
  <2>2. /\ pc' \in [Requests -> Steps \cup {"idle", "done", "lost"}]
        /\ pc'[r] \in {"store", "done"} /\ \A s \in Requests \ {r} : pc'[s] = pc[s]
    BY <1>1, <2>1, CommitsAt
  <2>3. /\ todos' \in [Todos -> Titles \cup {None}]
        /\ \A n \in Todos : todos[n] # None => todos'[n] # None
    BY <1>1, <2>1 DEF TablesOK
  <2>4. TablesOK' /\ Placed'
    BY <1>1, <2>1, <2>2, <2>3 DEF TablesOK, Placed, Creates
  <2> QED BY <2>1, <2>2, <2>3, <2>4, Harmless
<1>6. ASSUME Restart PROVE TodoInv'
  <2>1. /\ pc' = [r \in Requests |-> IF pc[r] \in Steps THEN "lost" ELSE pc[r]]
        /\ UNCHANGED tables
    BY <1>6 DEF Restart
  <2>2. TablesOK' /\ Placed'
    BY <1>1, <2>1 DEF TablesOK, Placed, tables, Creates
  <2> QED BY <2>1, <2>2, Harmless DEF tables
<1>7. ASSUME UNCHANGED vars PROVE TodoInv'
  BY <1>7 DEF vars, tables, TodoInv, TablesOK, Placed, RowFirst, EventsHaveRows,
              OneCreator, NotYetCreated, OneCreation, Creates
<1>8. ASSUME NEW r \in Requests,
             RepoAddRefused(r) \/ (RepoGet(r) /\ todos[TodoOf[r]] = None)
               \/ PublishEvent(r) \/ ListTodos(r) \/ RolledBack(r)
      PROVE  UNCHANGED tables /\ \E a : Ends(r, a)
  BY <1>8 DEF RepoAddRefused, RepoGet, PublishEvent, ListTodos, RolledBack
<1>9. ASSUME NEW r \in Requests, Handle(r) PROVE TodoInv'
  BY <1>3, <1>4, <1>5, <1>8, <1>9, RowAdded, EventAdded DEF Handle
<1> QED BY <1>2, <1>6, <1>7, <1>9 DEF Next

LEMMA TodoInit == Init => TodoInv
<1> SUFFICES ASSUME Init PROVE TodoInv
  OBVIOUS
<1>1. TablesOK
  BY EmptySeq DEF Init, TablesOK
<1>2. DOMAIN events = {}
  <2>1. Len(events) = 0
    BY EmptySeq DEF Init
  <2> QED BY <1>1, <2>1, EventShape
<1> QED BY <1>1, <1>2 DEF Init, TodoInv, Placed, RowFirst, EventsHaveRows, OneCreator,
                          NotYetCreated, OneCreation

LEMMA TodoInvHolds == Spec => []TodoInv
BY TodoInit, TodoStep, PTL DEF Spec

(* The row of a todo comes before its events, whatever fails between the   *)
(* transactions of a command and however many commands there are.          *)
THEOREM RowsComeFirst == Spec => []EventsHaveRows
<1>1. TodoInv => EventsHaveRows
  BY DEF TodoInv
<1> QED BY <1>1, TodoInvHolds, PTL

(* A todo has one TodoCreated event at most, however often its creation is *)
(* sent and whenever the process stops.                                    *)
THEOREM CreatedOnce == Spec => []OneCreation
<1>1. TodoInv => OneCreation
  BY DEF TodoInv
<1> QED BY <1>1, TodoInvHolds, PTL

-----------------------------------------------------------------------------
(* What the recursion of Streams(rows) computes.                           *)
Cuts(rows, m, cut) ==
  cut = [n \in 0..m |->
          IF n = 0 THEN <<>>
          ELSE IF n > 1 /\ rows[n - 1].of = rows[n].of
          THEN [cut[n - 1] EXCEPT ![Len(cut[n - 1])] = Append(@, rows[n])]
          ELSE Append(cut[n - 1], <<rows[n]>>)]

LEMMA CutsSomehow ==
  ASSUME NEW rows
  PROVE  \A m \in Nat : \E cut : Cuts(rows, m, cut)
<1> DEFINE S == {m \in Nat : \E cut : Cuts(rows, m, cut)}
           next(before, n) ==
             IF n > 1 /\ rows[n - 1].of = rows[n].of
             THEN [before EXCEPT ![Len(before)] = Append(@, rows[n])]
             ELSE Append(before, <<rows[n]>>)
<1>d. \A m, cut : Cuts(rows, m, cut) <=>
        cut = [n \in 0..m |-> IF n = 0 THEN <<>> ELSE next(cut[n - 1], n)]
  BY DEF Cuts
<1> HIDE DEF next
<1>1. 0 \in S
  <2>1. Cuts(rows, 0, [n \in 0..0 |-> <<>>])
    BY DEF Cuts
  <2> QED BY <2>1
<1>2. ASSUME NEW m \in Nat, m \in S PROVE m + 1 \in S
  <2>1. PICK c : Cuts(rows, m, c)
    BY <1>2
  <2>2. c = [n \in 0..m |-> IF n = 0 THEN <<>> ELSE next(c[n - 1], n)]
    BY <1>d, <2>1
  <2> DEFINE g == [n \in 0..(m + 1) |-> IF n <= m THEN c[n] ELSE next(c[m], n)]
  <2>3. ASSUME NEW n \in 0..(m + 1)
        PROVE  g[n] = IF n = 0 THEN <<>> ELSE next(g[n - 1], n)
    <3>1. CASE n = 0
      BY <2>2, <3>1
    <3>2. CASE n # 0 /\ n <= m
      <4>1. g[n] = c[n] /\ g[n - 1] = c[n - 1]
        BY <3>2
      <4> HIDE DEF g
      <4> QED BY <2>2, <3>2, <4>1
    <3>3. CASE n = m + 1
      <4>1. g[n] = next(c[m], n) /\ g[n - 1] = c[n - 1] /\ n - 1 = m
        BY <3>3
      <4> QED BY <3>3, <4>1
    <3> QED BY <3>1, <3>2, <3>3
  <2>4. g = [n \in 0..(m + 1) |-> IF n = 0 THEN <<>> ELSE next(g[n - 1], n)]
    BY <2>3
  <2> HIDE DEF g
  <2>5. Cuts(rows, m + 1, g)
    BY <1>d, <2>4
  <2> QED BY <2>5
<1> HIDE DEF S
<1>3. \A m \in Nat : m \in S
  BY <1>1, <1>2, InductionOverNat
<1> QED BY <1>3 DEF S

LEMMA StreamsAre ==
  ASSUME NEW rows, Len(rows) \in Nat
  PROVE  \E cut : Cuts(rows, Len(rows), cut) /\ Streams(rows) = cut[Len(rows)]
<1> DEFINE c == CHOOSE cut : Cuts(rows, Len(rows), cut)
<1>1. Cuts(rows, Len(rows), c)
  BY CutsSomehow
<1>2. Streams(rows) = c[Len(rows)]
  BY DEF Streams, Cuts
<1> QED BY <1>1, <1>2

-----------------------------------------------------------------------------
(* The streams ss are the first n rows, cut into pieces of one todo each;  *)
(* the k-th begins at row st[k].                                           *)
Ending(ss, st, k) == st[k] + Len(ss[k]) - 1

PieceOf(rows, s, b) ==
  /\ s \in Seq(TodoEvent) /\ Len(s) >= 1 /\ b >= 1
  /\ \A j \in 1..Len(s) : s[j] = rows[b + j - 1] /\ s[j].of = s[1].of

Pieces(rows, n, ss, st) ==
  /\ ss \in Seq(Seq(TodoEvent)) /\ st \in [1..Len(ss) -> Nat]
  /\ \A k \in 1..Len(ss) : PieceOf(rows, ss[k], st[k]) /\ Ending(ss, st, k) <= n
  /\ \A k, l \in 1..Len(ss) : st[k] = st[l] => k = l
  /\ \A p \in 1..n : \E k \in 1..Len(ss) : st[k] <= p /\ p <= Ending(ss, st, k)
  /\ n > 0 => Len(ss) > 0 /\ Ending(ss, st, Len(ss)) = n

LEMMA PieceBegun ==
  ASSUME NEW rows \in Seq(TodoEvent), NEW n \in Nat, n + 1 <= Len(rows),
         NEW ss, NEW st, Pieces(rows, n, ss, st)
  PROVE  \E t : Pieces(rows, n + 1, Append(ss, <<rows[n + 1]>>), t)
<1> DEFINE e == rows[n + 1]
           m == Len(ss)
           zz == Append(ss, <<e>>)
           t == [k \in 1..(m + 1) |-> IF k <= m THEN st[k] ELSE n + 1]
<1>1. /\ ss \in Seq(Seq(TodoEvent)) /\ st \in [1..m -> Nat] /\ m \in Nat
      /\ \A k \in 1..m : PieceOf(rows, ss[k], st[k]) /\ Ending(ss, st, k) <= n
      /\ \A k, l \in 1..m : st[k] = st[l] => k = l
      /\ \A p \in 1..n : \E k \in 1..m : st[k] <= p /\ p <= Ending(ss, st, k)
  BY LenProperties DEF Pieces
<1>2. e \in TodoEvent
  BY ElementOfSeq
<1>3. /\ <<e>> \in Seq(TodoEvent) /\ Len(<<e>>) = 1 /\ <<e>>[1] = e
  BY <1>2
<1>4. /\ zz \in Seq(Seq(TodoEvent)) /\ Len(zz) = m + 1
      /\ \A k \in 1..m : zz[k] = ss[k]
      /\ zz[m + 1] = <<e>>
  BY <1>1, <1>3, AppendProperties
<1>5. /\ t \in [1..(m + 1) -> Nat] /\ t[m + 1] = n + 1
      /\ \A k \in 1..m : t[k] = st[k]
  BY <1>1
<1>6. PieceOf(rows, <<e>>, n + 1)
  BY <1>3 DEF PieceOf
<1> HIDE DEF m, zz, t, e
<1>7. \A k \in 1..m : Ending(zz, t, k) = Ending(ss, st, k)
  BY <1>4, <1>5 DEF Ending
<1>8. Ending(zz, t, m + 1) = n + 1
  BY <1>3, <1>4, <1>5 DEF Ending
<1>9. \A k \in 1..(m + 1) : k \in 1..m \/ k = m + 1
  BY <1>1
<1>10. \A k \in 1..m : st[k] \in Nat /\ Ending(ss, st, k) \in Int /\ st[k] <= n
  <2> SUFFICES ASSUME NEW k \in 1..m PROVE st[k] \in Nat /\ Ending(ss, st, k) \in Int /\ st[k] <= n
    OBVIOUS
  <2>1. st[k] \in Nat /\ PieceOf(rows, ss[k], st[k]) /\ Ending(ss, st, k) <= n
    BY <1>1
  <2>2. Len(ss[k]) \in Nat /\ Len(ss[k]) >= 1
    BY <2>1, LenProperties DEF PieceOf
  <2> QED BY <2>1, <2>2 DEF Ending
<1>11. \A k \in 1..(m + 1) : PieceOf(rows, zz[k], t[k]) /\ Ending(zz, t, k) <= n + 1
  <2>1. \A k \in 1..m : PieceOf(rows, zz[k], t[k])
    BY <1>1, <1>4, <1>5
  <2>2. \A k \in 1..m : Ending(zz, t, k) <= n + 1
    BY <1>1, <1>7, <1>10
  <2>3. PieceOf(rows, zz[m + 1], t[m + 1])
    BY <1>4, <1>5, <1>6
  <2>4. Ending(zz, t, m + 1) <= n + 1
    BY <1>8
  <2> QED BY <1>9, <2>1, <2>2, <2>3, <2>4
<1>12. \A k, l \in 1..(m + 1) : t[k] = t[l] => k = l
  <2>1. \A k \in 1..m : t[k] <= n /\ t[k] \in Nat
    BY <1>5, <1>10
  <2>2. \A k, l \in 1..m : t[k] = t[l] => k = l
    BY <1>1, <1>5
  <2> QED BY <1>5, <1>9, <2>1, <2>2
<1>13. ASSUME NEW p \in 1..(n + 1)
       PROVE  \E k \in 1..(m + 1) : t[k] <= p /\ p <= Ending(zz, t, k)
  <2>1. CASE p \in 1..n
    <3>1. PICK k \in 1..m : st[k] <= p /\ p <= Ending(ss, st, k)
      BY <1>1, <2>1
    <3> QED BY <1>1, <1>5, <1>7, <3>1
  <2>2. CASE p = n + 1
    <3>1. m + 1 \in 1..(m + 1)
      BY <1>1
    <3> QED BY <1>5, <1>8, <2>2, <3>1
  <2> QED BY <2>1, <2>2
<1>14. Pieces(rows, n + 1, zz, t)
  BY <1>1, <1>4, <1>5, <1>8, <1>11, <1>12, <1>13 DEF Pieces
<1> QED BY <1>14 DEF zz, e

LEMMA PieceExtended ==
  ASSUME NEW rows \in Seq(TodoEvent), NEW n \in Nat, n > 0, n + 1 <= Len(rows),
         rows[n].of = rows[n + 1].of,
         NEW ss, NEW st, Pieces(rows, n, ss, st)
  PROVE  Pieces(rows, n + 1,
                [ss EXCEPT ![Len(ss)] = Append(@, rows[n + 1])], st)
<1> DEFINE e == rows[n + 1]
           m == Len(ss)
           last == ss[m]
           q == Len(last)
           b == st[m]
           more == Append(last, e)
           zz == [ss EXCEPT ![m] = more]
<1>1. /\ ss \in Seq(Seq(TodoEvent)) /\ st \in [1..m -> Nat] /\ m \in Nat /\ m > 0
      /\ \A k \in 1..m : PieceOf(rows, ss[k], st[k]) /\ Ending(ss, st, k) <= n
      /\ \A k, l \in 1..m : st[k] = st[l] => k = l
      /\ \A p \in 1..n : \E k \in 1..m : st[k] <= p /\ p <= Ending(ss, st, k)
      /\ Ending(ss, st, m) = n
  BY LenProperties DEF Pieces
<1>2. e \in TodoEvent
  BY ElementOfSeq
<1>3. /\ last \in Seq(TodoEvent) /\ q \in Nat /\ q >= 1
      /\ b \in Nat /\ b >= 1 /\ b + q - 1 = n
      /\ \A j \in 1..q : last[j] = rows[b + j - 1] /\ last[j].of = last[1].of
  <2>1. m \in 1..m
    BY <1>1
  <2>2. PieceOf(rows, last, st[m]) /\ st[m] \in Nat
    BY <1>1, <2>1
  <2> QED BY <1>1, <2>2, LenProperties DEF PieceOf, Ending
<1>4. /\ more \in Seq(TodoEvent) /\ Len(more) = q + 1
      /\ \A j \in 1..q : more[j] = last[j]
      /\ more[q + 1] = e
  BY <1>2, <1>3, AppendProperties
<1>5. /\ zz \in Seq(Seq(TodoEvent)) /\ Len(zz) = m
      /\ \A k \in 1..m : k # m => zz[k] = ss[k]
      /\ zz[m] = more
  BY <1>1, <1>4, ExceptSeq
<1>b. st[m] = b
  OBVIOUS
<1> HIDE DEF zz, more, last, e, m, q, b
<1>6. PieceOf(rows, more, b)
  <2>1. q \in 1..q /\ last[q] = rows[n]
    BY <1>3
  <2>2. e.of = last[1].of
    BY <1>3, <2>1 DEF e
  <2>3. more[1] = last[1]
    BY <1>3, <1>4
  <2>4. b + (q + 1) - 1 = n + 1
    BY <1>3
  <2>5. ASSUME NEW j \in 1..(q + 1)
        PROVE  more[j] = rows[b + j - 1] /\ more[j].of = more[1].of
    <3>1. CASE j \in 1..q
      BY <1>3, <1>4, <2>3, <3>1
    <3>2. CASE j = q + 1
      <4>1. more[j] = e /\ rows[b + j - 1] = rows[n + 1]
        BY <1>4, <2>4, <3>2
      <4> QED BY <2>2, <2>3, <4>1 DEF e
    <3> QED BY <1>3, <3>1, <3>2
  <2>6. Len(more) >= 1
    BY <1>3, <1>4
  <2> QED BY <1>3, <1>4, <2>5, <2>6 DEF PieceOf
<1>7. \A k \in 1..m : k # m => Ending(zz, st, k) = Ending(ss, st, k)
  BY <1>5 DEF Ending
<1>8. Ending(zz, st, m) = n + 1
  <2>1. Ending(zz, st, m) = b + (q + 1) - 1
    BY <1>4, <1>5, <1>b DEF Ending
  <2> QED BY <1>3, <2>1
<1>9. ASSUME NEW k \in 1..m
      PROVE  PieceOf(rows, zz[k], st[k]) /\ Ending(zz, st, k) <= n + 1
  <2>1. CASE k = m
    BY <1>3, <1>5, <1>6, <1>8, <1>b, <2>1
  <2>2. CASE k # m
    <3>1. zz[k] = ss[k] /\ Ending(zz, st, k) = Ending(ss, st, k)
      BY <1>5, <1>7, <2>2
    <3>2. PieceOf(rows, ss[k], st[k]) /\ Ending(ss, st, k) <= n
      BY <1>1
    <3>3. Len(ss[k]) \in Nat /\ st[k] \in Nat
      BY <1>1, <3>2, LenProperties DEF PieceOf
    <3>4. Ending(ss, st, k) \in Int
      BY <3>3 DEF Ending
    <3> QED BY <3>1, <3>2, <3>4
  <2> QED BY <2>1, <2>2
<1>10. ASSUME NEW p \in 1..(n + 1)
       PROVE  \E k \in 1..m : st[k] <= p /\ p <= Ending(zz, st, k)
  <2>0. m \in 1..m
    BY <1>1
  <2>1. CASE p \in 1..n
    <3>1. PICK k \in 1..m : st[k] <= p /\ p <= Ending(ss, st, k)
      BY <1>1, <2>1
    <3>2. CASE k # m
      BY <1>7, <3>1, <3>2
    <3>3. CASE k = m
      BY <1>1, <1>8, <2>1, <3>1, <3>3
    <3> QED BY <3>2, <3>3
  <2>2. CASE p = n + 1
    BY <1>3, <1>8, <1>b, <2>0, <2>2
  <2> QED BY <2>1, <2>2
<1>11. Pieces(rows, n + 1, zz, st)
  BY <1>1, <1>5, <1>8, <1>9, <1>10 DEF Pieces
<1> QED BY <1>11 DEF zz, more, last, e, m, q, b

LEMMA StreamsArePieces ==
  ASSUME NEW rows \in Seq(TodoEvent)
  PROVE  \E st : Pieces(rows, Len(rows), Streams(rows), st)
<1>1. Len(rows) \in Nat
  BY LenProperties
<1>2. PICK cut : Cuts(rows, Len(rows), cut) /\ Streams(rows) = cut[Len(rows)]
  BY <1>1, StreamsAre
<1> DEFINE S == {n \in Nat : n <= Len(rows) => \E st : Pieces(rows, n, cut[n], st)}
<1>3. cut[0] = <<>>
  BY <1>1, <1>2 DEF Cuts
<1>4. ASSUME NEW n \in Nat, n + 1 <= Len(rows)
      PROVE  cut[n + 1] = IF n + 1 > 1 /\ rows[n].of = rows[n + 1].of
                          THEN [cut[n] EXCEPT ![Len(cut[n])] = Append(@, rows[n + 1])]
                          ELSE Append(cut[n], <<rows[n + 1]>>)
  <2>1. n + 1 \in 0..Len(rows) /\ n + 1 # 0 /\ (n + 1) - 1 = n
    BY <1>1, <1>4
  <2> QED BY <1>2, <2>1 DEF Cuts
<1>5. 0 \in S
  <2>1. <<>> \in Seq(Seq(TodoEvent)) /\ Len(<<>>) = 0
    BY EmptySeq
  <2>2. [k \in 1..0 |-> 0] \in [1..0 -> Nat]
    OBVIOUS
  <2>3. Pieces(rows, 0, <<>>, [k \in 1..0 |-> 0])
    BY <2>1, <2>2 DEF Pieces
  <2> QED BY <1>3, <2>3
<1>6. ASSUME NEW n \in Nat, n \in S PROVE n + 1 \in S
  <2> SUFFICES ASSUME n + 1 <= Len(rows)
               PROVE  \E st : Pieces(rows, n + 1, cut[n + 1], st)
    OBVIOUS
  <2>1. PICK st : Pieces(rows, n, cut[n], st)
    BY <1>1, <1>6
  <2>2. CASE n + 1 > 1 /\ rows[n].of = rows[n + 1].of
    <3>1. n > 0
      BY <2>2
    <3>2. cut[n + 1] = [cut[n] EXCEPT ![Len(cut[n])] = Append(@, rows[n + 1])]
      BY <1>4, <2>2
    <3>3. Pieces(rows, n + 1, [cut[n] EXCEPT ![Len(cut[n])] = Append(@, rows[n + 1])], st)
      BY <2>1, <2>2, <3>1, PieceExtended
    <3> QED BY <3>2, <3>3
  <2>3. CASE ~ (n + 1 > 1 /\ rows[n].of = rows[n + 1].of)
    <3>1. cut[n + 1] = Append(cut[n], <<rows[n + 1]>>)
      BY <1>4, <2>3
    <3> QED BY <2>1, <3>1, PieceBegun
  <2> QED BY <2>2, <2>3
<1> HIDE DEF S
<1>7. \A n \in Nat : n \in S
  BY <1>5, <1>6, InductionOverNat
<1> QED BY <1>1, <1>2, <1>7 DEF S

-----------------------------------------------------------------------------
(* The title of a todo that is rebuilt from its creation and renamings is  *)
(* that of the last of them.                                               *)
LEMMA TitleSomehow ==
  ASSUME NEW s
  PROVE  \A m \in Nat : \E title :
           title = [n \in 1..m |->
                     IF n = 1 \/ s[n].type = "TodoRetitled" THEN s[n].title
                     ELSE title[n - 1]]
<1> DEFINE Titled(m, title) ==
             title = [n \in 1..m |->
                       IF n = 1 \/ s[n].type = "TodoRetitled" THEN s[n].title
                       ELSE title[n - 1]]
           S == {m \in Nat : \E title : Titled(m, title)}
<1>1. 0 \in S
  <2>1. Titled(0, [n \in 1..0 |-> 0])
    OBVIOUS
  <2> QED BY <2>1
<1>2. ASSUME NEW m \in Nat, m \in S PROVE m + 1 \in S
  <2>1. PICK c : Titled(m, c)
    BY <1>2
  <2> DEFINE Own(n) == n = 1 \/ s[n].type = "TodoRetitled"
             g == [n \in 1..(m + 1) |->
                    IF n <= m THEN c[n] ELSE IF Own(n) THEN s[n].title ELSE c[m]]
  <2>2. c = [n \in 1..m |-> IF Own(n) THEN s[n].title ELSE c[n - 1]]
    BY <2>1
  <2>3. /\ g = [n \in 1..(m + 1) |-> g[n]]
        /\ \A n \in 1..m : g[n] = c[n]
        /\ g[m + 1] = IF Own(m + 1) THEN s[m + 1].title ELSE c[m]
    OBVIOUS
  <2>4. Own(1)
    OBVIOUS
  <2> HIDE DEF g, Own
  <2>5. ASSUME NEW n \in 1..(m + 1)
        PROVE  g[n] = IF Own(n) THEN s[n].title ELSE g[n - 1]
    <3>1. CASE n \in 1..m
      <4>1. c[n] = IF Own(n) THEN s[n].title ELSE c[n - 1]
        BY <2>2, <3>1
      <4>2. n = 1 \/ g[n - 1] = c[n - 1]
        <5>1. n = 1 \/ n - 1 \in 1..m
          BY <3>1
        <5> QED BY <2>3, <5>1
      <4>3. g[n] = c[n]
        BY <2>3, <3>1
      <4> QED BY <2>4, <4>1, <4>2, <4>3
    <3>2. CASE n = m + 1 /\ n # 1
      <4>1. n - 1 = m /\ m \in 1..m
        BY <3>2
      <4> QED BY <2>3, <3>2, <4>1
    <3>3. CASE n = m + 1 /\ n = 1
      BY <2>3, <2>4, <3>3
    <3> QED BY <3>1, <3>2, <3>3
  <2>6. g = [n \in 1..(m + 1) |-> IF Own(n) THEN s[n].title ELSE g[n - 1]]
    BY <2>3, <2>5, Zenon
  <2>7. Titled(m + 1, g)
    BY <2>6 DEF Own
  <2> QED BY <2>7
<1> HIDE DEF S
<1>3. \A m \in Nat : m \in S
  BY <1>1, <1>2, InductionOverNat
<1> QED BY <1>3 DEF S

LEMMA RebuildsToTheLast ==
  ASSUME NEW s \in Seq(TodoEvent), Len(s) >= 1,
         Len(s) = 1 \/ s[Len(s)].type = "TodoRetitled"
  PROVE  Rebuild(s) = [of |-> s[1].of, title |-> s[Len(s)].title]
<1> DEFINE m == Len(s)
           Titled(title) ==
             title = [n \in DOMAIN s |->
                       IF n = 1 \/ s[n].type = "TodoRetitled" THEN s[n].title
                       ELSE title[n - 1]]
           c == CHOOSE title : Titled(title)
<1>1. m \in Nat /\ DOMAIN s = 1..m /\ m \in 1..m
  BY LenProperties
<1>2. Titled(c)
  <2>1. \E title : title = [n \in 1..m |->
                            IF n = 1 \/ s[n].type = "TodoRetitled" THEN s[n].title
                            ELSE title[n - 1]]
    BY <1>1, TitleSomehow
  <2>2. \E title : Titled(title)
    BY <1>1, <2>1
  <2> HIDE DEF Titled
  <2> QED BY <2>2
<1>3. Rebuild(s) = [of |-> s[1].of, title |-> c[m]]
  BY DEF Rebuild
<1> HIDE DEF c
<1>4. c[m] = s[m].title
  BY <1>1, <1>2
<1> QED BY <1>3, <1>4

(* A list that can be rebuilt from the streams replays the rows: since a   *)
(* todo is created once, and every stream begins with a creation, the      *)
(* events of a todo are one stream.                                        *)
LEMMA StreamsReplay ==
  ASSUME NEW rows \in Seq(TodoEvent), NEW ss, ss = Streams(rows),
         \A i, j \in DOMAIN rows :
           /\ rows[i].type = "TodoCreated" /\ rows[j].type = "TodoCreated"
           /\ rows[i].of = rows[j].of
           => i = j,
         \A i \in DOMAIN ss : CanRebuild(ss[i])
  PROVE  /\ [i \in DOMAIN ss |-> Rebuild(ss[i])] \in Seq(Todo)
         /\ Replays([i \in DOMAIN ss |-> Rebuild(ss[i])], rows)
<1> DEFINE n == Len(rows)
           m == Len(ss)
           list == [i \in DOMAIN ss |-> Rebuild(ss[i])]
<1>1. PICK st : Pieces(rows, n, ss, st)
  BY StreamsArePieces
<1>2. /\ ss \in Seq(Seq(TodoEvent)) /\ st \in [1..m -> Nat]
      /\ \A k \in 1..m : PieceOf(rows, ss[k], st[k]) /\ Ending(ss, st, k) <= n
      /\ \A k, l \in 1..m : st[k] = st[l] => k = l
      /\ \A p \in 1..n : \E k \in 1..m : st[k] <= p /\ p <= Ending(ss, st, k)
  BY <1>1 DEF Pieces
<1>3. /\ n \in Nat /\ DOMAIN rows = 1..n
      /\ m \in Nat /\ DOMAIN ss = 1..m
      /\ \A p \in 1..n : rows[p] \in TodoEvent
  BY <1>2, LenProperties, ElementOfSeq
<1> HIDE DEF n, m
(* The streams, one by one.                                                *)
<1>4. ASSUME NEW k \in 1..m
      PROVE  /\ ss[k] \in Seq(TodoEvent) /\ Len(ss[k]) \in Nat /\ Len(ss[k]) >= 1
             /\ st[k] \in 1..n /\ Ending(ss, st, k) \in 1..n
             /\ ss[k][1] = rows[st[k]]
             /\ rows[st[k]].type = "TodoCreated"
             /\ ss[k][Len(ss[k])] = rows[Ending(ss, st, k)]
  <2>1. PieceOf(rows, ss[k], st[k]) /\ Ending(ss, st, k) <= n /\ st[k] \in Nat
    BY <1>2
  <2>2. ss[k] \in Seq(TodoEvent) /\ Len(ss[k]) \in Nat /\ Len(ss[k]) >= 1 /\ st[k] >= 1
    BY <2>1, LenProperties DEF PieceOf
  <2>3. Ending(ss, st, k) = st[k] + Len(ss[k]) - 1
    BY DEF Ending
  <2>4. st[k] \in 1..n /\ Ending(ss, st, k) \in 1..n
    BY <1>3, <2>1, <2>2, <2>3
  <2>5. \A j \in 1..Len(ss[k]) : ss[k][j] = rows[st[k] + j - 1]
    BY <2>1 DEF PieceOf
  <2>6. ss[k][1] = rows[st[k]]
    <3>1. ss[k][1] = rows[st[k] + 1 - 1] /\ st[k] + 1 - 1 = st[k]
      BY <2>1, <2>2, <2>5
    <3> QED BY <3>1
  <2>7. ss[k][Len(ss[k])] = rows[Ending(ss, st, k)]
    <3>1. Len(ss[k]) \in 1..Len(ss[k])
      BY <2>2
    <3> QED BY <2>3, <2>5, <3>1
  <2>8. ss[k][1].type = "TodoCreated"
    BY <1>3 DEF CanRebuild
  <2> QED BY <2>2, <2>4, <2>6, <2>7, <2>8
<1>5. ASSUME NEW k \in 1..m, NEW p \in 1..n, st[k] <= p, p <= Ending(ss, st, k)
      PROVE  rows[p].of = rows[st[k]].of
  <2>1. PieceOf(rows, ss[k], st[k])
    BY <1>2
  <2>2. Ending(ss, st, k) = st[k] + Len(ss[k]) - 1
    BY DEF Ending
  <2> DEFINE j == p - st[k] + 1
  <2>3. j \in 1..Len(ss[k]) /\ st[k] + j - 1 = p
    BY <1>4, <1>5, <2>2
  <2> HIDE DEF j
  <2>4. ss[k][j] = rows[p] /\ ss[k][j].of = ss[k][1].of
    BY <2>1, <2>3 DEF PieceOf
  <2> QED BY <1>4, <2>4
<1>6. ASSUME NEW k \in 1..m, NEW l \in 1..m, rows[st[k]].of = rows[st[l]].of
      PROVE  k = l
  <2>1. st[k] = st[l]
    BY <1>3, <1>4, <1>6
  <2> QED BY <1>2, <2>1
<1>7. ASSUME NEW k \in 1..m
      PROVE  Len(ss[k]) = 1 \/ ss[k][Len(ss[k])].type = "TodoRetitled"
  <2> DEFINE p == Ending(ss, st, k)
  <2>1. p = st[k] + Len(ss[k]) - 1 /\ p \in 1..n /\ st[k] \in 1..n /\ st[k] <= p
    BY <1>4 DEF Ending
  <2>2. rows[p].of = rows[st[k]].of
    BY <1>5, <2>1
  <2>3. rows[p].type = "TodoCreated" => p = st[k]
    BY <1>3, <1>4, <2>1, <2>2
  <2>4. p = st[k] => Len(ss[k]) = 1
    <3> DEFINE b == st[k]
               q == Len(ss[k])
    <3>1. p = b + q - 1 /\ q \in Nat /\ b \in 1..n /\ n \in Nat
      BY <1>3, <1>4, <2>1
    <3> HIDE DEF b, q, p
    <3>2. p = b => q = 1
      BY <3>1
    <3> QED BY <3>2 DEF b, q
  <2>5. rows[p].type \in {"TodoCreated", "TodoRetitled"}
    BY TodoAssumption, <1>3, <2>1 DEF TodoEvent
  <2> QED BY <1>4, <2>3, <2>4, <2>5
<1>8. ASSUME NEW k \in 1..m
      PROVE  Rebuild(ss[k]) = [of |-> rows[st[k]].of, title |-> rows[Ending(ss, st, k)].title]
  BY <1>4, <1>7, RebuildsToTheLast
<1>9. /\ DOMAIN list = 1..m
      /\ \A k \in 1..m : /\ list[k].of = rows[st[k]].of
                         /\ list[k].title = rows[Ending(ss, st, k)].title
                         /\ list[k] \in Todo
  <2>1. \A k \in 1..m : rows[st[k]].of \in Todos /\ rows[Ending(ss, st, k)].title \in Titles
    BY <1>3, <1>4 DEF TodoEvent
  <2> QED BY <1>3, <1>8, <2>1 DEF Todo
<1>10. list \in Seq(Todo)
  <2>1. list = [k \in 1..m |-> list[k]]
    BY <1>3
  <2> HIDE DEF list
  <2> QED BY <1>3, <1>9, <2>1, SeqDef
<1> HIDE DEF list
<1>11. {list[i].of : i \in DOMAIN list} = {rows[i].of : i \in DOMAIN rows}
  <2>1. ASSUME NEW k \in 1..m PROVE list[k].of \in {rows[i].of : i \in 1..n}
    BY <1>4, <1>9
  <2>2. ASSUME NEW p \in 1..n PROVE rows[p].of \in {list[k].of : k \in 1..m}
    <3>1. PICK k \in 1..m : st[k] <= p /\ p <= Ending(ss, st, k)
      BY <1>2
    <3> QED BY <1>5, <1>9, <3>1
  <2> QED BY <1>3, <1>9, <2>1, <2>2
<1>12. \A i, j \in DOMAIN list : list[i].of = list[j].of => i = j
  BY <1>6, <1>9
<1>13. ASSUME NEW k \in 1..m
       PROVE  list[k].title = rows[Max(EventsOf(rows, list[k].of))].title
  <2> DEFINE own == EventsOf(rows, list[k].of)
  <2>1. own = {p \in 1..n : rows[p].of = rows[st[k]].of}
    BY <1>3, <1>9 DEF EventsOf
  <2> HIDE DEF own
  <2>2. Ending(ss, st, k) \in 1..n /\ st[k] \in 1..n /\ st[k] <= Ending(ss, st, k)
    BY <1>4 DEF Ending
  <2>3. Ending(ss, st, k) \in own
    BY <1>5, <2>1, <2>2
  <2>4. ASSUME NEW p \in own PROVE p <= Ending(ss, st, k)
    <3>1. p \in 1..n /\ rows[p].of = rows[st[k]].of
      BY <2>1
    <3>2. PICK l \in 1..m : st[l] <= p /\ p <= Ending(ss, st, l)
      BY <1>2, <3>1
    <3>3. rows[st[l]].of = rows[st[k]].of
      BY <1>5, <3>1, <3>2
    <3>4. l = k
      BY <1>6, <3>3
    <3> QED BY <3>2, <3>4
  <2>5. own \subseteq Nat
    BY <2>1
  <2>6. Max(own) = Ending(ss, st, k)
    BY <2>3, <2>4, <2>5, LastOfAll
  <2> QED BY <1>9, <2>6 DEF own
<1>14. Replays(list, rows)
  BY <1>9, <1>11, <1>12, <1>13 DEF Replays
<1> QED BY <1>10, <1>14 DEF list

-----------------------------------------------------------------------------
(* A todo whose commands keep apart has one of them under way at most; its *)
(* table and history agree unless that one is between its row and its      *)
(* event.                                                                  *)
HalfDone(row, rows, r) ==
  LET own == EventsOf(rows, TodoOf[r]) IN
  /\ row = TitleOf[r]
  /\ Creates(r) <=> own = {}
  /\ own # {} => rows[Min(own)].type = "TodoCreated"

AtMostOne(n) ==
  \A r, s \in Requests :
    /\ TodoOf[r] = n /\ pc[r] \in Changing
    /\ TodoOf[s] = n /\ pc[s] \in Changing
    => r = s

AtRest(n) == \A r \in Requests : TodoOf[r] = n => pc[r] # "store"

Alone(n) ==
  /\ AtMostOne(n)
  /\ AtRest(n) => Agree(todos[n], events, n)
  /\ \A r \in Requests :
       TodoOf[r] = n /\ pc[r] = "store" => HalfDone(todos[n], events, r)

AloneInv == \A n \in Todos \ torn : Alone(n)

(* The events of the others are none of its business.                      *)
LEMMA OthersEvents ==
  ASSUME NEW rows \in Seq(TodoEvent), NEW e \in TodoEvent, NEW n, e.of # n
  PROVE  /\ \A row : Agree(row, rows, n) => Agree(row, Append(rows, e), n)
         /\ \A row, r : TodoOf[r] = n /\ HalfDone(row, rows, r) =>
              HalfDone(row, Append(rows, e), r)
<1> DEFINE own == EventsOf(rows, n)
           rr == Append(rows, e)
<1>1. /\ Len(rows) \in Nat /\ DOMAIN rows = 1..Len(rows)
      /\ DOMAIN rr = 1..(Len(rows) + 1) /\ rr[Len(rows) + 1] = e
      /\ \A i \in 1..Len(rows) : rr[i] = rows[i]
  BY LenProperties, AppendProperties
<1> HIDE DEF rr
<1>2. EventsOf(rr, n) = own
  BY <1>1 DEF EventsOf
<1>3. own \subseteq 1..Len(rows)
  BY <1>1 DEF EventsOf
<1>4. own # {} => Min(own) \in own
  BY <1>3, MinIs
<1>5. own # {} => Max(own) \in own
  BY <1>1, <1>3, MaxIs
<1>6. own # {} => rr[Min(own)] = rows[Min(own)] /\ rr[Max(own)] = rows[Max(own)]
  BY <1>1, <1>3, <1>4, <1>5
<1> HIDE DEF own
<1> QED BY <1>2, <1>6 DEF Agree, HalfDone, own, rr

(* The event of a command ends what is half done.                          *)
LEMMA OwnEvent ==
  ASSUME NEW rows \in Seq(TodoEvent), NEW r \in Requests, NEW row, row # None,
         HalfDone(row, rows, r)
  PROVE  Agree(row, Append(rows, EventOf(r)), TodoOf[r])
<1> DEFINE n == TodoOf[r]
           e == EventOf(r)
           m == Len(rows) + 1
           own == EventsOf(rows, n)
           rr == Append(rows, e)
<1>1. /\ e \in TodoEvent /\ e.of = n /\ e.title = TitleOf[r]
      /\ Creates(r) => e.type = "TodoCreated"
  BY TodoAssumption DEF EventOf, TodoEvent, Creates
<1> HIDE DEF e
<1>2. /\ m \in Nat /\ DOMAIN rows = 1..Len(rows) /\ Len(rows) \in Nat
      /\ DOMAIN rr = 1..m /\ rr[m] = e
      /\ \A i \in 1..Len(rows) : rr[i] = rows[i]
  BY <1>1, LenProperties, AppendProperties
<1> HIDE DEF rr
<1>3. own \subseteq 1..Len(rows)
  BY <1>2 DEF EventsOf
<1>4. EventsOf(rr, n) = own \cup {m}
  BY <1>1, <1>2 DEF EventsOf
<1>5. Max(own \cup {m}) = m
  <2>1. \A i \in own \cup {m} : i <= m
    BY <1>2, <1>3
  <2>2. own \cup {m} \subseteq Nat
    BY <1>2, <1>3
  <2> HIDE DEF own, m
  <2> QED BY <2>1, <2>2, LastOfAll
<1>6. /\ own = {} <=> Creates(r)
      /\ own # {} => rows[Min(own)].type = "TodoCreated"
      /\ row = TitleOf[r]
  BY DEF HalfDone
<1>7. rr[Min(own \cup {m})].type = "TodoCreated"
  <2>1. CASE own = {}
    <3>1. Min(own \cup {m}) = m
      <4>1. m \in own \cup {m} /\ \A i \in own \cup {m} : m <= i
        BY <1>2, <2>1
      <4>2. own \cup {m} \subseteq Nat
        BY <1>2, <1>3
      <4> HIDE DEF own, m
      <4> QED BY <4>1, <4>2, FirstOfAll
    <3> QED BY <1>1, <1>2, <1>6, <2>1, <3>1
  <2>2. CASE own # {}
    <3> DEFINE first == Min(own)
    <3>1. first \in own /\ \A i \in own : first <= i
      BY <1>3, <2>2, MinIs
    <3>2. first \in own \cup {m} /\ \A i \in own \cup {m} : first <= i
      BY <1>2, <1>3, <3>1
    <3>3. own \cup {m} \subseteq Nat
      BY <1>2, <1>3
    <3>4. rr[first] = rows[first]
      BY <1>2, <1>3, <3>1
    <3> HIDE DEF first, own, m
    <3>5. Min(own \cup {m}) = first
      BY <3>2, <3>3, FirstOfAll
    <3> QED BY <1>6, <2>2, <3>4, <3>5 DEF first
  <2> QED BY <2>1, <2>2
<1> HIDE DEF own, m
<1>8. rr[Max(own \cup {m})].title = row
  BY <1>1, <1>2, <1>5, <1>6
<1>9. own \cup {m} # {}
  OBVIOUS
<1> QED BY <1>4, <1>7, <1>8, <1>9 DEF Agree, rr, e, n

(* Commands that begin, end, are lost or go on without a transaction.      *)
LEMMA StaysAlone ==
  ASSUME AloneInv, UNCHANGED tables, NEW n \in Todos \ torn, AtMostOne(n)',
         \A r \in Requests : TodoOf[r] = n => (pc'[r] = "store" <=> pc[r] = "store")
  PROVE  Alone(n)'
<1>1. Alone(n)
  BY DEF AloneInv
<1>2. AtRest(n)' <=> AtRest(n)
  BY DEF AtRest
<1>3. todos' = todos /\ events' = events
  BY DEF tables
<1> QED BY <1>1, <1>2, <1>3 DEF Alone

LEMMA OneAtMost ==
  ASSUME AloneInv, NEW n \in Todos \ torn,
         \A r \in Requests : TodoOf[r] = n /\ pc'[r] \in Changing => pc[r] \in Changing
  PROVE  AtMostOne(n)'
BY DEF AloneInv, Alone, AtMostOne

(* A command has changed the row and will store its event.                 *)
LEMMA ComesHalfWay ==
  ASSUME AloneInv, TodoInv, NEW r \in Requests, TodoOf[r] \notin torn',
         pc[r] \in {"add", "retitle"}, torn' = torn, UNCHANGED events,
         pc' = [pc EXCEPT ![r] = "store"],
         todos' = [todos EXCEPT ![TodoOf[r]] = TitleOf[r]],
         Creates(r) <=> todos[TodoOf[r]] = None
  PROVE  AloneInv'
<1>1. TodoOf[r] \in Todos /\ TablesOK
  BY TodoAssumption DEF TodoInv
<1>2. pc'[r] = "store" /\ \A s \in Requests \ {r} : pc'[s] = pc[s]
  BY <1>1 DEF TablesOK
<1>3. ASSUME NEW n \in Todos \ torn' PROVE Alone(n)'
  <2>1. n \in Todos \ torn /\ Alone(n)
    BY <1>3 DEF AloneInv
  <2>2. AtMostOne(n)'
    BY <1>2, <2>1, OneAtMost DEF Changing
  <2>3. CASE n # TodoOf[r]
    <3>1. todos'[n] = todos[n]
      BY <1>1, <2>3 DEF TablesOK
    <3>2. AtRest(n)' <=> AtRest(n)
      BY <1>2, <2>3 DEF AtRest
    <3> QED BY <1>2, <2>1, <2>2, <2>3, <3>1, <3>2 DEF Alone
  <2>4. CASE n = TodoOf[r]
    <3>1. \A s \in Requests : TodoOf[s] = n /\ pc'[s] = "store" => s = r
      BY <1>2, <2>1, <2>4 DEF Alone, AtMostOne, Changing
    <3>2. \A s \in Requests : TodoOf[s] = n => pc[s] # "store"
      BY <2>1, <2>4 DEF Alone, AtMostOne, Changing
    <3>3. Agree(todos[n], events, n)
      BY <2>1, <3>2 DEF Alone, AtRest
    <3>4. todos'[n] = TitleOf[r]
      BY <1>1, <2>4 DEF TablesOK
    <3>5. HalfDone(todos'[n], events', r)
      BY <2>4, <3>3, <3>4 DEF Agree, HalfDone
    <3>6. ~ AtRest(n)'
      BY <1>2, <2>4 DEF AtRest
    <3> QED BY <2>2, <3>1, <3>5, <3>6 DEF Alone
  <2> QED BY <2>3, <2>4
<1> QED BY <1>3 DEF AloneInv

-----------------------------------------------------------------------------
Answered == \A r \in Requests : answer[r] = "response" => Replays(listed[r], seen[r])

Typed ==
  /\ answer \in [Requests -> Answer]
  /\ faults \in 0..MaxFaults
  /\ torn \subseteq Todos
  /\ seen \in [Requests -> Seq(TodoEvent)]
  /\ listed \in [Requests -> Seq(Todo)]

ToldInv == Typed /\ Answered

LEMMA ToldKept ==
  ASSUME ToldInv, UNCHANGED history, faults' \in 0..MaxFaults, torn' \subseteq Todos,
         \/ answer' = answer
         \/ \E r \in Requests : \E a \in Answer \ {"response"} :
              answer' = [answer EXCEPT ![r] = a]
  PROVE  ToldInv'
<1>1. /\ answer' \in [Requests -> Answer]
      /\ \A r \in Requests : answer'[r] = "response" => answer[r] = "response"
  <2>1. ASSUME NEW r \in Requests, NEW a \in Answer \ {"response"},
               answer' = [answer EXCEPT ![r] = a]
        PROVE  /\ answer' \in [Requests -> Answer]
               /\ \A s \in Requests : answer'[s] = "response" => answer[s] = "response"
    BY <2>1 DEF ToldInv, Typed
  <2> QED BY <2>1 DEF ToldInv, Typed
<1> QED BY <1>1 DEF ToldInv, Typed, Answered, history

LEMMA FaultBound ==
  ASSUME Typed
  PROVE  (Fault \/ UNCHANGED faults) => faults' \in 0..MaxFaults
<1>1. MaxFaults \in Nat
  BY TodoAssumption
<1> QED BY <1>1 DEF Typed, Fault

LEMMA Listed ==
  ASSUME ToldInv, TodoInv, NEW r \in Requests, ListTodos(r)
  PROVE  ToldInv'
<1> DEFINE streams == Streams(events)
           list == [i \in DOMAIN streams |-> Rebuild(streams[i])]
<1>1. /\ seen' = [seen EXCEPT ![r] = events]
      /\ UNCHANGED <<faults, torn>> /\ Typed /\ events \in Seq(TodoEvent) /\ OneCreation
  BY DEF ListTodos, ToldInv, TodoInv, TablesOK
<1>2. /\ seen' \in [Requests -> Seq(TodoEvent)] /\ seen'[r] = events
      /\ \A s \in Requests \ {r} : seen'[s] = seen[s]
  BY <1>1 DEF Typed
<1> DEFINE listable == /\ \A i \in DOMAIN events : Readable(events[i])
                       /\ \A i \in DOMAIN streams : CanRebuild(streams[i])
<1>3. CASE listable
  <2>1. /\ answer' = [answer EXCEPT ![r] = "response"]
        /\ listed' = [listed EXCEPT ![r] = list]
    BY <1>3 DEF ListTodos, Ends
  <2>2. list \in Seq(Todo) /\ Replays(list, events)
    BY <1>1, <1>3, StreamsReplay DEF OneCreation
  <2> HIDE DEF list
  <2>3. /\ answer' \in [Requests -> Answer] /\ listed' \in [Requests -> Seq(Todo)]
        /\ listed'[r] = list
        /\ \A s \in Requests \ {r} : answer'[s] = answer[s] /\ listed'[s] = listed[s]
    BY <1>1, <2>1, <2>2 DEF Typed, Answer
  <2> QED BY <1>1, <1>2, <2>2, <2>3 DEF ToldInv, Typed, Answered
<1>4. CASE ~ listable
  <2>1. answer' = [answer EXCEPT ![r] = "TypeError"] /\ listed' = listed
    BY <1>4 DEF ListTodos, Ends
  <2>2. /\ answer' \in [Requests -> Answer] /\ answer'[r] # "response"
        /\ \A s \in Requests \ {r} : answer'[s] = answer[s]
    BY <1>1, <2>1 DEF Typed, Answer
  <2> QED BY <1>1, <1>2, <2>1, <2>2 DEF ToldInv, Typed, Answered
<1> QED BY <1>3, <1>4

LEMMA ToldStep == ToldInv /\ TodoInv /\ [Next]_vars => ToldInv'
<1> SUFFICES ASSUME ToldInv, TodoInv, [Next]_vars PROVE ToldInv'
  OBVIOUS
<1>1. Typed /\ torn \subseteq Todos /\ \A r \in Requests : TodoOf[r] \in Todos
  BY TodoAssumption DEF ToldInv, Typed
<1>2. ASSUME NEW r \in Requests, NEW a \in Answer \ {"response"}, Ends(r, a),
             UNCHANGED <<faults, torn, history>>
      PROVE  ToldInv'
  <2>1. answer' = [answer EXCEPT ![r] = a] /\ UNCHANGED history
    BY <1>2 DEF Ends
  <2>2. faults' \in 0..MaxFaults
    BY <1>1, <1>2, FaultBound
  <2> QED BY <1>1, <1>2, <2>1, <2>2, ToldKept
<1>3. ASSUME NEW r \in Requests, NEW after, NEW changed \in SUBSET Todos,
             Commits(r, after, changed), UNCHANGED history
      PROVE  ToldInv'
  <2>1. faults' \in 0..MaxFaults
    BY <1>1, <1>3, FaultBound DEF Commits
  <2>2. torn' \subseteq Todos
    BY <1>1, <1>3 DEF Commits
  <2>3. \/ answer' = answer
        \/ \E a \in Answer \ {"response"} : answer' = [answer EXCEPT ![r] = a]
    <3>1. "OperationalError" \in Answer \ {"response"}
      BY DEF Answer
    <3> QED BY <1>3, <3>1 DEF Commits, Ends
  <2> QED BY <1>3, <2>1, <2>2, <2>3, ToldKept
<1>4. ASSUME NEW r \in Requests, Receive(r) PROVE ToldInv'
  <2>1. torn' \subseteq Todos /\ UNCHANGED <<answer, faults, history>>
    BY <1>1, <1>4 DEF Receive
  <2>2. faults' \in 0..MaxFaults
    BY <1>1, <2>1, FaultBound
  <2> QED BY <2>1, <2>2, ToldKept
<1>5. ASSUME NEW r \in Requests, RepoGet(r) PROVE ToldInv'
  <2>1. "KeyError" \in Answer \ {"response"}
    BY DEF Answer
  <2>2. CASE Ends(r, "KeyError")
    BY <1>2, <1>5, <2>1, <2>2 DEF RepoGet
  <2>3. CASE UNCHANGED answer
    <3>1. UNCHANGED <<answer, faults, torn, history>>
      BY <1>5, <2>3 DEF RepoGet
    <3>2. faults' \in 0..MaxFaults
      BY <1>1, <3>1, FaultBound
    <3> QED BY <1>1, <3>1, <3>2, ToldKept
  <2> QED BY <1>5, <2>2, <2>3 DEF RepoGet
<1>6. ASSUME NEW r \in Requests, RepoAddRefused(r) \/ PublishEvent(r) PROVE ToldInv'
  <2>1. {"IntegrityError", "UnregisteredMessageError"} \subseteq Answer \ {"response"}
    BY DEF Answer
  <2> QED BY <1>2, <1>6, <2>1 DEF RepoAddRefused, PublishEvent
<1>7. ASSUME NEW r \in Requests, RepoAdd(r) \/ Retitle(r) \/ EsAdd(r) PROVE ToldInv'
  <2>1. {TodoOf[r]} \in SUBSET Todos /\ {} \in SUBSET Todos
    BY <1>1
  <2>2. CASE RepoAdd(r)
    BY <1>3, <2>1, <2>2 DEF RepoAdd
  <2>3. CASE Retitle(r)
    BY <1>3, <2>1, <2>3 DEF Retitle
  <2>4. CASE EsAdd(r)
    <3>1. Commits(r, "publish", {}) /\ UNCHANGED history
      BY <2>4 DEF EsAdd
    <3> QED BY <1>3, <2>1, <3>1
  <2> QED BY <1>7, <2>2, <2>3, <2>4
<1>8. ASSUME NEW r \in Requests, RolledBack(r) PROVE ToldInv'
  <2>1. /\ answer' = [answer EXCEPT ![r] = "OperationalError"]
        /\ torn' \subseteq Todos /\ UNCHANGED history /\ Fault
    BY <1>1, <1>8 DEF RolledBack, Ends
  <2>2. faults' \in 0..MaxFaults /\ "OperationalError" \in Answer \ {"response"}
    BY <1>1, <2>1, FaultBound DEF Answer
  <2> QED BY <2>1, <2>2, ToldKept
<1>9. ASSUME Restart PROVE ToldInv'
  <2>1. UNCHANGED <<answer, history>> /\ torn' \subseteq Todos /\ Fault
    BY <1>1, <1>9 DEF Restart
  <2>2. faults' \in 0..MaxFaults
    BY <1>1, <2>1, FaultBound
  <2> QED BY <2>1, <2>2, ToldKept
<1>10. ASSUME UNCHANGED vars PROVE ToldInv'
  BY <1>10 DEF vars, history, ToldInv, Typed, Answered
<1>11. ASSUME NEW r \in Requests, Handle(r) PROVE ToldInv'
  BY <1>5, <1>6, <1>7, <1>8, <1>11, Listed DEF Handle
<1> QED BY <1>4, <1>9, <1>10, <1>11 DEF Next

LEMMA AloneBegins ==
  ASSUME AloneInv, TodoInv, NEW r \in Requests, Receive(r)
  PROVE  AloneInv'
<1> DEFINE step == FirstStep[Kind[r]]
<1>1. /\ TablesOK /\ TodoOf[r] \in Todos /\ pc[r] = "idle" /\ UNCHANGED tables
      /\ pc' = [pc EXCEPT ![r] = step] /\ torn \subseteq torn'
  BY TodoAssumption DEF Receive, TodoInv
<1>2. step # "store"
  BY TodoAssumption DEF FirstStep, Kinds
<1>3. pc'[r] = step /\ \A s \in Requests \ {r} : pc'[s] = pc[s]
  BY <1>1 DEF TablesOK
<1>4. ASSUME NEW n \in Todos \ torn' PROVE Alone(n)'
  <2>1. n \in Todos \ torn
    BY <1>1
  <2>2. AtMostOne(n)'
    <3>1. CASE TodoOf[r] = n /\ step \in Changing
      <4>1. ~ UnderWay(n)
        BY <1>4, <3>1 DEF Receive
      <4> QED BY <1>3, <4>1 DEF AtMostOne, UnderWay
    <3>2. CASE ~ (TodoOf[r] = n /\ step \in Changing)
      <4>1. \A s \in Requests : TodoOf[s] = n /\ pc'[s] \in Changing => pc[s] \in Changing
        BY <1>3, <3>2
      <4> QED BY <2>1, <4>1, OneAtMost
    <3> QED BY <3>1, <3>2
  <2>3. \A s \in Requests : TodoOf[s] = n => (pc'[s] = "store" <=> pc[s] = "store")
    BY <1>1, <1>2, <1>3
  <2> QED BY <1>1, <2>1, <2>2, <2>3, StaysAlone
<1> QED BY <1>4 DEF AloneInv

(* A command ends, or is lost: if its event is missing, its todo is torn.  *)
LEMMA AloneEnds ==
  ASSUME AloneInv, UNCHANGED tables, torn \subseteq torn',
         \A r \in Requests :
           /\ pc'[r] \in Changing => pc[r] \in Changing
           /\ TodoOf[r] \notin torn' => (pc'[r] = "store" <=> pc[r] = "store")
  PROVE  AloneInv'
<1>1. ASSUME NEW n \in Todos \ torn' PROVE Alone(n)'
  <2>1. n \in Todos \ torn
    OBVIOUS
  <2>2. AtMostOne(n)'
    BY <2>1, OneAtMost
  <2>3. \A s \in Requests : TodoOf[s] = n => (pc'[s] = "store" <=> pc[s] = "store")
    OBVIOUS
  <2> QED BY <2>1, <2>2, <2>3, StaysAlone
<1> QED BY <1>1 DEF AloneInv

(* The row is changed and the answer is lost: its todo is torn.            *)
LEMMA AloneTorn ==
  ASSUME AloneInv, TodoInv, NEW r \in Requests, pc[r] # "store", UNCHANGED events,
         torn' = torn \cup {TodoOf[r]}, Ends(r, "OperationalError"),
         \A n \in Todos \ {TodoOf[r]} : todos'[n] = todos[n]
  PROVE  AloneInv'
<1>1. pc'[r] = "done" /\ \A s \in Requests \ {r} : pc'[s] = pc[s]
  BY EndsAt DEF TodoInv
<1>2. ASSUME NEW n \in Todos \ torn' PROVE Alone(n)'
  <2>1. n \in Todos \ torn /\ n # TodoOf[r] /\ Alone(n)
    BY <1>2 DEF AloneInv
  <2>2. AtMostOne(n)'
    BY <1>1, <2>1, OneAtMost DEF Changing
  <2>3. AtRest(n)' <=> AtRest(n)
    BY <1>1, <2>1 DEF AtRest
  <2> QED BY <1>1, <2>1, <2>2, <2>3 DEF Alone
<1> QED BY <1>2 DEF AloneInv

LEMMA AloneStores ==
  ASSUME AloneInv, TodoInv, NEW r \in Requests, EsAdd(r)
  PROVE  AloneInv'
<1> DEFINE e == EventOf(r)
<1>1. /\ TablesOK /\ pc[r] = "store" /\ todos[TodoOf[r]] # None /\ UNCHANGED todos
      /\ events' = Append(events, e) /\ events \in Seq(TodoEvent)
      /\ Commits(r, "publish", {}) /\ torn' = torn
  BY DEF EsAdd, TodoInv, TablesOK, RowFirst, Commits
<1>2. e \in TodoEvent /\ e.of = TodoOf[r]
  BY TodoAssumption DEF EventOf, TodoEvent
<1>3. pc'[r] \in {"publish", "done"} /\ \A s \in Requests \ {r} : pc'[s] = pc[s]
  BY <1>1, CommitsAt DEF Steps
<1>4. ASSUME NEW n \in Todos \ torn' PROVE Alone(n)'
  <2>1. n \in Todos \ torn /\ Alone(n)
    BY <1>1 DEF AloneInv
  <2>2. AtMostOne(n)'
    BY <1>3, <2>1, OneAtMost DEF Changing
  <2>3. CASE n = TodoOf[r]
    <3>1. HalfDone(todos[n], events, r)
      BY <1>1, <2>1, <2>3 DEF Alone
    <3>2. Agree(todos[n], events', n)
      BY <1>1, <2>3, <3>1, OwnEvent
    <3>3. \A s \in Requests : TodoOf[s] = n => pc'[s] # "store"
      BY <1>1, <1>3, <2>1, <2>3 DEF Alone, AtMostOne, Changing
    <3> QED BY <1>1, <2>2, <3>2, <3>3 DEF Alone
  <2>4. CASE n # TodoOf[r]
    <3> HIDE DEF e
    <3>1. Agree(todos[n], events, n) => Agree(todos[n], events', n)
      BY <1>1, <1>2, <2>4, OthersEvents
    <3>2. \A s : TodoOf[s] = n /\ HalfDone(todos[n], events, s) =>
                   HalfDone(todos[n], events', s)
      BY <1>1, <1>2, <2>4, OthersEvents
    <3>3. AtRest(n)' <=> AtRest(n)
      BY <1>1, <1>3, <2>4 DEF AtRest
    <3>4. \A s \in Requests : TodoOf[s] = n /\ pc'[s] = "store" => pc[s] = "store"
      BY <1>3
    <3> QED BY <1>1, <2>1, <2>2, <3>1, <3>2, <3>3, <3>4 DEF Alone
  <2> QED BY <2>3, <2>4
<1> QED BY <1>4 DEF AloneInv

LEMMA AloneStep == AloneInv /\ TodoInv /\ [Next]_vars => AloneInv'
<1> SUFFICES ASSUME AloneInv, TodoInv, [Next]_vars PROVE AloneInv'
  OBVIOUS
<1>1. /\ TablesOK /\ Placed /\ RowFirst
      /\ \A r \in Requests : TodoOf[r] \in Todos /\ TitleOf[r] \in Titles
  BY TodoAssumption DEF TodoInv
<1>2. ASSUME NEW r \in Requests, NEW a, Ends(r, a), UNCHANGED tables,
             torn \subseteq torn', pc[r] = "store" => TodoOf[r] \in torn'
      PROVE  AloneInv'
  <2>1. pc'[r] = "done" /\ \A s \in Requests \ {r} : pc'[s] = pc[s]
    BY <1>1, <1>2, EndsAt
  <2> QED BY <1>2, <2>1, AloneEnds DEF Changing
<1>3. ASSUME NEW r \in Requests, RepoAdd(r) \/ Retitle(r) PROVE AloneInv'
  <2>1. /\ pc[r] \in {"add", "retitle"} /\ UNCHANGED events
        /\ Commits(r, "store", {TodoOf[r]})
        /\ Creates(r) <=> todos[TodoOf[r]] = None
        /\ todos' = [todos EXCEPT ![TodoOf[r]] = TitleOf[r]]
    <3>1. CASE RepoAdd(r)
      BY <1>1, <3>1 DEF RepoAdd, Placed
    <3>2. CASE Retitle(r)
      <4>1. pc[r] = "retitle" /\ ~ Creates(r) /\ todos[TodoOf[r]] # None
        BY <1>1, <3>2 DEF Retitle, Placed, RowFirst
      <4> QED BY <1>1, <3>2, <4>1 DEF Retitle
    <3> QED BY <1>3, <3>1, <3>2
  <2>2. CASE pc' = [pc EXCEPT ![r] = "store"] /\ UNCHANGED <<answer, faults, torn>>
    <3>1. CASE TodoOf[r] \notin torn
      BY <2>1, <2>2, <3>1, ComesHalfWay
    <3>2. CASE TodoOf[r] \in torn
      <4>1. pc'[r] = "store" /\ \A s \in Requests \ {r} : pc'[s] = pc[s]
        BY <1>1, <2>2 DEF TablesOK
      <4>2. ASSUME NEW n \in Todos \ torn' PROVE Alone(n)'
        <5>1. n # TodoOf[r] /\ Alone(n) /\ n \in Todos \ torn
          BY <2>2, <3>2 DEF AloneInv
        <5>2. todos'[n] = todos[n]
          BY <1>1, <2>1, <5>1 DEF TablesOK
        <5>3. AtMostOne(n)'
          BY <4>1, <5>1, OneAtMost
        <5>4. AtRest(n)' <=> AtRest(n)
          BY <4>1, <5>1 DEF AtRest
        <5> QED BY <2>1, <4>1, <5>1, <5>2, <5>3, <5>4 DEF Alone
      <4> QED BY <4>2 DEF AloneInv
    <3> QED BY <3>1, <3>2
  <2>3. CASE Ends(r, "OperationalError") /\ torn' = torn \cup {TodoOf[r]}
    <3>1. \A n \in Todos \ {TodoOf[r]} : todos'[n] = todos[n]
      BY <1>1, <2>1 DEF TablesOK
    <3> QED BY <2>1, <2>3, <3>1, AloneTorn
  <2> QED BY <2>1, <2>2, <2>3 DEF Commits
<1>4. ASSUME NEW r \in Requests, RepoGet(r) PROVE AloneInv'
  <2>1. CASE todos[TodoOf[r]] = None
    BY <1>2, <1>4, <2>1 DEF RepoGet
  <2>2. CASE todos[TodoOf[r]] # None
    <3>1. /\ pc' = [pc EXCEPT ![r] = "retitle"] /\ pc[r] = "get"
          /\ UNCHANGED tables /\ UNCHANGED torn
      BY <1>4, <2>2 DEF RepoGet
    <3>2. pc'[r] = "retitle" /\ \A s \in Requests \ {r} : pc'[s] = pc[s]
      BY <1>1, <3>1 DEF TablesOK
    <3> QED BY <3>1, <3>2, AloneEnds DEF Changing
  <2> QED BY <2>1, <2>2
<1>5. ASSUME NEW r \in Requests,
             RepoAddRefused(r) \/ PublishEvent(r) \/ ListTodos(r) \/ RolledBack(r)
      PROVE  AloneInv'
  <2>1. CASE RepoAddRefused(r) \/ PublishEvent(r) \/ ListTodos(r)
    <3>1. UNCHANGED tables /\ UNCHANGED torn /\ pc[r] # "store" /\ \E a : Ends(r, a)
      BY <2>1 DEF RepoAddRefused, PublishEvent, ListTodos
    <3> QED BY <1>2, <3>1
  <2>2. CASE RolledBack(r)
    BY <1>2, <2>2 DEF RolledBack
  <2> QED BY <1>5, <2>1, <2>2
<1>6. ASSUME Restart PROVE AloneInv'
  <2>1. /\ pc' = [r \in Requests |-> IF pc[r] \in Steps THEN "lost" ELSE pc[r]]
        /\ torn \subseteq torn' /\ UNCHANGED tables
        /\ \A r \in Requests : pc[r] = "store" => TodoOf[r] \in torn'
    BY <1>6 DEF Restart
  <2> QED BY <2>1, AloneEnds DEF Steps, Changing
<1>7. ASSUME UNCHANGED vars PROVE AloneInv'
  BY <1>7, AloneEnds DEF vars
<1>8. ASSUME NEW r \in Requests, Handle(r) PROVE AloneInv'
  BY <1>3, <1>4, <1>5, <1>8, AloneStores DEF Handle
<1> QED BY <1>6, <1>7, <1>8, AloneBegins DEF Next

LEMMA BothInit == Init => AloneInv /\ ToldInv
<1> SUFFICES ASSUME Init PROVE AloneInv /\ ToldInv
  OBVIOUS
<1>1. \A n : EventsOf(<<>>, n) = {}
  BY DEF EventsOf
<1>2. AloneInv
  BY <1>1 DEF Init, AloneInv, Alone, AtMostOne, AtRest, Agree, Changing
<1>3. <<>> \in Seq(TodoEvent) /\ <<>> \in Seq(Todo) /\ MaxFaults \in Nat
  BY TodoAssumption
<1>4. ToldInv
  BY <1>3 DEF Init, ToldInv, Typed, Answered, Answer
<1> QED BY <1>2, <1>4

LEMMA BothHold == Spec => [](AloneInv /\ ToldInv)
<1>1. AloneInv /\ ToldInv /\ TodoInv /\ [Next]_vars => (AloneInv /\ ToldInv)'
  BY AloneStep, ToldStep
<1> QED BY <1>1, BothInit, TodoInvHolds, PTL DEF Spec

(* The tables, the requests and what they are told have the shapes that    *)
(* the code gives them.                                                    *)
THEOREM TodoTypes == Spec => []TypeOK
<1>1. TodoInv /\ ToldInv => TypeOK
  BY DEF TodoInv, TablesOK, ToldInv, Typed, TypeOK
<1> QED BY <1>1, TodoInvHolds, BothHold, PTL

(* The row and the history of a todo tell the same, for any number of      *)
(* commands that come one after the other and end whole, whatever happens  *)
(* to other todos meanwhile.                                               *)
THEOREM TablesAgree == Spec => []AloneAgrees
<1>1. AloneInv => AloneAgrees
  <2> SUFFICES ASSUME AloneInv, NEW n \in Todos \ torn, ~ UnderWay(n)
               PROVE  Agree(todos[n], events, n)
    BY DEF AloneAgrees, Agree
  <2>1. AtRest(n)
    BY DEF AtRest, UnderWay, Changing
  <2> QED BY <2>1 DEF AloneInv, Alone
<1> QED BY <1>1, BothHold, PTL

(* A list that is returned replays every event that was there, whatever    *)
(* the order of the fields of an event, however the events of the todos    *)
(* alternate in the table: where a row or a stream cannot be made an event *)
(* or a todo again, no list is returned.                                   *)
THEOREM ListsReplay == Spec => []ListIsReplay
<1>1. ToldInv => ListIsReplay
  BY DEF ToldInv, Answered, ListIsReplay
<1> QED BY <1>1, BothHold, PTL
=============================================================================
