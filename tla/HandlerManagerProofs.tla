------------------------ MODULE HandlerManagerProofs ------------------------
(***************************************************************************)
(* Theorems about HandlerManager, for any set of messages, guards, types   *)
(* and scopes that satisfies ConstantsAssumption: first those that hold of *)
(* every deployment, then the refinement of Pipeline by callers that are   *)
(* careful, and by messages that share no guard object.                    *)
(***************************************************************************)
EXTENDS HandlerManager, TLAPS, WellFoundedInduction, NaturalsInduction

-----------------------------------------------------------------------------
(* Arithmetic: a nonempty set of indices of a list has a last one.         *)

LEMMA NatMin ==
  ASSUME NEW T \in SUBSET Nat, T # {}
  PROVE  \E m \in T : \A k \in T : m <= k
<1> DEFINE R == OpToRel(<, Nat)
<1>1. IsWellFoundedOn(R, Nat)
  BY NatLessThanWellFounded
<1>2. R = {p \in Nat \X Nat : p[1] < p[2]}
  BY Zenon DEF OpToRel
<1> HIDE DEF R
<1>3. PICK m \in T : \A k \in T : ~ (<<k, m>> \in R)
  BY <1>1, WFMin
<1>4. ASSUME NEW k \in T PROVE m <= k
  <2>1. k \in Nat /\ m \in Nat
    OBVIOUS
  <2>2. ~ (k < m)
    BY <1>2, <1>3, <2>1
  <2> QED BY <2>1, <2>2
<1> QED BY <1>4

LEMMA IndexMax ==
  ASSUME NEW n \in Nat, NEW S \in SUBSET (1..n), S # {}
  PROVE  \E m \in S : \A k \in S : k <= m
<1> DEFINE T == {n - i : i \in S}
<1>1. T \in SUBSET Nat
  OBVIOUS
<1>2. T # {}
  OBVIOUS
<1> HIDE DEF T
<1>3. PICK m \in T : \A k \in T : m <= k
  BY <1>1, <1>2, NatMin
<1>4. PICK i \in S : m = n - i
  BY DEF T
<1>5. ASSUME NEW k \in S PROVE k <= i
  <2>1. n - k \in T
    BY DEF T
  <2>2. n - i <= n - k
    BY <1>3, <1>4, <2>1
  <2> QED BY <2>2
<1> QED BY <1>5

-----------------------------------------------------------------------------
(* The lists that a message is linked along.                               *)

LEMMA CommandGuardsType ==
  ASSUME NEW t \in Sends
  PROVE  CommandGuards(t) \in Seq(Guards)
BY ConstantsAssumption DEF CommandGuards

LEMMA ResolveType ==
  ASSUME NEW t \in Sends, NEW g \in Guards
  PROVE  Resolve(g, t) \in Instance
<1>1. CASE g \in ClassGuards
  BY <1>1, ConstantsAssumption DEF Resolve, Instance, ScopeOf
<1>2. CASE g \notin ClassGuards
  BY <1>2, ConstantsAssumption DEF Resolve, Instance, Guards
<1> QED BY <1>1, <1>2

LEMMA ChainType ==
  ASSUME NEW t \in Sends
  PROVE  /\ Chain(t) \in Seq(Instance)
         /\ Len(Chain(t)) \in Nat
         /\ DOMAIN Chain(t) = 1..Len(Chain(t))
         /\ \A i \in 1..Len(Chain(t)) : Chain(t)[i] \in Instance
<1> DEFINE n == Len(CommandGuards(t))
<1>1. CommandGuards(t) \in Seq(Guards)
  BY CommandGuardsType
<1>2. n \in Nat /\ \A i \in 1..n : CommandGuards(t)[i] \in Guards
  BY <1>1
<1>3. \A i \in 1..n : Resolve(CommandGuards(t)[i], t) \in Instance
  BY <1>2, ResolveType
<1> HIDE DEF n
<1>4. Chain(t) \in [1..n -> Instance]
  BY <1>3 DEF Chain, n
<1>5. Chain(t) \in Seq(Instance) /\ Len(Chain(t)) = n
  BY <1>2, <1>4
<1> QED BY <1>2, <1>4, <1>5

(* Its elements, one by one.                                               *)
LEMMA ChainIs ==
  ASSUME NEW t \in Sends
  PROVE  /\ DOMAIN CommandGuards(t) = 1..Len(Chain(t))
         /\ \A i \in 1..Len(Chain(t)) :
              /\ Chain(t)[i] = Resolve(CommandGuards(t)[i], t)
              /\ Chain(t)[i].obj = CommandGuards(t)[i]
              /\ Chain(t)[i].of =
                   IF CommandGuards(t)[i] \in ClassGuards THEN ScopeOf(t) ELSE NoScope
<1> DEFINE n == Len(CommandGuards(t))
<1>1. CommandGuards(t) \in Seq(Guards)
  BY CommandGuardsType
<1>2. n \in Nat /\ DOMAIN CommandGuards(t) = 1..n
  BY <1>1
<1>3. Len(Chain(t)) = n
  BY <1>2 DEF Chain
<1>4. \A i \in 1..n : Chain(t)[i] = Resolve(CommandGuards(t)[i], t)
  BY DEF Chain
<1> QED BY <1>2, <1>3, <1>4 DEF Resolve

(* Instances and handlers are told apart by their kind.                    *)
LEMMA KindsApart ==
  /\ Instance \cap Handler = {}
  /\ \A x \in Instance : x.kind = "guard" /\ x \in Target /\ x # None
  /\ \A x \in Handler : x.kind = "handler" /\ x \in Target /\ x # None
BY ConstantsAssumption DEF Instance, Handler, Target

LEMMA HandlerType ==
  ASSUME NEW t \in Sends
  PROVE  ResolvedHandler(t) \in Handler
BY ConstantsAssumption DEF ResolvedHandler, Handler

LEMMA RouteType ==
  ASSUME NEW t \in Sends
  PROVE  /\ Route(t) \in Seq(Target)
         /\ Len(Route(t)) = Len(Chain(t)) + 1
         /\ \A i \in 1..Len(Chain(t)) : Route(t)[i] = Chain(t)[i]
         /\ Route(t)[Len(Chain(t)) + 1] = ResolvedHandler(t)
         /\ Head(Route(t)) = Route(t)[1]
<1>1. Chain(t) \in Seq(Target)
  BY ChainType DEF Target
<1>2. ResolvedHandler(t) \in Target
  BY HandlerType, KindsApart
<1>3. Route(t) = Append(Chain(t), ResolvedHandler(t))
  BY DEF Route
<1> QED BY <1>1, <1>2, <1>3

LEMMA HeadOfRoute ==
  ASSUME NEW t \in Sends
  PROVE  LET x == Head(Route(t)) IN
           \/ x \in Instance /\ InChain(t, x)
           \/ x = ResolvedHandler(t)
<1>1. Len(Chain(t)) \in Nat /\ DOMAIN Chain(t) = 1..Len(Chain(t))
  BY ChainType
<1>2. CASE Len(Chain(t)) = 0
  BY <1>2, RouteType
<1>3. CASE Len(Chain(t)) > 0
  <2>1. 1 \in 1..Len(Chain(t))
    BY <1>1, <1>3
  <2>2. Head(Route(t)) = Chain(t)[1] /\ Chain(t)[1] \in Instance
    BY <2>1, RouteType, ChainType
  <2> QED BY <1>1, <2>1, <2>2 DEF InChain
<1> QED BY <1>1, <1>2, <1>3

LEMMA LastAtExists ==
  ASSUME NEW t \in Sends, NEW x, InChain(t, x)
  PROVE  /\ LastAt(Chain(t), x) \in 1..Len(Chain(t))
         /\ Chain(t)[LastAt(Chain(t), x)] = x
         /\ \A j \in 1..Len(Chain(t)) :
              Chain(t)[j] = x => j <= LastAt(Chain(t), x)
<1> DEFINE n == Len(Chain(t))
           S == {i \in 1..n : Chain(t)[i] = x}
<1>1. n \in Nat /\ DOMAIN Chain(t) = 1..n
  BY ChainType
<1>2. S # {}
  BY <1>1 DEF InChain
<1>3. PICK m \in S : \A k \in S : k <= m
  BY <1>1, <1>2, IndexMax
<1>4. \E i \in DOMAIN Chain(t) :
        /\ Chain(t)[i] = x
        /\ \A j \in DOMAIN Chain(t) : Chain(t)[j] = x => j <= i
  BY <1>1, <1>3
<1> QED BY <1>1, <1>4 DEF LastAt

(* What linking writes: the guards of the message, and no other, are made  *)
(* to point to a callable further along its route.                         *)
LEMMA LinkedInside ==
  ASSUME NEW t \in Sends, NEW x \in Instance, InChain(t, x)
  PROVE  \E k \in 1..Len(Chain(t)) :
           /\ Chain(t)[k] = x
           /\ k = LastAt(Chain(t), x)
           /\ Linked(t)[x] = Route(t)[k + 1]
           /\ Linked(t)[x] \in Target
           /\ k < Len(Chain(t)) => Linked(t)[x] = Chain(t)[k + 1]
           /\ k = Len(Chain(t)) => Linked(t)[x] = ResolvedHandler(t)
<1> DEFINE k == LastAt(Chain(t), x)
<1>1. k \in 1..Len(Chain(t)) /\ Chain(t)[k] = x
  BY LastAtExists
<1>2. Linked(t)[x] = Route(t)[k + 1]
  BY DEF Linked
<1> HIDE DEF k
<1>3. Len(Chain(t)) \in Nat
  BY ChainType
<1>4. k + 1 \in 1..Len(Route(t)) /\ Route(t)[k + 1] \in Target
  BY <1>1, <1>3, RouteType
<1>5. /\ k < Len(Chain(t)) => Route(t)[k + 1] = Chain(t)[k + 1]
      /\ k = Len(Chain(t)) => Route(t)[k + 1] = ResolvedHandler(t)
  BY <1>1, <1>3, RouteType
<1> QED BY <1>1, <1>2, <1>4, <1>5 DEF k

LEMMA LinkedOutside ==
  ASSUME NEW t \in Sends, NEW x \in Instance, ~ InChain(t, x)
  PROVE  Linked(t)[x] = next[x]
BY DEF Linked

LEMMA LinkedStaysInside ==
  ASSUME NEW t \in Sends, NEW x \in Instance, InChain(t, x)
  PROVE  \/ Linked(t)[x] \in Instance /\ InChain(t, Linked(t)[x])
         \/ Linked(t)[x] \notin Instance /\ Linked(t)[x] = ResolvedHandler(t)
<1>1. PICK k \in 1..Len(Chain(t)) :
        /\ k < Len(Chain(t)) => Linked(t)[x] = Chain(t)[k + 1]
        /\ k = Len(Chain(t)) => Linked(t)[x] = ResolvedHandler(t)
  BY LinkedInside
<1> DEFINE n == Len(Chain(t))
<1>0. n \in Nat
  BY ChainType
<1>2. k = n \/ (k + 1 \in 1..n /\ k < n)
  <2> HIDE DEF n
  <2>1. k \in 1..n
    BY DEF n
  <2> QED BY <1>0, <2>1
<1>3. CASE k = Len(Chain(t))
  BY <1>1, <1>3, HandlerType, KindsApart
<1>4. CASE k + 1 \in 1..Len(Chain(t)) /\ k < Len(Chain(t))
  BY <1>1, <1>4, ChainType DEF InChain
<1> QED BY <1>2, <1>3, <1>4

LEMMA LinkedType ==
  ASSUME NEW t \in Sends, next \in [Instance -> Target \cup {None}]
  PROVE  Linked(t) \in [Instance -> Target \cup {None}]
<1>1. ASSUME NEW x \in Instance PROVE Linked(t)[x] \in Target \cup {None}
  BY LinkedInside, LinkedOutside
<1>2. Linked(t) = [x \in Instance |-> Linked(t)[x]]
  BY DEF Linked
<1> QED BY <1>1, <1>2

-----------------------------------------------------------------------------
(* The stack of guards that a message is inside of.                        *)

LEMMA Push ==
  ASSUME NEW S, NEW s \in Seq(S), NEW x \in S
  PROVE  /\ <<x>> \o s \in Seq(S)
         /\ <<x>> \o s # <<>>
         /\ Head(<<x>> \o s) = x
         /\ Len(<<x>> \o s) = Len(s) + 1
         /\ (<<x>> \o s)[1] = x
         /\ \A i \in 1..Len(s) + 1 : i # 1 => (<<x>> \o s)[i] = s[i - 1]
OBVIOUS

LEMMA Pop ==
  ASSUME NEW S, NEW s \in Seq(S), s # <<>>
  PROVE  /\ Head(s) \in S
         /\ Head(s) = s[1]
         /\ 1 \in DOMAIN s
         /\ Tail(s) \in Seq(S)
         /\ Len(Tail(s)) = Len(s) - 1
         /\ \A i \in 1..Len(s) - 1 : Tail(s)[i] = s[i + 1]
OBVIOUS

-----------------------------------------------------------------------------
(* Type correctness.  A message that is inside a guard has that guard on   *)
(* its stack: without it Head and Tail would be taken of nothing.          *)

Inside == {"guard", "forward", "post"}

Deep == \A t \in Sends : pc[t] \in Inside => stack[t] # <<>>

TypeInv == TypeOK /\ Deep

LEMMA EnterTypeInv ==
  ASSUME TypeInv, NEW t \in Sends, NEW x \in Target, Enter(t, x)
  PROVE  /\ pc' \in [Sends -> Pc]
         /\ stack' \in [Sends -> Seq(Instance)]
         /\ running' \in Sends \cup {NoTask}
         /\ trail' \in [Sends -> Seq(Target)]
         /\ Deep'
<1>1. trail' \in [Sends -> Seq(Target)]
  BY DEF TypeInv, TypeOK, Enter
<1>2. CASE x.kind = "handler"
  <2>1. /\ pc' = [pc EXCEPT ![t] = "handling"]
        /\ running' = NoTask
        /\ stack' = stack
    BY <1>2 DEF Enter
  <2> QED BY <1>1, <2>1 DEF TypeInv, TypeOK, Deep, Pc, Inside
<1>3. CASE x.kind = "guard"
  <2>1. x \in Instance
    BY <1>3, KindsApart DEF Target
  <2>2. /\ stack' = [stack EXCEPT ![t] = <<x>> \o @]
        /\ \/ pc' = [pc EXCEPT ![t] = "forward"] /\ running' = t
           \/ pc' = [pc EXCEPT ![t] = "guard"] /\ running' = NoTask
    BY <1>3 DEF Enter
  <2>3. <<x>> \o stack[t] \in Seq(Instance) /\ <<x>> \o stack[t] # <<>>
    BY <2>1, Push DEF TypeInv, TypeOK
  <2> QED BY <1>1, <2>2, <2>3 DEF TypeInv, TypeOK, Deep, Pc, Inside
<1> QED BY <1>2, <1>3 DEF Enter

LEMMA RaiseTypeInv ==
  ASSUME TypeInv, NEW t \in Sends, NEW e \in Outcome, Raise(t, e)
  PROVE  TypeInv'
BY DEF Raise, TypeInv, TypeOK, Deep, Pc, Inside

LEMMA LeaveType ==
  ASSUME TypeInv, NEW t \in Sends, stack[t] # <<>>, Leave(t)
  PROVE  stack' \in [Sends -> Seq(Instance)]
<1>1. stack[t] \in Seq(Instance)
  BY DEF TypeInv, TypeOK
<1>2. Tail(stack[t]) \in Seq(Instance)
  BY <1>1, Pop
<1> QED BY <1>2 DEF Leave, TypeInv, TypeOK

LEMMA ReturnTypeInv ==
  ASSUME TypeInv, NEW t \in Sends, Return(t),
         (stack[t] # <<>> /\ Leave(t)) \/ UNCHANGED stack
  PROVE  TypeInv'
<1>1. stack' \in [Sends -> Seq(Instance)]
  BY LeaveType DEF TypeInv, TypeOK
<1>2. \A u \in Sends \ {t} : stack'[u] = stack[u]
  BY DEF TypeInv, TypeOK, Leave
<1> QED BY <1>1, <1>2 DEF Return, TypeInv, TypeOK, Deep, Pc, Inside, Outcome

LEMMA TypeInvStep ==
  ASSUME TypeInv, [Next]_vars
  PROVE  TypeInv'
<1>1. ASSUME NEW t \in Sends, Send(t) PROVE TypeInv'
  BY <1>1 DEF Send, At, TypeInv, TypeOK, Deep, Pc, Inside
<1>2. ASSUME NEW t \in Sends, ResolveHandler(t) PROVE TypeInv'
  BY <1>2 DEF ResolveHandler, At, TypeInv, TypeOK, Deep, Pc, Inside
<1>3. ASSUME NEW t \in Sends, Unregistered(t) PROVE TypeInv'
  BY <1>3, RaiseTypeInv DEF Unregistered, Outcome
<1>4. ASSUME NEW t \in Sends, ResolveFails(t) \/ UserRaises(t) PROVE TypeInv'
  BY <1>4, RaiseTypeInv DEF ResolveFails, UserRaises, Outcome
<1>5. ASSUME NEW t \in Sends, ChainGuards(t) PROVE TypeInv'
  <2>1. Head(Route(t)) \in Target
    BY RouteType, ChainType
  <2>2. next' \in [Instance -> Target \cup {None}]
    BY <1>5, LinkedType DEF ChainGuards, TypeInv, TypeOK
  <2>3. clock' \in Nat /\ turn' \in [Sends -> Nat]
    BY <1>5 DEF ChainGuards, TypeInv, TypeOK
  <2> QED BY <1>5, <2>1, <2>2, <2>3, EnterTypeInv
          DEF ChainGuards, TypeInv, TypeOK
<1>6. ASSUME NEW t \in Sends, Forward(t) PROVE TypeInv'
  <2>1. stack[t] \in Seq(Instance) /\ stack[t] # <<>>
    BY <1>6 DEF Forward, At, TypeInv, TypeOK, Deep, Inside
  <2>2. next[Head(stack[t])] \in Target \cup {None}
    BY <2>1, Pop DEF TypeInv, TypeOK
  <2>3. CASE next[Head(stack[t])] = None
    BY <1>6, <2>3, RaiseTypeInv DEF Forward, Outcome
  <2>4. CASE next[Head(stack[t])] # None
    BY <1>6, <2>2, <2>4, EnterTypeInv DEF Forward, TypeInv, TypeOK
  <2> QED BY <2>3, <2>4
<1>7. ASSUME NEW t \in Sends,
             ShortCircuit(t) \/ HandlerReturns(t) \/ PostReturns(t) \/ Catch(t)
      PROVE  TypeInv'
  <2>1. (stack[t] # <<>> /\ Leave(t)) \/ UNCHANGED stack
    BY <1>7 DEF ShortCircuit, HandlerReturns, PostReturns, Catch, At,
                TypeInv, Deep, Inside
  <2> QED BY <1>7, <2>1, ReturnTypeInv
          DEF ShortCircuit, HandlerReturns, PostReturns, Catch
<1>8. ASSUME NEW t \in Sends, PostHandle(t) PROVE TypeInv'
  BY <1>8 DEF PostHandle, At, TypeInv, TypeOK, Deep, Pc, Inside
<1>9. ASSUME NEW t \in Sends, Propagate(t) PROVE TypeInv'
  <2>1. stack' \in [Sends -> Seq(Instance)]
    BY <1>9, LeaveType DEF Propagate
  <2>2. \A u \in Sends \ {t} : stack'[u] = stack[u]
    BY <1>9 DEF Propagate, Leave, TypeInv, TypeOK
  <2> QED BY <1>9, <2>1, <2>2
          DEF Propagate, At, TypeInv, TypeOK, Deep, Pc, Inside
<1>10. ASSUME NEW t \in Sends, Finish(t) PROVE TypeInv'
  BY <1>10 DEF Finish, At, TypeInv, TypeOK, Deep, Pc, Inside
<1>11. CASE UNCHANGED vars
  BY <1>11 DEF vars, TypeInv, TypeOK, Deep
<1> QED
  BY <1>1, <1>2, <1>3, <1>4, <1>5, <1>6, <1>7, <1>8, <1>9, <1>10, <1>11
  DEF Next, Step, Quiescent

LEMMA TypeInvInit == Init => TypeInv
BY ConstantsAssumption DEF Init, TypeInv, TypeOK, Deep, Inside, Pc, Outcome

LEMMA TypeInvHolds == Spec => []TypeInv
BY TypeInvInit, TypeInvStep, PTL DEF Spec

(* Every variable of the path of a command keeps its type, in every        *)
(* interleaving of any number of sends (Anywise.send).                     *)
THEOREM TypeCorrect == Spec => []TypeOK
<1>1. TypeInv => TypeOK
  BY DEF TypeInv
<1> QED BY <1>1, TypeInvHolds, PTL

-----------------------------------------------------------------------------
(* What a step may do: link a chain, enter the next callable, find none,   *)
(* or leave the links and the trails alone and the stacks no higher.       *)

Held(t) == {stack[t][i] : i \in 1..Len(stack[t])}

Quiet ==
  /\ UNCHANGED <<next, trail, clock, turn>>
  /\ \A u \in Sends : \/ stack'[u] = stack[u]
                      \/ stack[u] # <<>> /\ stack'[u] = Tail(stack[u])
  /\ \A u \in Sends : outcome'[u] # "DunglingGuardError" \/ outcome'[u] = outcome[u]

LEMMA LeaveFrame ==
  ASSUME TypeInv, NEW t \in Sends, Leave(t)
  PROVE  /\ stack'[t] = Tail(stack[t])
         /\ \A u \in Sends \ {t} : stack'[u] = stack[u]
BY DEF Leave, TypeInv, TypeOK

LEMMA RaiseQuiet ==
  ASSUME TypeInv, NEW t \in Sends, NEW e, e # "DunglingGuardError", Raise(t, e)
  PROVE  Quiet
BY DEF Raise, Quiet, TypeInv, TypeOK

LEMMA ReturnQuiet ==
  ASSUME TypeInv, NEW t \in Sends, Return(t),
         (stack[t] # <<>> /\ Leave(t)) \/ UNCHANGED stack
  PROVE  Quiet
<1>1. \A u \in Sends : \/ stack'[u] = stack[u]
                       \/ stack[u] # <<>> /\ stack'[u] = Tail(stack[u])
  BY LeaveFrame
<1> QED BY <1>1 DEF Return, Quiet, TypeInv, TypeOK

LEMMA StepShape ==
  ASSUME TypeInv, [Next]_vars
  PROVE  \/ \E t \in Sends : ChainGuards(t)
         \/ \E t \in Sends : Forward(t)
         \/ Quiet
<1>1. ASSUME NEW t \in Sends,
             Send(t) \/ ResolveHandler(t) \/ PostHandle(t) \/ Finish(t)
      PROVE  Quiet
  BY <1>1 DEF Send, ResolveHandler, PostHandle, Finish, Quiet
<1>2. ASSUME NEW t \in Sends, Unregistered(t) \/ ResolveFails(t) \/ UserRaises(t)
      PROVE  Quiet
  BY <1>2, RaiseQuiet DEF Unregistered, ResolveFails, UserRaises, Errors
<1>3. ASSUME NEW t \in Sends,
             ShortCircuit(t) \/ HandlerReturns(t) \/ PostReturns(t) \/ Catch(t)
      PROVE  Quiet
  <2>1. (stack[t] # <<>> /\ Leave(t)) \/ UNCHANGED stack
    BY <1>3 DEF ShortCircuit, HandlerReturns, PostReturns, Catch, At,
                TypeInv, Deep, Inside
  <2> QED BY <1>3, <2>1, ReturnQuiet
          DEF ShortCircuit, HandlerReturns, PostReturns, Catch
<1>4. ASSUME NEW t \in Sends, Propagate(t) PROVE Quiet
  <2>1. stack[t] # <<>> /\ Leave(t)
    BY <1>4 DEF Propagate
  <2> QED BY <1>4, <2>1, LeaveFrame DEF Propagate, Quiet
<1>5. CASE UNCHANGED vars
  BY <1>5 DEF vars, Quiet
<1> QED BY <1>1, <1>2, <1>3, <1>4, <1>5 DEF Next, Step, Quiescent

LEMMA HeldQuiet ==
  ASSUME TypeInv, Quiet, NEW u \in Sends
  PROVE  Held(u)' \subseteq Held(u)
<1>1. CASE stack'[u] = stack[u]
  BY <1>1 DEF Held
<1>2. CASE stack[u] # <<>> /\ stack'[u] = Tail(stack[u])
  <2>1. stack[u] \in Seq(Instance)
    BY DEF TypeInv, TypeOK
  <2>2. /\ Len(stack[u]) \in Nat
        /\ Len(Tail(stack[u])) = Len(stack[u]) - 1
        /\ \A i \in 1..Len(stack[u]) - 1 : Tail(stack[u])[i] = stack[u][i + 1]
    BY <1>2, <2>1, Pop
  <2> QED BY <1>2, <2>2 DEF Held
<1> QED BY <1>1, <1>2 DEF Quiet

LEMMA HeldEnter ==
  ASSUME TypeInv, NEW t \in Sends, NEW x \in Target, Enter(t, x), NEW u \in Sends
  PROVE  \/ Held(u)' \subseteq Held(u)
         \/ u = t /\ x \in Instance /\ Held(u)' \subseteq Held(u) \cup {x}
<1>1. CASE stack'[u] = stack[u]
  BY <1>1 DEF Held
<1>2. CASE stack'[u] # stack[u]
  <2>1. u = t /\ x.kind = "guard" /\ stack'[t] = <<x>> \o stack[t]
    BY <1>2 DEF Enter, TypeInv, TypeOK
  <2>2. x \in Instance
    BY <2>1, KindsApart DEF Target
  <2>3. stack[t] \in Seq(Instance)
    BY DEF TypeInv, TypeOK
  <2>4. /\ Len(stack[t]) \in Nat
        /\ Len(stack'[t]) = Len(stack[t]) + 1
        /\ stack'[t][1] = x
        /\ \A i \in 1..Len(stack[t]) + 1 : i # 1 => stack'[t][i] = stack[t][i - 1]
    BY <2>1, <2>2, <2>3, Push
  <2>5. Held(t)' \subseteq Held(t) \cup {x}
    <3> SUFFICES ASSUME NEW i \in 1..Len(stack'[t]), i # 1
                 PROVE  stack'[t][i] \in Held(t)
      BY <2>4 DEF Held
    <3>1. i - 1 \in 1..Len(stack[t])
      BY <2>4
    <3> QED BY <2>4, <3>1 DEF Held
  <2> QED BY <2>1, <2>2, <2>5
<1> QED BY <1>1, <1>2

LEMMA HeadHeld ==
  ASSUME TypeInv, NEW t \in Sends, stack[t] # <<>>
  PROVE  Head(stack[t]) \in Held(t) /\ Head(stack[t]) \in Instance
<1>1. stack[t] \in Seq(Instance)
  BY DEF TypeInv, TypeOK
<1> QED BY <1>1, Pop DEF Held

LEMMA HeldType ==
  ASSUME TypeInv, NEW t \in Sends
  PROVE  Held(t) \subseteq Instance
<1>1. stack[t] \in Seq(Instance)
  BY DEF TypeInv, TypeOK
<1> QED BY <1>1 DEF Held

LEMMA ForwardInside ==
  ASSUME TypeInv, NEW t \in Sends, Forward(t)
  PROVE  stack[t] # <<>> /\ next[Head(stack[t])] \in Target \cup {None}
<1>1. stack[t] # <<>>
  BY DEF Forward, At, TypeInv, Deep, Inside
<1> QED BY <1>1, HeadHeld DEF TypeInv, TypeOK

-----------------------------------------------------------------------------
(* No guard dangles.  Two strengthenings make it inductive: a guard that   *)
(* another one links to has a link itself, and so has every guard that a   *)
(* message is inside of.  Linking keeps both, since it gives a link to     *)
(* every guard of a chain and takes none away.                             *)

Supported == \A x \in Instance : next[x] \in Instance => next[next[x]] # None

HeldLinked == \A t \in Sends : \A x \in Held(t) : next[x] # None

DanglingInv == Supported /\ HeldLinked /\ NoDangling

LEMMA LinkedKeeps ==
  ASSUME NEW t \in Sends, NEW x \in Instance, InChain(t, x) \/ next[x] # None
  PROVE  Linked(t)[x] # None
BY LinkedInside, LinkedOutside, KindsApart, ConstantsAssumption

LEMMA EnterDangling ==
  ASSUME TypeInv, DanglingInv, NEW t \in Sends, NEW x \in Target, Enter(t, x),
         x \in Instance => next'[x] # None,
         \A y \in Instance : next[y] # None => next'[y] # None
  PROVE  HeldLinked'
<1> SUFFICES ASSUME NEW u \in Sends, NEW y \in Held(u)' PROVE next'[y] # None
  BY DEF HeldLinked
<1>1. y \in Held(u) \/ (y = x /\ x \in Instance)
  BY HeldEnter
<1> QED BY <1>1, HeldType DEF DanglingInv, HeldLinked

LEMMA DanglingStep ==
  ASSUME TypeInv, DanglingInv, [Next]_vars
  PROVE  DanglingInv'
<1>1. ASSUME NEW t \in Sends, ChainGuards(t) PROVE DanglingInv'
  <2>1. next' = Linked(t) /\ Enter(t, Head(Route(t))) /\ UNCHANGED outcome
    BY <1>1 DEF ChainGuards
  <2>2. \A y \in Instance : InChain(t, y) \/ next[y] # None => next'[y] # None
    BY <2>1, LinkedKeeps
  <2>3. Supported'
    <3> SUFFICES ASSUME NEW x \in Instance, next'[x] \in Instance
                 PROVE  next'[next'[x]] # None
      BY DEF Supported
    <3>1. CASE InChain(t, x)
      <4>1. InChain(t, next'[x])
        BY <2>1, <3>1, LinkedStaysInside
      <4> QED BY <2>2, <4>1
    <3>2. CASE ~ InChain(t, x)
      <4>1. next'[x] = next[x] /\ next[next[x]] # None
        BY <2>1, <3>2, LinkedOutside DEF DanglingInv, Supported
      <4> QED BY <2>2, <4>1
    <3> QED BY <3>1, <3>2
  <2>4. Head(Route(t)) \in Target
    BY HeadOfRoute, HandlerType, KindsApart
  <2>5. HeldLinked'
    BY <2>1, <2>2, <2>4, HeadOfRoute, HandlerType, KindsApart, EnterDangling
  <2> QED BY <2>1, <2>3, <2>5 DEF DanglingInv, NoDangling
<1>2. ASSUME NEW t \in Sends, Forward(t) PROVE DanglingInv'
  <2> DEFINE x == next[Head(stack[t])]
  <2>1. Head(stack[t]) \in Held(t) /\ Head(stack[t]) \in Instance
    BY <1>2, ForwardInside, HeadHeld
  <2>2. x # None /\ x \in Target /\ (x \in Instance => next[x] # None)
    BY <1>2, <2>1, ForwardInside DEF DanglingInv, HeldLinked, Supported
  <2>3. Enter(t, x) /\ UNCHANGED <<next, outcome>>
    BY <1>2, <2>2 DEF Forward
  <2>4. HeldLinked'
    BY <2>2, <2>3, EnterDangling
  <2> QED BY <2>3, <2>4 DEF DanglingInv, Supported, NoDangling
<1>3. ASSUME Quiet PROVE DanglingInv'
  <2>1. HeldLinked'
    BY <1>3, HeldQuiet DEF Quiet, DanglingInv, HeldLinked
  <2> QED BY <1>3, <2>1 DEF Quiet, DanglingInv, Supported, NoDangling
<1> QED BY <1>1, <1>2, <1>3, StepShape

LEMMA DanglingInit == Init => DanglingInv
BY ConstantsAssumption, KindsApart
DEF Init, DanglingInv, Supported, HeldLinked, Held, NoDangling

(* Whatever the guards and however many messages relink them at once, no   *)
(* send ends in the DunglingGuardError of Guard.__call__: the error that   *)
(* is "most likely a bug" (errors.py) cannot come from Anywise.send.       *)
THEOREM NeverDangling == Spec => []NoDangling
<1>1. TypeInv /\ DanglingInv /\ [Next]_vars => DanglingInv'
  BY DanglingStep
<1>2. DanglingInv => NoDangling
  BY DEF DanglingInv
<1> QED BY <1>1, <1>2, DanglingInit, TypeInvHolds, PTL DEF Spec

-----------------------------------------------------------------------------
(* The links never close a cycle.  Acyclic is inductive by itself: if some *)
(* guards linked only to each other after a chain was linked, either none  *)
(* of them is in the chain, and they did so before; or the one of them     *)
(* that is last in the chain links to one further along it, or to the      *)
(* handler.                                                                *)

LEMMA LinkedAcyclic ==
  ASSUME NEW t \in Sends, Acyclic, next' = Linked(t)
  PROVE  Acyclic'
<1> SUFFICES ASSUME NEW S \in SUBSET {x \in Instance : next'[x] # None},
                    \A x \in S : next'[x] \in S,
                    S # {}
             PROVE  FALSE
  BY DEF Acyclic
<1> DEFINE n == Len(Chain(t))
           P == {i \in 1..n : Chain(t)[i] \in S}
<1>1. n \in Nat /\ DOMAIN Chain(t) = 1..n
  BY ChainType
<1>2. CASE P = {}
  <2>1. \A x \in S : ~ InChain(t, x)
    BY <1>1, <1>2 DEF InChain
  <2>2. \A x \in S : next'[x] = next[x]
    BY <2>1, LinkedOutside
  <2> QED BY <2>2 DEF Acyclic
<1>3. CASE P # {}
  <2>1. PICK m \in P : \A k \in P : k <= m
    BY <1>1, <1>3, IndexMax
  <2> DEFINE x == Chain(t)[m]
  <2>2. x \in S /\ x \in Instance /\ InChain(t, x)
    BY <1>1, <2>1 DEF InChain
  <2>3. PICK k \in 1..n : /\ Chain(t)[k] = x
                          /\ k = LastAt(Chain(t), x)
                          /\ k < n => next'[x] = Chain(t)[k + 1]
                          /\ k = n => next'[x] = ResolvedHandler(t)
    BY <2>2, LinkedInside
  <2>4. next'[x] \in S
    BY <2>2
  <2>5. CASE k = n
    BY <2>3, <2>4, <2>5, HandlerType, KindsApart
  <2>6. CASE k < n
    <3>1. k + 1 \in P
      BY <1>1, <2>3, <2>4, <2>6
    <3>2. m <= k
      BY <1>1, <2>1, <2>2, <2>3, LastAtExists
    <3> QED BY <1>1, <2>1, <3>1, <3>2
  <2> QED BY <1>1, <2>3, <2>5, <2>6
<1> QED BY <1>2, <1>3

LEMMA AcyclicStep ==
  ASSUME TypeInv, Acyclic, [Next]_vars
  PROVE  Acyclic'
<1>1. ASSUME NEW t \in Sends, ChainGuards(t) PROVE Acyclic'
  BY <1>1, LinkedAcyclic DEF ChainGuards
<1>2. ASSUME NEW t \in Sends, Forward(t) PROVE UNCHANGED next
  BY <1>2 DEF Forward, Raise
<1>3. ASSUME Quiet PROVE UNCHANGED next
  BY <1>3 DEF Quiet
<1>4. ASSUME UNCHANGED next PROVE Acyclic'
  BY <1>4 DEF Acyclic
<1> QED BY <1>1, <1>2, <1>3, <1>4, StepShape

(* However many types share guards, in whatever orders, relinking them for *)
(* one message after another never closes a cycle of guards in which a     *)
(* message would be handed round for ever (HandlerManager._chain_guards).  *)
THEOREM NeverCyclic == Spec => []Acyclic
<1>1. Init => Acyclic
  BY DEF Init, Acyclic
<1>2. TypeInv /\ Acyclic /\ [Next]_vars => Acyclic'
  BY AcyclicStep
<1> QED BY <1>1, <1>2, TypeInvHolds, PTL DEF Spec

-----------------------------------------------------------------------------
(* What a message has visited.                                             *)

Visited(t) == {trail[t][i] : i \in 1..Len(trail[t])}

Starting == {"idle", "scoped", "resolving"}

Answered(t) ==
  \E x \in Visited(t) : x \in Handler \/ x.obj \in ClassGuards

Fresh == \A t \in Sends : pc[t] \in Starting => trail[t] = <<>> /\ stack[t] = <<>>

HeldVisited == \A t \in Sends : Held(t) \subseteq Visited(t)

ResponseMeant ==
  \A t \in Sends :
    /\ pc[t] = "handling" => \E x \in Visited(t) : x \in Handler
    /\ pc[t] \in {"return", "post"} => outcome[t] = "response" /\ Answered(t)

TrailInv == Fresh /\ HeldVisited /\ ResponseMeant

LEMMA EnterVisited ==
  ASSUME TypeInv, NEW t \in Sends, NEW x \in Target, Enter(t, x)
  PROVE  /\ Visited(t)' = Visited(t) \cup {x}
         /\ \A u \in Sends \ {t} : /\ Visited(u)' = Visited(u)
                                   /\ trail'[u] = trail[u]
                                   /\ stack'[u] = stack[u]
                                   /\ pc'[u] = pc[u]
         /\ (x \in Handler /\ pc'[t] = "handling") \/ pc'[t] \in {"guard", "forward"}
<1>1. trail' = [trail EXCEPT ![t] = Append(@, x)] /\ trail[t] \in Seq(Target)
  BY DEF Enter, TypeInv, TypeOK
<1>2. /\ Len(trail[t]) \in Nat
      /\ Len(trail'[t]) = Len(trail[t]) + 1
      /\ trail'[t][Len(trail[t]) + 1] = x
      /\ \A i \in 1..Len(trail[t]) : trail'[t][i] = trail[t][i]
  BY <1>1 DEF TypeInv, TypeOK
<1>3. Visited(t)' = Visited(t) \cup {x}
  BY <1>2 DEF Visited
<1>4. \A u \in Sends \ {t} : trail'[u] = trail[u]
  BY <1>1 DEF TypeInv, TypeOK
<1>5. \A u \in Sends \ {t} : stack'[u] = stack[u] /\ pc'[u] = pc[u]
  BY DEF Enter, TypeInv, TypeOK
<1>6. (x \in Handler /\ pc'[t] = "handling") \/ pc'[t] \in {"guard", "forward"}
  BY KindsApart DEF Enter, Target, TypeInv, TypeOK
<1>7. \A u \in Sends \ {t} : Visited(u)' = Visited(u)
  BY <1>4 DEF Visited
<1> QED BY <1>3, <1>4, <1>5, <1>6, <1>7

LEMMA EnterTrailInv ==
  ASSUME TypeInv, TrailInv, NEW t \in Sends, NEW x \in Target, Enter(t, x),
         UNCHANGED outcome
  PROVE  TrailInv'
<1>1. Fresh'
  BY EnterVisited DEF TrailInv, Fresh, Starting
<1>2. HeldVisited'
  <2> SUFFICES ASSUME NEW u \in Sends PROVE Held(u)' \subseteq Visited(u)'
    BY DEF HeldVisited
  <2> QED BY HeldEnter, EnterVisited DEF TrailInv, HeldVisited
<1>3. \A u \in Sends \ {t} : Answered(u)' <=> Answered(u)
  BY EnterVisited DEF Answered
<1>4. ResponseMeant'
  BY <1>3, EnterVisited DEF TrailInv, ResponseMeant
<1> QED BY <1>1, <1>2, <1>4 DEF TrailInv

(* The steps that visit nothing need only explain the new place of their   *)
(* message.                                                                *)
LEMMA QuietTrailInv ==
  ASSUME TypeInv, TrailInv, Quiet, NEW t \in Sends,
         \A u \in Sends \ {t} : pc'[u] = pc[u] /\ outcome'[u] = outcome[u],
         pc'[t] \in Starting => pc[t] \in Starting,
         pc'[t] # "handling",
         pc'[t] \in {"return", "post"} => outcome'[t] = "response" /\ Answered(t)
  PROVE  TrailInv'
<1>1. \A u \in Sends : Visited(u)' = Visited(u) /\ (Answered(u)' <=> Answered(u))
  BY DEF Quiet, Visited, Answered
<1>2. HeldVisited'
  BY <1>1, HeldQuiet DEF TrailInv, HeldVisited
<1>3. Fresh'
  BY DEF TrailInv, Fresh, Quiet
<1>4. ResponseMeant'
  BY <1>1 DEF TrailInv, ResponseMeant
<1> QED BY <1>2, <1>3, <1>4 DEF TrailInv

LEMMA TrailStep ==
  ASSUME TypeInv, TrailInv, [Next]_vars
  PROVE  TrailInv'
<1>1. ASSUME NEW t \in Sends, ChainGuards(t) PROVE TrailInv'
  <2>1. Head(Route(t)) \in Target
    BY HeadOfRoute, HandlerType, KindsApart
  <2> QED BY <1>1, <2>1, EnterTrailInv DEF ChainGuards
<1>2. ASSUME NEW t \in Sends, Raise(t, "error") \/ Raise(t, "CancelledError")
               \/ Raise(t, "UnregisteredMessageError")
      PROVE  TrailInv'
  <2>1. Quiet
    BY <1>2, RaiseQuiet
  <2>2. /\ \A u \in Sends \ {t} : pc'[u] = pc[u] /\ outcome'[u] = outcome[u]
        /\ pc'[t] = "raise"
    BY <1>2 DEF Raise, TypeInv, TypeOK
  <2> QED BY <2>1, <2>2, QuietTrailInv DEF Starting
<1>3. ASSUME NEW t \in Sends, Forward(t) PROVE TrailInv'
  <2> DEFINE x == next[Head(stack[t])]
  <2>1. CASE x # None
    <3>1. x \in Target /\ Enter(t, x) /\ UNCHANGED outcome
      BY <1>3, <2>1, ForwardInside DEF Forward
    <3> QED BY <3>1, EnterTrailInv
  <2>2. CASE x = None
    <3>1. Raise(t, "DunglingGuardError")
      BY <1>3, <2>2 DEF Forward
    <3>2. /\ \A u \in Sends \ {t} : pc'[u] = pc[u] /\ outcome'[u] = outcome[u]
          /\ pc'[t] = "raise"
          /\ UNCHANGED <<trail, stack>>
      BY <3>1 DEF Raise, TypeInv, TypeOK
    <3>3. \A u \in Sends : /\ Visited(u)' = Visited(u) /\ Held(u)' = Held(u)
                           /\ Answered(u)' <=> Answered(u)
      BY <3>2 DEF Visited, Held, Answered
    <3> QED BY <3>2, <3>3 DEF TrailInv, Fresh, HeldVisited, ResponseMeant, Starting
  <2> QED BY <2>1, <2>2
<1>4. ASSUME NEW t \in Sends, Send(t) \/ ResolveHandler(t) \/ PostHandle(t) \/ Finish(t)
      PROVE  TrailInv'
  <2>1. Quiet
    BY <1>4 DEF Send, ResolveHandler, PostHandle, Finish, Quiet
  <2>2. /\ \A u \in Sends \ {t} : pc'[u] = pc[u]
        /\ UNCHANGED outcome
    BY <1>4 DEF Send, ResolveHandler, PostHandle, Finish, TypeInv, TypeOK
  <2>3. \/ pc[t] \in Starting /\ pc'[t] \in Starting
        \/ pc[t] = "return" /\ pc'[t] = "post"
        \/ pc'[t] = "done"
    BY <1>4 DEF Send, ResolveHandler, PostHandle, Finish, At, Starting, TypeInv, TypeOK
  <2> QED BY <2>1, <2>2, <2>3, QuietTrailInv DEF TrailInv, ResponseMeant, Starting
<1>5. ASSUME NEW t \in Sends,
             ShortCircuit(t) \/ HandlerReturns(t) \/ PostReturns(t) \/ Catch(t)
      PROVE  TrailInv'
  <2>1. (stack[t] # <<>> /\ Leave(t)) \/ UNCHANGED stack
    BY <1>5 DEF ShortCircuit, HandlerReturns, PostReturns, Catch, At,
                TypeInv, Deep, Inside
  <2>2. Quiet
    BY <1>5, <2>1, ReturnQuiet
    DEF ShortCircuit, HandlerReturns, PostReturns, Catch
  <2>3. /\ \A u \in Sends \ {t} : pc'[u] = pc[u] /\ outcome'[u] = outcome[u]
        /\ pc'[t] = "return" /\ outcome'[t] = "response"
    BY <1>5 DEF ShortCircuit, HandlerReturns, PostReturns, Catch, Return,
                TypeInv, TypeOK
  <2>4. Answered(t)
    <3>1. CASE ShortCircuit(t) \/ Catch(t)
      <4>1. stack[t] # <<>> /\ Head(stack[t]).obj \in ClassGuards
        BY <3>1 DEF ShortCircuit, Catch, At, TypeInv, Deep, Inside
      <4> QED BY <4>1, HeadHeld DEF TrailInv, HeldVisited, Answered
    <3>2. CASE HandlerReturns(t) \/ PostReturns(t)
      BY <3>2 DEF HandlerReturns, PostReturns, At, TrailInv, ResponseMeant, Answered
    <3> QED BY <1>5, <3>1, <3>2
  <2> QED BY <2>2, <2>3, <2>4, QuietTrailInv DEF Starting
<1>6. ASSUME NEW t \in Sends, Propagate(t) PROVE TrailInv'
  <2>1. stack[t] # <<>> /\ Leave(t) /\ pc[t] = "raise" /\ UNCHANGED <<pc, outcome>>
    BY <1>6 DEF Propagate, At
  <2>2. Quiet
    BY <1>6, <2>1, LeaveFrame DEF Propagate, Quiet
  <2> QED BY <2>1, <2>2, QuietTrailInv DEF Starting
<1>7. ASSUME UNCHANGED vars PROVE TrailInv'
  <2>1. \A u \in Sends : /\ Visited(u)' = Visited(u) /\ Held(u)' = Held(u)
                         /\ Answered(u)' <=> Answered(u)
    BY <1>7 DEF vars, Visited, Held, Answered
  <2> QED BY <1>7, <2>1 DEF vars, TrailInv, Fresh, HeldVisited, ResponseMeant
<1>8. ASSUME NEW t \in Sends, Unregistered(t) \/ ResolveFails(t) \/ UserRaises(t)
      PROVE  TrailInv'
  BY <1>2, <1>8 DEF Unregistered, ResolveFails, UserRaises, Errors
<1> QED
  BY <1>1, <1>3, <1>4, <1>5, <1>6, <1>7, <1>8 DEF Next, Step, Quiescent

LEMMA TrailInvHolds == Spec => []TrailInv
<1>1. Init => TrailInv
  BY DEF Init, TrailInv, Fresh, HeldVisited, ResponseMeant, Held, Visited
<1>2. TypeInv /\ TrailInv /\ [Next]_vars => TrailInv'
  BY TrailStep
<1> QED BY <1>1, <1>2, TypeInvHolds, PTL DEF Spec

(* A post_handle is only run on a response, and only for a message that    *)
(* was handled or answered for by a BaseGuard subclass: no exception or    *)
(* cancellation on its way back through Guard.__call__ triggers it.        *)
THEOREM PostHandleOnlyOnResponse == Spec => []PostOnlyAfterHandled
<1>1. TypeInv /\ TrailInv => PostOnlyAfterHandled
  <2> SUFFICES ASSUME TypeInv, TrailInv, NEW t \in Sends, pc[t] = "post"
               PROVE  /\ outcome[t] = "response"
                      /\ \E i \in DOMAIN trail[t] :
                           trail[t][i] \in Handler \/ trail[t][i].obj \in ClassGuards
    BY DEF PostOnlyAfterHandled
  <2>1. outcome[t] = "response" /\ Answered(t)
    BY DEF TrailInv, ResponseMeant
  <2>2. DOMAIN trail[t] = 1..Len(trail[t])
    BY DEF TypeInv, TypeOK
  <2> QED BY <2>1, <2>2 DEF Answered, Visited
<1> QED BY <1>1, TypeInvHolds, TrailInvHolds, PTL

-----------------------------------------------------------------------------
(* No stale handler.  The witness of the invariant ranks every guard by    *)
(* the message that last linked it: ranks never decrease along the links,  *)
(* none exceeds the turn of the handler that the links end in, and every   *)
(* guard that a message is inside of is ranked no lower than its turn.     *)

Ranked(w) ==
  /\ \A x \in Instance : w[x] <= clock
  /\ \A x \in Instance : next[x] \in Instance => w[x] <= w[next[x]]
  /\ \A x \in Instance : \A u \in Sends :
       next[x] = ResolvedHandler(u) => w[x] <= turn[u]
  /\ \A t \in Sends : turn[t] <= clock /\ \A x \in Held(t) : turn[t] <= w[x]

NeverEarlier ==
  \A t, u \in Sends : ResolvedHandler(u) \in Visited(t) => turn[t] <= turn[u]

StaleInv == NeverEarlier /\ \E w \in [Instance -> Nat] : Ranked(w)

LEMMA HandlerInjective ==
  ASSUME NEW t \in Sends, NEW u \in Sends, ResolvedHandler(t) = ResolvedHandler(u)
  PROVE  t = u
BY DEF ResolvedHandler

LEMMA StaleChain ==
  ASSUME TypeInv, TrailInv, StaleInv, NEW t \in Sends, ChainGuards(t)
  PROVE  StaleInv'
<1> DEFINE h == Head(Route(t))
<1>1. /\ next' = Linked(t)
      /\ clock' = clock + 1
      /\ turn' = [turn EXCEPT ![t] = clock + 1]
      /\ Enter(t, h)
      /\ pc[t] \in Starting
  BY DEF ChainGuards, At, Starting
<1>2. h \in Target
  BY HeadOfRoute, HandlerType, KindsApart
<1>3. (h \in Instance /\ InChain(t, h)) \/ h = ResolvedHandler(t)
  BY HeadOfRoute
<1> HIDE DEF h
<1>4. PICK w \in [Instance -> Nat] : Ranked(w)
  BY DEF StaleInv
<1>5. /\ clock \in Nat
      /\ \A u \in Sends : turn[u] \in Nat /\ turn'[u] \in Nat /\ turn[u] <= turn'[u]
      /\ turn'[t] = clock + 1
      /\ \A u \in Sends \ {t} : turn'[u] = turn[u]
  BY <1>1, <1>4 DEF TypeInv, TypeOK, Ranked
<1>6. Held(t) = {} /\ Visited(t) = {}
  BY <1>1 DEF TrailInv, Fresh, Held, Visited
<1>7. PICK v \in [Instance -> Nat] :
        /\ \A x \in Instance : InChain(t, x) => v[x] = clock + 1
        /\ \A x \in Instance : ~ InChain(t, x) => v[x] = w[x]
        /\ \A x \in Instance : w[x] <= v[x] /\ v[x] <= clock + 1
  <2> DEFINE v == [x \in Instance |-> IF InChain(t, x) THEN clock + 1 ELSE w[x]]
  <2>1. v \in [Instance -> Nat]
    BY <1>5
  <2>2. \A x \in Instance : w[x] <= v[x] /\ v[x] <= clock + 1
    BY <1>4, <1>5 DEF Ranked
  <2> QED BY <2>1, <2>2
<1>8. Ranked(v)'
  <2>1. ASSUME NEW x \in Instance, next'[x] \in Instance
        PROVE  v[x] <= v[next'[x]]
    <3>1. CASE InChain(t, x)
      <4>1. InChain(t, next'[x])
        BY <1>1, <2>1, <3>1, LinkedStaysInside
      <4> QED BY <1>5, <1>7, <2>1, <3>1, <4>1
    <3>2. CASE ~ InChain(t, x)
      <4>1. next'[x] = next[x] /\ w[x] <= w[next[x]]
        BY <1>1, <1>4, <2>1, <3>2, LinkedOutside DEF Ranked
      <4>2. w[x] \in Nat /\ w[next'[x]] \in Nat /\ v[next'[x]] \in Nat
        BY <1>4, <1>7, <2>1
      <4> QED BY <1>7, <2>1, <3>2, <4>1, <4>2
    <3> QED BY <3>1, <3>2
  <2>2. ASSUME NEW x \in Instance, NEW u \in Sends, next'[x] = ResolvedHandler(u)
        PROVE  v[x] <= turn'[u]
    <3>1. CASE InChain(t, x)
      <4>1. next'[x] = ResolvedHandler(t)
        <5>1. next'[x] \notin Instance
          BY <2>2, HandlerType, KindsApart
        <5> QED BY <1>1, <3>1, <5>1, LinkedStaysInside
      <4>2. u = t
        BY <2>2, <4>1, HandlerInjective
      <4> QED BY <1>5, <1>7, <3>1, <4>2
    <3>2. CASE ~ InChain(t, x)
      <4>1. w[x] <= turn[u]
        BY <1>1, <1>4, <2>2, <3>2, LinkedOutside DEF Ranked
      <4>2. w[x] \in Nat
        BY <1>4
      <4> QED BY <1>5, <1>7, <3>2, <4>1, <4>2
    <3> QED BY <3>1, <3>2
  <2>3. ASSUME NEW u \in Sends, NEW x \in Held(u)'
        PROVE  turn'[u] <= v[x]
    <3>1. CASE u = t
      <4>1. x = h /\ x \in Instance
        BY <1>1, <1>2, <1>6, <2>3, <3>1, HeldEnter
      <4>2. InChain(t, x)
        BY <1>3, <4>1, HandlerType, KindsApart
      <4> QED BY <1>5, <1>7, <3>1, <4>1, <4>2
    <3>2. CASE u # t
      <4>1. x \in Held(u)
        BY <1>1, <1>2, <2>3, <3>2, HeldEnter
      <4>2. x \in Instance /\ turn[u] <= w[x] /\ w[x] \in Nat /\ v[x] \in Nat
        BY <1>4, <1>7, <4>1, HeldType DEF Ranked
      <4> QED BY <1>5, <1>7, <3>2, <4>2
    <3> QED BY <3>1, <3>2
  <2>4. \A u \in Sends : turn'[u] <= clock + 1
    BY <1>4, <1>5 DEF Ranked
  <2> QED BY <1>1, <1>7, <2>1, <2>2, <2>3, <2>4 DEF Ranked
<1>9. NeverEarlier'
  <2> SUFFICES ASSUME NEW s \in Sends, NEW u \in Sends,
                      ResolvedHandler(u) \in Visited(s)'
               PROVE  turn'[s] <= turn'[u]
    BY DEF NeverEarlier, ResolvedHandler
  <2>1. CASE s = t
    <3>1. ResolvedHandler(u) = h
      BY <1>1, <1>2, <1>6, <2>1, EnterVisited
    <3>2. u = t
      BY <1>3, <3>1, HandlerType, KindsApart, HandlerInjective
    <3> QED BY <1>5, <2>1, <3>2
  <2>2. CASE s # t
    <3>1. turn[s] <= turn[u]
      BY <1>1, <1>2, <2>2, EnterVisited DEF StaleInv, NeverEarlier
    <3> QED BY <1>5, <2>2, <3>1
  <2> QED BY <2>1, <2>2
<1> QED BY <1>7, <1>8, <1>9 DEF StaleInv

LEMMA StaleForward ==
  ASSUME TypeInv, StaleInv, NEW t \in Sends, Forward(t)
  PROVE  StaleInv'
<1> DEFINE g == Head(stack[t])
           x == next[g]
<1>1. g \in Held(t) /\ g \in Instance /\ x \in Target \cup {None}
  BY ForwardInside, HeadHeld
<1>2. UNCHANGED <<next, clock, turn>>
  BY DEF Forward, Raise
<1>3. PICK w \in [Instance -> Nat] : Ranked(w)
  BY DEF StaleInv
<1>4. CASE x = None
  <2>1. UNCHANGED <<stack, trail>>
    BY <1>4 DEF Forward, Raise
  <2>2. \A u \in Sends : Held(u)' = Held(u) /\ Visited(u)' = Visited(u)
    BY <2>1 DEF Held, Visited
  <2>3. Ranked(w)'
    BY <1>2, <1>3, <2>2 DEF Ranked, ResolvedHandler
  <2> QED BY <1>2, <2>2, <2>3 DEF StaleInv, NeverEarlier, ResolvedHandler
<1>5. CASE x # None
  <2>1. x \in Target /\ Enter(t, x)
    BY <1>1, <1>5 DEF Forward
  <2>2. turn[t] <= w[g] /\ turn[t] \in Nat /\ w[g] \in Nat
    BY <1>1, <1>3 DEF Ranked, TypeInv, TypeOK
  <2>3. ASSUME NEW u \in Sends, NEW y \in Held(u)' PROVE turn[u] <= w[y]
    <3>1. CASE y \in Held(u)
      BY <1>3, <3>1 DEF Ranked
    <3>2. CASE y \notin Held(u)
      <4>1. u = t /\ y = x /\ x \in Instance
        BY <2>1, <2>3, <3>2, HeldEnter
      <4>2. w[g] <= w[x] /\ w[x] \in Nat
        BY <1>1, <1>3, <4>1 DEF Ranked
      <4> QED BY <2>2, <4>1, <4>2
    <3> QED BY <3>1, <3>2
  <2>4. Ranked(w)'
    BY <1>2, <1>3, <2>3 DEF Ranked, ResolvedHandler
  <2>5. NeverEarlier'
    <3> SUFFICES ASSUME NEW s \in Sends, NEW u \in Sends,
                        ResolvedHandler(u) \in Visited(s)'
                 PROVE  turn[s] <= turn[u]
      BY <1>2 DEF NeverEarlier, ResolvedHandler
    <3>1. CASE ResolvedHandler(u) \in Visited(s)
      BY <3>1 DEF StaleInv, NeverEarlier
    <3>2. CASE ResolvedHandler(u) \notin Visited(s)
      <4>1. s = t /\ x = ResolvedHandler(u)
        BY <2>1, <3>2, EnterVisited
      <4>2. w[g] <= turn[u] /\ turn[u] \in Nat
        BY <1>1, <1>3, <4>1 DEF Ranked, TypeInv, TypeOK
      <4> QED BY <2>2, <4>1, <4>2
    <3> QED BY <3>1, <3>2
  <2> QED BY <2>4, <2>5 DEF StaleInv
<1> QED BY <1>4, <1>5

LEMMA StaleQuiet ==
  ASSUME TypeInv, StaleInv, Quiet
  PROVE  StaleInv'
<1>1. PICK w \in [Instance -> Nat] : Ranked(w)
  BY DEF StaleInv
<1>2. \A u \in Sends : Held(u)' \subseteq Held(u) /\ Visited(u)' = Visited(u)
  BY HeldQuiet DEF Quiet, Visited
<1>3. Ranked(w)'
  BY <1>1, <1>2 DEF Quiet, Ranked, ResolvedHandler
<1>4. NeverEarlier'
  BY <1>2 DEF Quiet, StaleInv, NeverEarlier, ResolvedHandler
<1> QED BY <1>3, <1>4 DEF StaleInv

LEMMA StaleInit == Init => StaleInv
<1> SUFFICES ASSUME Init PROVE StaleInv
  OBVIOUS
<1>1. \A u \in Sends : Held(u) = {} /\ Visited(u) = {} /\ turn[u] = 0
  BY DEF Init, Held, Visited
<1>2. \A x \in Instance : next[x] = None
  BY DEF Init
<1> DEFINE w == [x \in Instance |-> 0]
<1>3. w \in [Instance -> Nat] /\ \A x \in Instance : w[x] = 0
  OBVIOUS
<1> HIDE DEF w
<1>4. Ranked(w)
  BY <1>1, <1>2, <1>3, KindsApart, HandlerType, ConstantsAssumption DEF Init, Ranked
<1> QED BY <1>1, <1>3, <1>4 DEF StaleInv, NeverEarlier

(* The handler that a message reaches was resolved for itself or for a     *)
(* message linked later, however many messages share its guards: relinking *)
(* in _chain_guards leaves no way back to the handler of an older message, *)
(* with the dependencies of a scope that may be over.                      *)
THEOREM NeverStale == Spec => []NoStaleHandler
<1>1. TypeInv /\ TrailInv /\ StaleInv /\ [Next]_vars => StaleInv'
  BY StaleChain, StaleForward, StaleQuiet, StepShape
<1>2. TypeInv /\ StaleInv => NoStaleHandler
  <2> SUFFICES ASSUME TypeInv, StaleInv, NEW t \in Sends, NEW u \in Sends,
                      NEW i \in DOMAIN trail[t], trail[t][i] = ResolvedHandler(u)
               PROVE  turn[t] <= turn[u]
    BY DEF NoStaleHandler
  <2>1. DOMAIN trail[t] = 1..Len(trail[t])
    BY DEF TypeInv, TypeOK
  <2> QED BY <2>1 DEF StaleInv, NeverEarlier, Visited
<1> QED BY <1>1, <1>2, StaleInit, TypeInvHolds, TrailInvHolds, PTL DEF Spec

-----------------------------------------------------------------------------
(* When do concurrent sends keep to what Pipeline promises?  When callers  *)
(* are careful, and no guard object is twice in the list of one message.   *)
NoRepeats ==
  \A t \in Sends : \A i, j \in 1..Len(Chain(t)) : Chain(t)[i] = Chain(t)[j] => i = j

(* Messages on their way at once share no more than leading post_handles.  *)
KeptApart ==
  \A t, u \in Sends : t # u => Idle(t) \/ Idle(u) \/ Independent(t, u)

(* The chain of a message, as it was linked, from where the message is.    *)
(* The guards it has passed may have been linked anew.                     *)
Intact(t) ==
  \A i \in 1..Len(Chain(t)) :
    Len(trail[t]) <= i => next[Chain(t)[i]] = Route(t)[i + 1]

(* How far a message has come along its route, at each place of a send.    *)
(* It rests only where another message may not take hold of what is ahead. *)
OnRoute(t) ==
  LET n == Len(trail[t]) IN
  /\ n <= Len(Chain(t)) + 1
  /\ \A i \in 1..n : trail[t][i] = Route(t)[i]
  /\ pc[t] \in {"guard", "forward"} =>
       /\ n \in 1..Len(Chain(t))
       /\ Head(stack[t]) = Chain(t)[n]
       /\ Intact(t)
  /\ pc[t] = "guard" => Chain(t)[n].obj \notin PostGuards
  /\ pc[t] = "forward" => running = t

Told(t) ==
  /\ pc[t] = "raise" => outcome[t] \notin {"pending", "response"}
  /\ TypeOf[t] \in HandlerMetas => outcome[t] # "UnregisteredMessageError"
  /\ TypeOf[t] \notin HandlerMetas =>
       /\ pc[t] \in {"idle", "scoped", "raise", "done"}
       /\ pc[t] = "raise" => outcome[t] = "UnregisteredMessageError"
       /\ stack[t] = <<>>
  /\ pc[t] # "idle" \/ outcome[t] = "pending"

RouteInv == KeptApart /\ \A t \in Sends : OnRoute(t) /\ Told(t)

-----------------------------------------------------------------------------
(* What two independent messages have in common.                           *)

LEMMA IndependentBoth ==
  ASSUME NEW t \in Sends, NEW u \in Sends, Independent(t, u)
  PROVE  Independent(u, t)
BY DEF Independent

LEMMA SharedLeads ==
  ASSUME NEW t \in Sends, NEW u \in Sends, Independent(t, u),
         NEW i \in 1..Len(Chain(t)), NEW j \in 1..Len(Chain(u)),
         Chain(t)[i] = Chain(u)[j]
  PROVE  \A k \in 1..i : Chain(t)[k].obj \in PostGuards
<1>1. \A v \in Sends : \A k \in 1..Len(Chain(v)) :
        /\ k \in DOMAIN CommandGuards(v)
        /\ Chain(v)[k].obj = CommandGuards(v)[k]
        /\ Chain(v)[k].of =
             IF CommandGuards(v)[k] \in ClassGuards THEN ScopeOf(v) ELSE NoScope
  BY ChainIs
<1>2. /\ CommandGuards(t)[i] = CommandGuards(u)[j]
      /\ CommandGuards(t)[i] \in ClassGuards => ScopeOf(t) = ScopeOf(u)
  BY <1>1
<1>3. LeadingPost(t, i)
  BY <1>1, <1>2 DEF Independent
<1>4. ASSUME NEW k \in 1..i PROVE Chain(t)[k].obj \in PostGuards
  <2>1. k \in 1..Len(Chain(t))
    BY ChainType
  <2> QED BY <1>1, <1>3, <2>1 DEF LeadingPost
<1> QED BY <1>4

-----------------------------------------------------------------------------
LEMMA RouteTarget ==
  ASSUME NEW t \in Sends
  PROVE  \A i \in 1..Len(Chain(t)) + 1 :
           /\ Route(t)[i] \in Target
           /\ Route(t)[i] \in Handler <=> i = Len(Chain(t)) + 1
           /\ Route(t)[i] # None
<1>1. Len(Chain(t)) \in Nat
  BY ChainType
<1> SUFFICES ASSUME NEW i \in 1..Len(Chain(t)) + 1
             PROVE  /\ Route(t)[i] \in Target
                    /\ Route(t)[i] \in Handler <=> i = Len(Chain(t)) + 1
                    /\ Route(t)[i] # None
  OBVIOUS
<1>2. CASE i = Len(Chain(t)) + 1
  BY <1>2, RouteType, HandlerType, KindsApart
<1>3. CASE i \in 1..Len(Chain(t))
  <2>1. Route(t)[i] \in Instance
    BY <1>3, RouteType, ChainType
  <2> QED BY <1>1, <1>3, <2>1, KindsApart
<1> QED BY <1>1, <1>2, <1>3

(* A step of one send disturbs nothing of another, save through the links. *)
LEMMA OthersFrame ==
  ASSUME TypeInv, NEW t \in Sends, Send(t) \/ Step(t), NEW u \in Sends \ {t}
  PROVE  /\ pc'[u] = pc[u] /\ stack'[u] = stack[u]
         /\ trail'[u] = trail[u] /\ outcome'[u] = outcome[u]
<1> USE DEF TypeInv, TypeOK
<1>1. CASE Send(t) \/ ResolveHandler(t) \/ PostHandle(t) \/ Finish(t)
  BY <1>1 DEF Send, ResolveHandler, PostHandle, Finish
<1>2. CASE Unregistered(t) \/ ResolveFails(t) \/ UserRaises(t)
  BY <1>2 DEF Unregistered, ResolveFails, UserRaises, Raise
<1>3. CASE ShortCircuit(t) \/ HandlerReturns(t) \/ PostReturns(t) \/ Catch(t) \/ Propagate(t)
  BY <1>3, LeaveFrame
  DEF ShortCircuit, HandlerReturns, PostReturns, Catch, Propagate, Return, Leave
<1>4. CASE ChainGuards(t)
  BY <1>4 DEF ChainGuards, Enter
<1>5. CASE Forward(t)
  BY <1>5 DEF Forward, Enter, Raise
<1> QED BY <1>1, <1>2, <1>3, <1>4, <1>5 DEF Step

LEMMA RunsAlone ==
  ASSUME NEW t \in Sends, Send(t) \/ Step(t)
  PROVE  CanRun(t) /\ (Step(t) => ~ Idle(t))
BY DEF Step, Send, ResolveHandler, Unregistered, ResolveFails, ChainGuards, Forward,
       ShortCircuit, HandlerReturns, UserRaises, PostHandle, PostReturns, Propagate,
       Catch, Finish, At, Idle

(* What lies ahead of a message that rests is not linked by another one.   *)
LEMMA AheadIsOurs ==
  ASSUME TypeInv, RouteInv, NEW u \in Sends, pc[u] = "guard",
         NEW t \in Sends \ {u}, ChainGuards(t),
         NEW i \in 1..Len(Chain(u)), Len(trail[u]) <= i
  PROVE  ~ InChain(t, Chain(u)[i])
<1>1. Independent(u, t)
  BY DEF RouteInv, KeptApart, Idle, ChainGuards, At
<1>2. Len(trail[u]) \in 1..i /\ Chain(u)[Len(trail[u])].obj \notin PostGuards
  BY DEF RouteInv, OnRoute
<1>3. ASSUME NEW j \in 1..Len(Chain(t)), Chain(t)[j] = Chain(u)[i] PROVE FALSE
  BY <1>1, <1>2, <1>3, SharedLeads
<1> QED BY <1>3, ChainType DEF InChain

LEMMA OthersOnRoute ==
  ASSUME TypeInv, RouteInv, NEW t \in Sends, Send(t) \/ Step(t),
         NEW u \in Sends \ {t}
  PROVE  OnRoute(u)' /\ Told(u)'
<1>1. /\ pc'[u] = pc[u] /\ stack'[u] = stack[u]
      /\ trail'[u] = trail[u] /\ outcome'[u] = outcome[u]
  BY OthersFrame
<1>2. pc[u] # "forward"
  BY RunsAlone, ConstantsAssumption DEF RouteInv, OnRoute, CanRun
<1>3. pc[u] = "guard" =>
        \A i \in 1..Len(Chain(u)) :
          Len(trail[u]) <= i => next'[Chain(u)[i]] = next[Chain(u)[i]]
  <2>1. CASE ChainGuards(t)
    <3>1. next' = Linked(t)
      BY <2>1 DEF ChainGuards
    <3> QED BY <2>1, <3>1, AheadIsOurs, LinkedOutside, ChainType
  <2>2. CASE ~ ChainGuards(t)
    <3>1. next' = next
      BY <2>2 DEF Step, Send, ResolveHandler, Unregistered, ResolveFails, Forward,
                  ShortCircuit, HandlerReturns, UserRaises, PostHandle, PostReturns,
                  Propagate, Catch, Finish, Raise, Return
    <3> QED BY <3>1
  <2> QED BY <2>1, <2>2
<1>4. OnRoute(u)'
  BY <1>1, <1>2, <1>3 DEF RouteInv, OnRoute, Intact
<1> QED BY <1>1, <1>4 DEF RouteInv, Told

LEMMA StayApart ==
  ASSUME TypeInv, RouteInv, [CarefulNext]_vars
  PROVE  KeptApart'
<1>0. KeptApart
  BY DEF RouteInv
<1>1. ASSUME NEW t \in Sends, Send(t),
             \A u \in Sends \ {t} : Idle(u) \/ Independent(t, u)
      PROVE  KeptApart'
  <2>1. \A u \in Sends \ {t} : Idle(u)' <=> Idle(u)
    BY <1>1, OthersFrame DEF Idle
  <2>2. \A u \in Sends \ {t} : Idle(u) \/ (Independent(t, u) /\ Independent(u, t))
    BY <1>1, IndependentBoth
  <2> QED BY <1>0, <2>1, <2>2 DEF KeptApart, Independent
<1>2. ASSUME NEW t \in Sends, Step(t) PROVE KeptApart'
  <2>1. \A u \in Sends \ {t} : Idle(u)' <=> Idle(u)
    BY <1>2, OthersFrame DEF Idle
  <2>2. ~ Idle(t)
    BY <1>2, RunsAlone
  <2> QED BY <1>0, <2>1, <2>2 DEF KeptApart
<1>3. ASSUME UNCHANGED vars PROVE KeptApart'
  BY <1>0, <1>3 DEF KeptApart, Idle, vars
<1> QED BY <1>1, <1>2, <1>3 DEF CarefulNext, Quiescent

-----------------------------------------------------------------------------
(* A message goes from one callable of its route to the next.              *)

LEMMA LinkedIntact ==
  ASSUME NEW t \in Sends, NoRepeats, next' = Linked(t)
  PROVE  \A i \in 1..Len(Chain(t)) : next'[Chain(t)[i]] = Route(t)[i + 1]
<1> SUFFICES ASSUME NEW i \in 1..Len(Chain(t))
             PROVE  next'[Chain(t)[i]] = Route(t)[i + 1]
  OBVIOUS
<1>1. Chain(t)[i] \in Instance /\ InChain(t, Chain(t)[i])
  BY ChainType DEF InChain
<1>2. PICK k \in 1..Len(Chain(t)) : /\ Chain(t)[k] = Chain(t)[i]
                                    /\ Linked(t)[Chain(t)[i]] = Route(t)[k + 1]
  BY <1>1, LinkedInside
<1>3. k = i
  BY <1>2 DEF NoRepeats
<1> QED BY <1>2, <1>3

LEMMA EnterOnRoute ==
  ASSUME TypeInv, RouteInv, NEW t \in Sends, UNCHANGED outcome,
         TypeOf[t] \in HandlerMetas,
         Len(trail[t]) <= Len(Chain(t)),
         \A i \in 1..Len(Chain(t)) :
           Len(trail[t]) < i => next'[Chain(t)[i]] = Route(t)[i + 1],
         Enter(t, Route(t)[Len(trail[t]) + 1])
  PROVE  /\ OnRoute(t)' /\ Told(t)'
         /\ trail'[t] = Append(trail[t], Route(t)[Len(trail[t]) + 1])
<1> DEFINE n == Len(trail[t])
           x == Route(t)[n + 1]
<1>1. n \in Nat /\ Len(Chain(t)) \in Nat /\ n + 1 \in 1..Len(Chain(t)) + 1
  BY ChainType DEF TypeInv, TypeOK
<1>2. x \in Target /\ (x \in Handler <=> n = Len(Chain(t)))
  BY <1>1, RouteTarget
<1>3. trail'[t] = Append(trail[t], x)
  BY DEF Enter, TypeInv, TypeOK
<1>4. /\ Len(trail'[t]) = n + 1
      /\ \A i \in 1..n : trail'[t][i] = trail[t][i]
      /\ trail'[t][n + 1] = x
  BY <1>1, <1>2, <1>3 DEF TypeInv, TypeOK
<1>5. \A i \in 1..n + 1 : trail'[t][i] = Route(t)[i]
  <2>1. \A i \in 1..n : trail[t][i] = Route(t)[i]
    BY DEF RouteInv, OnRoute
  <2> QED BY <1>1, <1>4, <2>1
<1>6. ASSUME pc'[t] \in {"guard", "forward"}
      PROVE  /\ n + 1 \in 1..Len(Chain(t)) /\ Head(stack'[t]) = Chain(t)[n + 1]
             /\ pc'[t] = "guard" => Chain(t)[n + 1].obj \notin PostGuards
             /\ pc'[t] = "forward" => running' = t
  <2>1. x.kind = "guard"
    BY <1>6 DEF Enter, TypeInv, TypeOK
  <2>2. x \in Instance /\ x \notin Handler
    BY <1>2, <2>1, KindsApart DEF Target
  <2>3. n + 1 \in 1..Len(Chain(t)) /\ x = Chain(t)[n + 1]
    BY <1>1, <1>2, <2>2, RouteType
  <2>4. stack'[t] = <<x>> \o stack[t]
    BY <2>1 DEF Enter, TypeInv, TypeOK
  <2>5. Head(stack'[t]) = x
    BY <2>2, <2>4, Push DEF TypeInv, TypeOK
  <2>6. /\ pc'[t] = "guard" => x.obj \notin PostGuards
        /\ pc'[t] = "forward" => running' = t
    BY <2>1 DEF Enter, TypeInv, TypeOK
  <2> QED BY <2>3, <2>5, <2>6
<1>a. Intact(t)'
  BY <1>1, <1>4 DEF Intact
<1>7. OnRoute(t)'
  BY <1>1, <1>4, <1>5, <1>6, <1>a DEF OnRoute
<1>8. pc'[t] \in {"guard", "forward", "handling"}
  BY DEF Enter, TypeInv, TypeOK
<1>9. Told(t)'
  BY <1>8 DEF RouteInv, Told
<1> QED BY <1>3, <1>7, <1>9

(* Linking, and each call of a guard's _next_guard, visits what comes next *)
(* on the route of the message.                                            *)
LEMMA ChainVisits ==
  ASSUME TypeInv, TrailInv, NoRepeats, RouteInv, NEW t \in Sends, ChainGuards(t)
  PROVE  /\ OnRoute(t)' /\ Told(t)'
         /\ trail[t] = <<>>
         /\ trail'[t] = Append(trail[t], Route(t)[Len(trail[t]) + 1])
<1>1. pc[t] = "resolving" /\ next' = Linked(t) /\ UNCHANGED outcome
  BY DEF ChainGuards, At
<1>2. trail[t] = <<>> /\ TypeOf[t] \in HandlerMetas
  BY <1>1 DEF TrailInv, Fresh, Starting, RouteInv, Told
<1>3. Len(trail[t]) = 0 /\ Len(Chain(t)) \in Nat
  BY <1>2, ChainType
<1>4. Enter(t, Route(t)[Len(trail[t]) + 1])
  BY <1>3, RouteType DEF ChainGuards
<1> QED BY <1>1, <1>2, <1>3, <1>4, LinkedIntact, EnterOnRoute

LEMMA ForwardVisits ==
  ASSUME TypeInv, RouteInv, NEW t \in Sends, Forward(t)
  PROVE  /\ OnRoute(t)' /\ Told(t)'
         /\ Len(trail[t]) \in 1..Len(Chain(t))
         /\ trail'[t] = Append(trail[t], Route(t)[Len(trail[t]) + 1])
         /\ pc'[t] # "done"
<1> DEFINE n == Len(trail[t])
<1>1. pc[t] \in {"guard", "forward"}
  BY DEF Forward, At
<1>2. n \in 1..Len(Chain(t)) /\ Head(stack[t]) = Chain(t)[n] /\ Intact(t)
  BY <1>1, ChainType DEF RouteInv, OnRoute
<1>3. next[Head(stack[t])] = Route(t)[n + 1]
  BY <1>2 DEF Intact
<1>4. n \in Nat /\ n <= Len(Chain(t)) /\ n + 1 \in 1..Len(Chain(t)) + 1
  BY <1>2, ChainType
<1>5. Route(t)[n + 1] # None
  BY <1>4, RouteTarget
<1>6. Enter(t, Route(t)[n + 1]) /\ UNCHANGED <<next, outcome>>
  BY <1>3, <1>5 DEF Forward
<1>7. \A i \in 1..Len(Chain(t)) : n < i => next'[Chain(t)[i]] = Route(t)[i + 1]
  BY <1>2, <1>4, <1>6 DEF Intact
<1>8. TypeOf[t] \in HandlerMetas
  BY <1>1 DEF RouteInv, Told
<1>9. pc'[t] # "done"
  BY <1>6 DEF Enter, TypeInv, TypeOK
<1> QED BY <1>2, <1>4, <1>6, <1>7, <1>8, <1>9, EnterOnRoute

(* Every other step of a send leaves its trail and the links alone, and    *)
(* does not go back to calling guards.                                     *)
LEMMA RestOnRoute ==
  ASSUME TypeInv, RouteInv, NEW t \in Sends, Send(t) \/ Step(t),
         ~ ChainGuards(t), ~ Forward(t)
  PROVE  OnRoute(t)' /\ Told(t)' /\ UNCHANGED <<next, trail>>
<1>1. UNCHANGED <<next, trail>>
  BY DEF Step, Send, ResolveHandler, Unregistered, ResolveFails, ShortCircuit,
         HandlerReturns, UserRaises, PostHandle, PostReturns, Propagate, Catch,
         Finish, Raise, Return
<1> USE DEF TypeInv, TypeOK, RouteInv, Told
<1>2. CASE Send(t) \/ ResolveHandler(t) \/ PostHandle(t) \/ Finish(t)
  <2>1. pc'[t] \notin {"guard", "forward"} /\ Told(t)'
    BY <1>2 DEF Send, ResolveHandler, PostHandle, Finish, At
  <2> QED BY <1>1, <2>1 DEF OnRoute, Intact
<1>3. CASE Unregistered(t) \/ ResolveFails(t) \/ UserRaises(t)
  <2>1. pc'[t] \notin {"guard", "forward"} /\ Told(t)'
    BY <1>3 DEF Unregistered, ResolveFails, UserRaises, Raise, At, Errors
  <2> QED BY <1>1, <2>1 DEF OnRoute, Intact
<1>4. CASE ShortCircuit(t) \/ HandlerReturns(t) \/ PostReturns(t)
  <2>1. pc'[t] \notin {"guard", "forward"} /\ Told(t)'
    BY <1>4 DEF ShortCircuit, HandlerReturns, PostReturns, Return, At
  <2> QED BY <1>1, <2>1 DEF OnRoute, Intact
<1>5. CASE Propagate(t)
  <2>1. pc'[t] \notin {"guard", "forward"} /\ Told(t)'
    BY <1>5 DEF Propagate, At
  <2> QED BY <1>1, <2>1 DEF OnRoute, Intact
<1>6. CASE Catch(t)
  <2>1. pc'[t] \notin {"guard", "forward"} /\ Told(t)'
    BY <1>6 DEF Catch, Return, At
  <2> QED BY <1>1, <2>1 DEF OnRoute, Intact
<1> QED BY <1>2, <1>3, <1>4, <1>5, <1>6 DEF Step

LEMMA CarefulIsNext == CarefulNext => Next
BY DEF CarefulNext, Next

LEMMA RouteStep ==
  ASSUME TypeInv, TrailInv, NoRepeats, RouteInv, [CarefulNext]_vars
  PROVE  RouteInv'
<1>1. ASSUME NEW t \in Sends, Send(t) \/ Step(t)
      PROVE  \A u \in Sends : OnRoute(u)' /\ Told(u)'
  <2>1. OnRoute(t)' /\ Told(t)'
    BY <1>1, ChainVisits, ForwardVisits, RestOnRoute
  <2>2. \A u \in Sends \ {t} : OnRoute(u)' /\ Told(u)'
    BY <1>1, OthersOnRoute
  <2> QED BY <2>1, <2>2
<1>2. ASSUME UNCHANGED vars PROVE \A u \in Sends : OnRoute(u)' /\ Told(u)'
  BY <1>2 DEF vars, RouteInv, OnRoute, Intact, Told
<1>3. KeptApart'
  BY StayApart
<1> QED BY <1>1, <1>2, <1>3 DEF RouteInv, CarefulNext, Quiescent

LEMMA RouteInit == Init => RouteInv
<1>1. ASSUME Init, NEW t \in Sends PROVE OnRoute(t) /\ Told(t)
  <2>1. Len(Chain(t)) \in Nat /\ Len(trail[t]) = 0
    BY <1>1, ChainType DEF Init
  <2> QED BY <1>1, <2>1 DEF Init, OnRoute, Told
<1>2. Init => KeptApart
  BY DEF Init, KeptApart, Idle
<1> QED BY <1>1, <1>2 DEF RouteInv

LEMMA CarefulIsSpec == CarefulSpec => Spec
BY CarefulIsNext, PTL DEF CarefulSpec, Spec

LEMMA RouteInvHolds == ASSUME NoRepeats PROVE CarefulSpec => []RouteInv
<1>1. TypeInv /\ TrailInv /\ RouteInv /\ [CarefulNext]_vars => RouteInv'
  BY RouteStep
<1> QED BY <1>1, RouteInit, CarefulIsSpec, TypeInvHolds, TrailInvHolds, PTL DEF CarefulSpec

-----------------------------------------------------------------------------
(* The refinement.  ChainGuards and Forward are visits; Finish concludes;  *)
(* the abstract state does not see any other step.                         *)

Verdict == [t \in Sends |-> IF pc[t] = "done" THEN outcome[t] ELSE "pending"]

LEMMA AnsweredOnRoute ==
  ASSUME TypeInv, RouteInv, NEW t \in Sends, Answered(t)
  PROVE  \/ Len(trail[t]) = Len(Route(t))
         \/ \E i \in DOMAIN trail[t] :
              trail[t][i] \in {x \in Instance : x.obj \in ClassGuards}
<1> DEFINE n == Len(trail[t])
<1>1. n \in Nat /\ DOMAIN trail[t] = 1..n /\ n <= Len(Chain(t)) + 1
      /\ Len(Chain(t)) \in Nat /\ Len(Route(t)) = Len(Chain(t)) + 1
  BY ChainType, RouteType DEF RouteInv, OnRoute, TypeInv, TypeOK
<1>2. PICK i \in 1..n : trail[t][i] \in Handler \/ trail[t][i].obj \in ClassGuards
  BY DEF Answered, Visited
<1>3. trail[t][i] = Route(t)[i] /\ trail[t][i] \in Target
  BY <1>1, <1>2, RouteTarget DEF RouteInv, OnRoute
<1>4. CASE trail[t][i] \in Handler
  <2>1. i = Len(Chain(t)) + 1
    BY <1>1, <1>3, <1>4, RouteTarget
  <2> QED BY <1>1, <2>1
<1>5. CASE trail[t][i] \notin Handler
  BY <1>1, <1>2, <1>3, <1>5 DEF Target
<1> QED BY <1>4, <1>5

LEMMA VisitMaps ==
  ASSUME TypeInv, NEW t \in Sends, TypeOf[t] \in HandlerMetas,
         pc[t] # "done", pc'[t] # "done",
         \A u \in Sends \ {t} : pc'[u] = pc[u] /\ outcome'[u] = outcome[u]
                                /\ trail'[u] = trail[u],
         DOMAIN trail' = Sends /\ trail' = [u \in Sends |-> trail'[u]],
         Len(trail[t]) < Len(Route(t)),
         trail'[t] = Append(trail[t], Route(t)[Len(trail[t]) + 1])
  PROVE  Abstract!Visit(t)
<1>1. Verdict' = Verdict /\ Verdict[t] = "pending"
  BY DEF Verdict
<1>2. trail' = [trail EXCEPT ![t] = Append(@, Route(t)[Len(@) + 1])]
  BY DEF TypeInv, TypeOK
<1> QED BY <1>1, <1>2 DEF Abstract!Visit, Verdict

LEMMA FinishMaps ==
  ASSUME TypeInv, TrailInv, DanglingInv, RouteInv, NEW t \in Sends, Finish(t)
  PROVE  \E v \in Abstract!Verdict \ {"pending"} : Abstract!Conclude(t, v)
<1>0. PICK v : v = outcome[t]
  OBVIOUS
<1>1. /\ pc[t] \in {"return", "raise"} /\ pc' = [pc EXCEPT ![t] = "done"]
      /\ UNCHANGED <<outcome, trail>>
  BY DEF Finish, At
<1>2. pc[t] = "return" => v = "response" /\ Answered(t)
  BY <1>0 DEF TrailInv, ResponseMeant
<1>3. v \in Abstract!Verdict \ {"pending"}
  <2>1. v \in Outcome /\ v # "DunglingGuardError" /\ v # "pending"
    BY <1>0, <1>1, <1>2 DEF TypeInv, TypeOK, DanglingInv, NoDangling, RouteInv, Told
  <2> QED BY <2>1 DEF Outcome, Errors, Abstract!Verdict
<1>4. v = "UnregisteredMessageError" <=> t \notin {u \in Sends : TypeOf[u] \in HandlerMetas}
  BY <1>0, <1>1 DEF RouteInv, Told
<1>5. v = "response" => Answered(t)
  BY <1>0, <1>1, <1>2 DEF RouteInv, Told
<1>6. v = "response" => Abstract!Answered(t)
  BY <1>5, AnsweredOnRoute DEF Abstract!Answered
<1>7. Verdict[t] = "pending" /\ Verdict' = [Verdict EXCEPT ![t] = v]
  BY <1>0, <1>1 DEF Verdict, TypeInv, TypeOK
<1>8. Abstract!Conclude(t, v)
  BY <1>1, <1>4, <1>6, <1>7 DEF Abstract!Conclude, Verdict
<1> QED BY <1>3, <1>8

LEMMA StepMaps ==
  ASSUME TypeInv, TrailInv, DanglingInv, NoRepeats, RouteInv, [Next]_vars
  PROVE  [Abstract!Next]_(Abstract!pvars)
<1>1. ASSUME NEW t \in Sends, ChainGuards(t) \/ Forward(t)
      PROVE  Abstract!Visit(t)
  <2>1. \A u \in Sends \ {t} : pc'[u] = pc[u] /\ outcome'[u] = outcome[u]
                               /\ trail'[u] = trail[u]
    BY <1>1, OthersFrame DEF Step
  <2>2. TypeInv'
    BY TypeInvStep
  <2>3. DOMAIN trail' = Sends /\ trail' = [u \in Sends |-> trail'[u]]
    BY <2>2 DEF TypeInv, TypeOK
  <2>4. /\ trail'[t] = Append(trail[t], Route(t)[Len(trail[t]) + 1])
        /\ Len(trail[t]) < Len(Route(t))
    <3>1. Len(Chain(t)) \in Nat /\ Len(Route(t)) = Len(Chain(t)) + 1
      BY ChainType, RouteType
    <3>2. CASE ChainGuards(t)
      BY <3>1, <3>2, ChainVisits
    <3>3. CASE Forward(t)
      BY <3>1, <3>3, ForwardVisits
    <3> QED BY <1>1, <3>2, <3>3
  <2>5. TypeOf[t] \in HandlerMetas /\ pc[t] # "done"
    BY <1>1 DEF ChainGuards, Forward, At, RouteInv, Told
  <2>6. pc'[t] # "done"
    BY <1>1, ForwardVisits DEF ChainGuards, Enter, TypeInv, TypeOK
  <2> QED BY <2>1, <2>3, <2>4, <2>5, <2>6, VisitMaps
<1>2. ASSUME NEW t \in Sends, Send(t) \/ Step(t),
             ~ ChainGuards(t), ~ Forward(t), ~ Finish(t)
      PROVE  UNCHANGED <<trail, Verdict>>
  <2>1. UNCHANGED trail
    BY <1>2, RestOnRoute
  <2>2. \A u \in Sends \ {t} : pc'[u] = pc[u] /\ outcome'[u] = outcome[u]
    BY <1>2, OthersFrame
  <2>3. pc[t] # "done" /\ pc'[t] # "done"
    BY <1>2 DEF Step, Send, ResolveHandler, Unregistered, ResolveFails, ShortCircuit,
         HandlerReturns, UserRaises, PostHandle, PostReturns, Propagate, Catch,
         Raise, Return, At, TypeInv, TypeOK
  <2> QED BY <2>1, <2>2, <2>3 DEF Verdict
<1>3. ASSUME UNCHANGED vars PROVE UNCHANGED <<trail, Verdict>>
  BY <1>3 DEF vars, Verdict
<1>4. ASSUME UNCHANGED <<trail, Verdict>> PROVE UNCHANGED Abstract!pvars
  BY <1>4 DEF Abstract!pvars, Verdict
<1>5. ASSUME NEW t \in Sends, Abstract!Visit(t) PROVE Abstract!Next
  BY <1>5 DEF Abstract!Next
<1>6. ASSUME NEW t \in Sends, Finish(t) PROVE Abstract!Next
  BY <1>6, FinishMaps DEF Abstract!Next
<1> QED BY <1>1, <1>2, <1>3, <1>4, <1>5, <1>6 DEF Next, Step, Quiescent

LEMMA InitMaps == Init => Abstract!Init
BY DEF Init, Abstract!Init

(* If callers are careful and no list has a guard object twice, concurrent *)
(* sends are Pipeline: every message visits its own guards, all of them    *)
(* and in order, then its own handler, and its caller gets a response only *)
(* if the handler, or a subclass that may answer, was reached.  (When      *)
(* callers are not careful this fails: the run `crossed' of                *)
(* MCHandlerManager is a counterexample.)                                  *)
THEOREM CarefulIsPipelined == ASSUME NoRepeats PROVE CarefulSpec => Pipelined
<1>1. TypeInv /\ TrailInv /\ DanglingInv /\ RouteInv /\ [Next]_vars
        => [Abstract!Next]_(Abstract!pvars)
  BY StepMaps
<1>2. Spec => []DanglingInv
  <2>1. TypeInv /\ DanglingInv /\ [Next]_vars => DanglingInv'
    BY DanglingStep
  <2> QED BY <2>1, DanglingInit, TypeInvHolds, PTL DEF Spec
<1>3. CarefulSpec => []RouteInv
  BY RouteInvHolds
<1> QED
  BY <1>1, <1>2, <1>3, CarefulIsSpec, InitMaps, TypeInvHolds, TrailInvHolds, PTL
  DEF Spec, Pipelined, Abstract!Spec

(* In particular the handler of a message is that of its own type, and it  *)
(* is reached past every guard of the message: what the run `crossed'      *)
(* refutes for callers that are not careful.                               *)
THEOREM CarefulHandling ==
  ASSUME NoRepeats PROVE CarefulSpec => [](HandledByItsType /\ EveryGuardRan)
<1>1. ASSUME TypeInv, RouteInv, NEW t \in Sends, NEW i \in DOMAIN trail[t],
             trail[t][i] \in Handler
      PROVE  /\ trail[t][i].obj = TypeOf[t]
             /\ \A g \in 1..Len(Chain(t)) : \E j \in 1..i : trail[t][j] = Chain(t)[g]
  <2>1. /\ i \in 1..Len(trail[t]) /\ Len(trail[t]) <= Len(Chain(t)) + 1
        /\ Len(trail[t]) \in Nat /\ Len(Chain(t)) \in Nat
    BY <1>1, ChainType DEF TypeInv, TypeOK, RouteInv, OnRoute
  <2>2. \A j \in 1..Len(trail[t]) : trail[t][j] = Route(t)[j]
    BY <1>1 DEF RouteInv, OnRoute
  <2>3. i = Len(Chain(t)) + 1
    BY <1>1, <2>1, <2>2, RouteTarget
  <2>4. trail[t][i].obj = TypeOf[t]
    <3>1. trail[t][i] = ResolvedHandler(t)
      BY <2>1, <2>2, <2>3, RouteType
    <3> QED BY <3>1 DEF ResolvedHandler
  <2>5. \A g \in 1..Len(Chain(t)) : g \in 1..i /\ trail[t][g] = Chain(t)[g]
    BY <2>1, <2>2, <2>3, RouteType
  <2> QED BY <2>4, <2>5
<1>2. TypeInv /\ RouteInv => HandledByItsType /\ EveryGuardRan
  BY <1>1 DEF HandledByItsType, EveryGuardRan
<1> QED BY <1>2, CarefulIsSpec, RouteInvHolds, TypeInvHolds, PTL

-----------------------------------------------------------------------------
(* No guard object is shared, nor twice in the list of one message: for    *)
(* example because all guards are classes, each once in a list, and every  *)
(* send has a scope of its own.                                            *)
Isolated ==
  \A t, u \in Sends : \A i \in 1..Len(Chain(t)) : \A j \in 1..Len(Chain(u)) :
    Chain(t)[i] = Chain(u)[j] => t = u /\ i = j

LEMMA IsolatedIsIndependent ==
  ASSUME Isolated, NEW t \in Sends, NEW u \in Sends \ {t}
  PROVE  Independent(t, u)
<1>1. ASSUME NEW i \in DOMAIN CommandGuards(t), NEW j \in DOMAIN CommandGuards(u),
             CommandGuards(t)[i] = CommandGuards(u)[j]
      PROVE  CommandGuards(t)[i] \in ClassGuards /\ ScopeOf(t) # ScopeOf(u)
  <2>1. i \in 1..Len(Chain(t)) /\ j \in 1..Len(Chain(u))
    BY ChainIs
  <2>2. Chain(t)[i] # Chain(u)[j]
    BY <2>1 DEF Isolated
  <2>3. Resolve(CommandGuards(t)[i], t) # Resolve(CommandGuards(u)[j], u)
    BY <2>1, <2>2, ChainIs
  <2> QED BY <1>1, <2>3 DEF Resolve
<1> QED BY <1>1 DEF Independent

(* When no guard object is shared, nobody need be careful: any             *)
(* interleaving of the sends is Pipeline.                                  *)
THEOREM IsolatedIsPipelined == ASSUME Isolated PROVE Spec => Pipelined
<1>1. NoRepeats
  BY DEF Isolated, NoRepeats
<1>2. Next => CarefulNext
  BY IsolatedIsIndependent DEF Next, CarefulNext
<1>3. Spec => CarefulSpec
  BY <1>2, PTL DEF Spec, CarefulSpec
<1> QED BY <1>1, <1>3, CarefulIsPipelined
=============================================================================
