---------------------------- MODULE AnywiseProofs ----------------------------
(***************************************************************************)
(* What a message gets while registries are filled and included around it, *)
(* for any number of messages, registries, classes and calls.  All of it   *)
(* rests on two facts of the registry's step: a call is added to the end   *)
(* of the history, and what was included stays where it was.               *)
(***************************************************************************)
EXTENDS Anywise, MessageRegistryProofs

Messages == Sends \cup Publishes

LEMMA TypesOfMessages ==
  ASSUME NEW m \in Messages
  PROVE  MessageType[m] \in Types /\ MessageType[m] # AnyType
BY MessageAssumption DEF Messages

(* The send s: what it was told and what it found.                         *)
SendInv(s) ==
  /\ handler[s] \in Meta \cup {MISSING}
  /\ chain[s] \in Seq(Guards)
  /\ pc[s] \in {"resolving", "ready"} =>
       /\ handler[s] # MISSING
       /\ handler[s] = Last(HandlersIncluded(Past(lookedUp[s]), MessageType[s]))
  /\ pc[s] = "ready" =>
       \E n \in lookedUp[s]..Len(calls) :
         chain[s] = GuardsIncluded(Past(n), AnyType)
                      \o GuardsIncluded(Past(n), MessageType[s])
  /\ pc[s] # "idle" /\ told[s].handler # MISSING =>
       MessageType[s] \in DOMAIN handler_metas
  /\ pc[s] = "UnregisteredMessageError" => told[s].handler = MISSING

(* ... the handler it is to have, h at the n-th call ...                   *)
HandlerSince(s, h, n) ==
  \/ h = told[s].handler
  \/ \E i \in told[s].at + 1..n : Gives(calls, i, MessageType[s], h)

(* ... and what of the handler and of the guards it was told is there      *)
(* still.                                                                  *)
ToldInv(s) ==
  pc[s] # "idle" =>
    /\ told[s].at \in 0..Len(calls)
    /\ \E g, t \in Seq(Guards) : /\ told[s].guards = g \o t
                                 /\ IsPrefix(g, global_guards)
                                 /\ IsPrefix(t, guards[MessageType[s]])
    /\ pc[s] = "called" => HandlerSince(s, InspectHandler(MessageType[s]), Len(calls))
    /\ pc[s] \in {"resolving", "ready"} => HandlerSince(s, handler[s], lookedUp[s])
    /\ pc[s] = "ready" => Within(told[s].guards, chain[s])

(* The publish p: what it was told and how far it got.                     *)
PublishInv(p) ==
  /\ resolved[p] \in Seq(Meta)
  /\ IsPrefix(resolved[p], listener_metas[MessageType[p]])
  /\ pc[p] # "idle" =>
       /\ told[p].listeners \in Seq(Meta)
       /\ IsPrefix(told[p].listeners, listener_metas[MessageType[p]])
  /\ pc[p] = "UnregisteredMessageError" => told[p].listeners = <<>>
  /\ pc[p] = "ready" => IsPrefix(told[p].listeners, resolved[p])

AnywiseInv ==
  /\ HistoryInv
  /\ pc \in [Messages -> Pc]
  /\ \A m \in Messages : lookedUp[m] \in 0..Len(calls)
  /\ told = [m \in Messages |-> told[m]]
  /\ lookedUp = [m \in Messages |-> lookedUp[m]]
  /\ handler = [s \in Sends |-> handler[s]]
  /\ chain = [s \in Sends |-> chain[s]]
  /\ resolved = [p \in Publishes |-> resolved[p]]
  /\ \A s \in Sends : SendInv(s) /\ ToldInv(s)
  /\ \A p \in Publishes : PublishInv(p)

LEMMA AnywiseInvMeans ==
  AnywiseInv => MessagesOK /\ GuardsOfOneMoment /\ ToldIsKept
<1> SUFFICES ASSUME AnywiseInv PROVE MessagesOK /\ GuardsOfOneMoment /\ ToldIsKept
  OBVIOUS
<1>1. MessagesOK
  <2>1. chain \in [Sends -> Seq(Guards)]
    BY DEF AnywiseInv, SendInv
  <2>2. resolved \in [Publishes -> Seq(Meta)]
    BY DEF AnywiseInv, PublishInv
  <2> QED BY <2>1, <2>2 DEF AnywiseInv, MessagesOK, SendInv, Messages
<1>2. GuardsOfOneMoment
  BY DEF AnywiseInv, GuardsOfOneMoment, SendInv
<1>3. ToldIsKept
  <2>1. ASSUME NEW s \in Sends
        PROVE  /\ pc[s] = "UnregisteredMessageError" => told[s].handler = MISSING
               /\ pc[s] \in {"resolving", "ready"} => HandlerSince(s, handler[s], lookedUp[s])
               /\ pc[s] = "ready" => Within(told[s].guards, chain[s])
    BY DEF AnywiseInv, SendInv, ToldInv
  <2>2. ASSUME NEW p \in Publishes
        PROVE  /\ pc[p] = "UnregisteredMessageError" => told[p].listeners = <<>>
               /\ IsPrefix(resolved[p], InspectListeners(MessageType[p]))
               /\ pc[p] = "ready" => IsPrefix(told[p].listeners, resolved[p])
    BY DEF AnywiseInv, PublishInv, InspectListeners
  <2> QED BY <2>1, <2>2 DEF ToldIsKept, HandlerSince
<1> QED BY <1>1, <1>2, <1>3

-----------------------------------------------------------------------------
LEMMA EmptyPrefix ==
  ASSUME NEW S, NEW s \in Seq(S)
  PROVE  IsPrefix(<<>>, s) /\ IsPrefix(s, s) /\ (IsPrefix(s, <<>>) => s = <<>>)
<1>1. <<>> \in Seq(S) /\ Len(<<>>) = 0 /\ Len(s) \in Nat
  BY EmptySeq, LenProperties
<1>2. Len(<<>>) <= Len(s) /\ \A i \in 1..Len(<<>>) : <<>>[i] = s[i]
  BY <1>1
<1>3. IsPrefix(<<>>, s)
  BY <1>1, <1>2, PrefixIs
<1>4. IsPrefix(s, s)
  BY <1>1 DEF IsPrefix
<1>5. IsPrefix(s, <<>>) => Len(s) = 0
  BY <1>1 DEF IsPrefix
<1> QED BY <1>3, <1>4, <1>5, EmptySeq

(* The history grows at its end, and so do the lists of listeners and of   *)
(* guards; a type that has a handler keeps it or is given another.         *)
Grown ==
  /\ \A n \in 0..Len(calls) : SubSeq(calls', 1, n) = SubSeq(calls, 1, n)
  /\ \A i \in 1..Len(calls) : calls'[i] = calls[i]
  /\ Len(calls) <= Len(calls')
  /\ \E u \in Seq(Guards) : global_guards' = global_guards \o u
  /\ \A t \in Types \ {AnyType} : \E u \in Seq(Guards) : guards'[t] = guards[t] \o u
  /\ \A t \in Types :
       \/ InspectHandler(t)' = InspectHandler(t)
       \/ \E i \in Len(calls) + 1..Len(calls') : Gives(calls', i, t, InspectHandler(t)')
  /\ DOMAIN handler_metas \subseteq DOMAIN handler_metas'
  /\ \A t \in Types : \E u \in Seq(Meta) : listener_metas'[t] = listener_metas[t] \o u

LEMMA AppendGrows ==
  ASSUME PastOK(calls), NEW c, CallOK(c), calls' = Append(calls, c)
  PROVE  /\ \A n \in 0..Len(calls) : SubSeq(calls', 1, n) = SubSeq(calls, 1, n)
         /\ \A i \in 1..Len(calls) : calls'[i] = calls[i]
         /\ Len(calls) \in Nat /\ Len(calls') = Len(calls) + 1
         /\ calls'[Len(calls) + 1] = c
         /\ Before(calls', Len(calls) + 1) = calls
<1>1. /\ Len(calls) \in Nat /\ Len(calls') = Len(calls) + 1
      /\ \A i \in 1..Len(calls) : calls'[i] = calls[i]
      /\ calls'[Len(calls) + 1] = c
  BY PastGrows
<1>2. ASSUME NEW n \in 0..Len(calls)
      PROVE  SubSeq(calls', 1, n) = SubSeq(calls, 1, n)
  <2>1. n + 1 \in 1..Len(calls) + 1 /\ (n + 1) - 1 = n
    BY <1>1
  <2>2. Before(calls', n + 1) = Before(calls, n + 1)
    BY <2>1, BeforeIs
  <2> QED BY <2>1, <2>2 DEF Before
<1>3. Before(calls', Len(calls) + 1) = calls
  <2>1. Len(calls) + 1 \in 1..Len(calls) + 1
    BY <1>1
  <2> QED BY <2>1, BeforeIs
<1> QED BY <1>1, <1>2, <1>3

LEMMA WhatIsIncludedGrows ==
  ASSUME HistoryInv, UNCHANGED anywise
  PROVE  /\ DOMAIN handler_metas \subseteq DOMAIN handler_metas'
         /\ \A t \in Types : InspectHandler(t)' = InspectHandler(t)
         /\ \E u \in Seq(Guards) : global_guards' = global_guards \o u
         /\ \A t \in Types \ {AnyType} : \E u \in Seq(Guards) : guards'[t] = guards[t] \o u
         /\ \A t \in Types : \E u \in Seq(Meta) : listener_metas'[t] = listener_metas[t] \o u
<1>1. UNCHANGED <<handler_metas, guards, global_guards, listener_metas>>
  BY DEF anywise
<1>2. /\ global_guards \in Seq(Guards)
      /\ \A t \in Types \ {AnyType} : guards[t] \in Seq(Guards)
      /\ \A t \in Types : listener_metas[t] \in Seq(Meta)
  BY DEF HistoryInv, TypeOK
<1>3. <<>> \in Seq(Meta) /\ <<>> \in Seq(Guards)
  BY EmptySeq
<1>4. /\ global_guards' = global_guards \o <<>>
      /\ \A t \in Types \ {AnyType} : guards'[t] = guards[t] \o <<>>
      /\ \A t \in Types : listener_metas'[t] = listener_metas[t] \o <<>>
  BY <1>1, <1>2, ConcatEmptySeq
<1> QED BY <1>1, <1>3, <1>4 DEF InspectHandler

LEMMA SameGrows ==
  ASSUME HistoryInv, UNCHANGED <<calls, anywise>>
  PROVE  Grown
<1>1. Len(calls) \in Nat
  BY LenProperties DEF HistoryInv, PastOK
<1>2. /\ \A n \in 0..Len(calls) : SubSeq(calls', 1, n) = SubSeq(calls, 1, n)
      /\ \A i \in 1..Len(calls) : calls'[i] = calls[i]
      /\ Len(calls) <= Len(calls')
  BY <1>1
<1>3. /\ \E u \in Seq(Guards) : global_guards' = global_guards \o u
      /\ \A t \in Types \ {AnyType} : \E u \in Seq(Guards) : guards'[t] = guards[t] \o u
      /\ DOMAIN handler_metas \subseteq DOMAIN handler_metas'
      /\ \A t \in Types : \E u \in Seq(Meta) : listener_metas'[t] = listener_metas[t] \o u
  BY WhatIsIncludedGrows
<1>4. \A t \in Types :
        \/ InspectHandler(t)' = InspectHandler(t)
        \/ \E i \in Len(calls) + 1..Len(calls') : Gives(calls', i, t, InspectHandler(t)')
  BY WhatIsIncludedGrows
<1> QED BY <1>2, <1>3, <1>4 DEF Grown

LEMMA IncludeGrows ==
  ASSUME HistoryInv, NEW r \in Registries, Include(r)
  PROVE  Grown
<1> DEFINE c == [call |-> "include", reg |-> r, what |-> <<>>, seen |-> defined,
                 raised |-> FALSE]
<1>1. /\ handler_metas' = Update(handler_metas, command_mapping[r])
      /\ global_guards' = global_guards \o guard_mapping[r][AnyType]
      /\ guards' = [t \in DOMAIN guards |-> guards[t] \o guard_mapping[r][t]]
      /\ listener_metas' = [t \in Types |-> listener_metas[t] \o event_mapping[r][t]]
      /\ calls' = Append(calls, c)
  BY DEF Include, IncludeGuards, IncludeListeners, Ends
<1>2. PastOK(calls) /\ TypeOK /\ defined \in SUBSET Types /\ LastHandlerWins
  BY DEF HistoryInv
<1>3. CallOK(c) /\ c.call = "include" /\ c.reg = r
  BY <1>2, EmptySeq DEF CallOK, CallRecord
<1> HIDE DEF c
<1>4. /\ \A n \in 0..Len(calls) : SubSeq(calls', 1, n) = SubSeq(calls, 1, n)
      /\ \A i \in 1..Len(calls) : calls'[i] = calls[i]
      /\ Len(calls) \in Nat /\ Len(calls') = Len(calls) + 1
      /\ calls'[Len(calls) + 1] = c
      /\ Before(calls', Len(calls) + 1) = calls
  BY <1>1, <1>2, <1>3, AppendGrows
<1>5. /\ \A t \in Types : \E u \in Seq(Meta) : listener_metas'[t] = listener_metas[t] \o u
      /\ \A t \in Types \ {AnyType} : \E u \in Seq(Guards) : guards'[t] = guards[t] \o u
      /\ \E u \in Seq(Guards) : global_guards' = global_guards \o u
  <2>1. \A t \in Types : event_mapping[r][t] \in Seq(Meta) /\ guard_mapping[r][t] \in Seq(Guards)
    BY <1>2 DEF TypeOK
  <2>2. AnyType \in Types /\ DOMAIN guards = Types \ {AnyType}
    BY <1>2, RegistryAssumption DEF TypeOK
  <2> QED BY <1>1, <2>1, <2>2
<1>6. DOMAIN handler_metas \subseteq DOMAIN handler_metas'
  BY <1>1 DEF Update
<1>7. ASSUME NEW t \in Types
      PROVE  \/ InspectHandler(t)' = InspectHandler(t)
             \/ \E i \in Len(calls) + 1..Len(calls') : Gives(calls', i, t, InspectHandler(t)')
  <2>1. HasLast(command_mapping[r], t, Handlers(calls, r, t))
    BY <1>2 DEF LastHandlerWins
  <2>2. CASE t \in DOMAIN command_mapping[r]
    <3>1. /\ handler_metas'[t] = command_mapping[r][t] /\ t \in DOMAIN handler_metas'
      BY <1>1, <2>2 DEF Update
    <3>2. /\ InspectHandler(t)' = Last(Handlers(calls, r, t))
          /\ Handlers(calls, r, t) # <<>>
      BY <2>1, <2>2, <3>1 DEF InspectHandler, HasLast
    <3>3. Gives(calls', Len(calls) + 1, t, InspectHandler(t)')
      <4>1. /\ calls'[Len(calls) + 1].call = "include" /\ calls'[Len(calls) + 1].reg = r
            /\ Before(calls', Len(calls) + 1) = calls
        BY <1>3, <1>4
      <4> DEFINE h == InspectHandler(t)'
                 n == Len(calls) + 1
                 held == Handlers(Before(calls', n), calls'[n].reg, t)
      <4>2. held # <<>> /\ h = Last(held)
        BY <3>2, <4>1
      <4> QED BY <4>1, <4>2 DEF Gives, InspectHandler
    <3>4. Len(calls) + 1 \in Len(calls) + 1..Len(calls')
      BY <1>4
    <3> QED BY <3>3, <3>4
  <2>3. CASE t \notin DOMAIN command_mapping[r]
    BY <1>1, <2>3 DEF Update, InspectHandler
  <2> QED BY <2>2, <2>3
<1>8. Len(calls) <= Len(calls')
  BY <1>4
<1> QED BY <1>4, <1>5, <1>6, <1>7, <1>8 DEF Grown

LEMMA RegistryGrows ==
  ASSUME HistoryInv, Next
  PROVE  Grown
<1>1. PastOK(calls) /\ defined \in SUBSET Types
  BY DEF HistoryInv
<1>2. ASSUME NEW c \in Types, Define(c) PROVE Grown
  BY <1>2, SameGrows DEF Define
<1>3. ASSUME NEW call \in {"register", "add_guards"}, NEW r \in Registries,
             NEW items \in Seq(Given), Collect(call, r, items)
      PROVE  Grown
  <2> DEFINE c == [call |-> call, reg |-> r, what |-> items, seen |-> defined,
                   raised |-> \E i \in DOMAIN items : Refused(r, items[i])]
  <2>1. UNCHANGED anywise /\ calls' = Append(calls, c)
    BY <1>3 DEF Collect, Ends
  <2>2. CallOK(c)
    BY <1>1 DEF CallOK, CallRecord
  <2> HIDE DEF c
  <2>3. /\ \A n \in 0..Len(calls) : SubSeq(calls', 1, n) = SubSeq(calls, 1, n)
        /\ \A i \in 1..Len(calls) : calls'[i] = calls[i]
        /\ Len(calls) <= Len(calls')
    BY <1>1, <2>1, <2>2, AppendGrows
  <2> QED BY <2>1, <2>3, WhatIsIncludedGrows DEF Grown
<1> QED BY <1>2, <1>3, CallsAreSequences, IncludeGrows DEF Next, Register, AddGuards

(* A message that does not move keeps what is true of it.                  *)
LEMMA SendStays ==
  ASSUME HistoryInv, Grown, NEW s \in Sends, SendInv(s), lookedUp[s] \in 0..Len(calls),
         /\ pc'[s] = pc[s] /\ handler'[s] = handler[s] /\ chain'[s] = chain[s]
         /\ told'[s] = told[s] /\ lookedUp'[s] = lookedUp[s]
  PROVE  SendInv(s)'
<1>2. \A n \in lookedUp[s]..Len(calls) : n \in 0..Len(calls)
  BY LenProperties DEF HistoryInv, PastOK
<1>3. \A n \in 0..Len(calls) : SubSeq(calls', 1, n) = SubSeq(calls, 1, n)
  BY DEF Grown
<1>4. pc[s] \in {"resolving", "ready"} =>
        /\ handler[s] # MISSING
        /\ handler[s] = Last(HandlersIncluded(SubSeq(calls', 1, lookedUp[s]), MessageType[s]))
  BY <1>3 DEF SendInv, Past
<1>5. ASSUME pc[s] = "ready"
      PROVE  \E n \in lookedUp[s]..Len(calls') :
               chain[s] = GuardsIncluded(SubSeq(calls', 1, n), AnyType)
                            \o GuardsIncluded(SubSeq(calls', 1, n), MessageType[s])
  <2>1. PICK n \in lookedUp[s]..Len(calls) :
          chain[s] = GuardsIncluded(SubSeq(calls, 1, n), AnyType)
                       \o GuardsIncluded(SubSeq(calls, 1, n), MessageType[s])
    BY <1>5 DEF SendInv, Past
  <2>2. n \in 0..Len(calls) /\ SubSeq(calls', 1, n) = SubSeq(calls, 1, n)
    BY <1>2, <1>3
  <2>3. n \in lookedUp[s]..Len(calls')
    <3>1. Len(calls) \in Nat
      BY LenProperties DEF HistoryInv, PastOK
    <3> QED BY <2>2, <3>1 DEF Grown
  <2> QED BY <2>1, <2>2, <2>3
<1> QED BY <1>4, <1>5 DEF SendInv, Past, Grown

(* A handler that an include gave was given by it.                         *)
LEMMA GivenStays ==
  ASSUME HistoryInv, Grown, NEW i \in 1..Len(calls), NEW t, NEW h, Gives(calls, i, t, h)
  PROVE  Gives(calls', i, t, h)
<1>1. i - 1 \in 0..Len(calls)
  BY LenProperties DEF HistoryInv, PastOK
<1>2. calls'[i] = calls[i] /\ Before(calls', i) = Before(calls, i)
  BY <1>1 DEF Grown, Before
<1> QED BY <1>2 DEF Gives

LEMMA SinceStays ==
  ASSUME HistoryInv, Grown, NEW s \in Sends, NEW h, NEW n \in 0..Len(calls),
         HandlerSince(s, h, n), told[s].at \in 0..Len(calls),
         NEW m \in n..Len(calls'), told'[s] = told[s]
  PROVE  \/ h = told'[s].handler
         \/ \E i \in told'[s].at + 1..m : Gives(calls', i, MessageType[s], h)
<1>1. Len(calls) \in Nat /\ Len(calls') \in Nat
  BY LenProperties DEF HistoryInv, PastOK, Grown
<1>2. ASSUME NEW i \in told[s].at + 1..n, Gives(calls, i, MessageType[s], h)
      PROVE  i \in told[s].at + 1..m /\ Gives(calls', i, MessageType[s], h)
  <2>1. i \in 1..Len(calls) /\ i \in told[s].at + 1..m
    BY <1>1
  <2> QED BY <1>2, <2>1, GivenStays
<1> QED BY <1>2 DEF HandlerSince

LEMMA ToldStays ==
  ASSUME HistoryInv, HistoryInv', Grown, NEW s \in Sends, ToldInv(s), lookedUp[s] \in 0..Len(calls),
         /\ pc'[s] = pc[s] /\ handler'[s] = handler[s] /\ chain'[s] = chain[s]
         /\ told'[s] = told[s] /\ lookedUp'[s] = lookedUp[s]
  PROVE  ToldInv(s)'
<1> DEFINE T == MessageType[s]
<1>1. /\ Len(calls) \in Nat /\ Len(calls') \in Nat /\ Len(calls) <= Len(calls')
      /\ T \in Types \ {AnyType}
  BY TypesOfMessages, LenProperties DEF HistoryInv, PastOK, Grown, Messages
<1> SUFFICES ASSUME pc[s] # "idle"
             PROVE  /\ told[s].at \in 0..Len(calls')
                    /\ \E g, t \in Seq(Guards) : /\ told[s].guards = g \o t
                                                 /\ IsPrefix(g, global_guards')
                                                 /\ IsPrefix(t, guards'[T])
                    /\ pc[s] = "called" => HandlerSince(s, InspectHandler(T), Len(calls))'
                    /\ pc[s] \in {"resolving", "ready"} => HandlerSince(s, handler[s], lookedUp[s])'
                    /\ pc[s] = "ready" => Within(told[s].guards, chain[s])
  BY DEF ToldInv
<1>2. /\ told[s].at \in 0..Len(calls)
      /\ pc[s] = "called" => HandlerSince(s, InspectHandler(T), Len(calls))
      /\ pc[s] \in {"resolving", "ready"} => HandlerSince(s, handler[s], lookedUp[s])
      /\ pc[s] = "ready" => Within(told[s].guards, chain[s])
  BY DEF ToldInv
<1>3. told[s].at \in 0..Len(calls')
  BY <1>1, <1>2
<1>4. \E g, t \in Seq(Guards) : /\ told[s].guards = g \o t
                               /\ IsPrefix(g, global_guards')
                               /\ IsPrefix(t, guards'[T])
  <2>1. PICK g \in Seq(Guards), t \in Seq(Guards) :
          told[s].guards = g \o t /\ IsPrefix(g, global_guards) /\ IsPrefix(t, guards[T])
    BY DEF ToldInv
  <2>2. global_guards \in Seq(Guards) /\ guards[T] \in Seq(Guards)
    BY <1>1 DEF HistoryInv, TypeOK
  <2>3. PICK u \in Seq(Guards) : global_guards' = global_guards \o u
    BY DEF Grown
  <2>4. PICK w \in Seq(Guards) : guards'[T] = guards[T] \o w
    BY <1>1 DEF Grown
  <2> HIDE DEF T
  <2>5. IsPrefix(g, global_guards')
    BY <2>1, <2>2, <2>3, PrefixOfLonger
  <2>6. IsPrefix(t, guards'[T])
    BY <2>1, <2>2, <2>4, PrefixOfLonger
  <2> QED BY <2>1, <2>5, <2>6
<1>5. ASSUME pc[s] = "called" PROVE HandlerSince(s, InspectHandler(T), Len(calls))'
  <2>1. CASE InspectHandler(T)' = InspectHandler(T)
    <3>1. Len(calls) \in 0..Len(calls) /\ Len(calls') \in Len(calls)..Len(calls')
      BY <1>1
    <3> DEFINE h == InspectHandler(T)
    <3>2. HandlerSince(s, h, Len(calls))
      BY <1>2, <1>5
    <3> HIDE DEF h
    <3>3. \/ h = told'[s].handler
          \/ \E i \in told'[s].at + 1..Len(calls') : Gives(calls', i, MessageType[s], h)
      BY <1>2, <3>1, <3>2, SinceStays
    <3> QED BY <2>1, <3>3 DEF HandlerSince, h, InspectHandler, Gives
  <2>2. ASSUME NEW i \in Len(calls) + 1..Len(calls'), Gives(calls', i, T, InspectHandler(T)')
        PROVE  HandlerSince(s, InspectHandler(T), Len(calls))'
    <3>1. i \in told'[s].at + 1..Len(calls')
      BY <1>1, <1>2
    <3> QED BY <2>2, <3>1 DEF HandlerSince
  <2> QED BY <1>1, <2>1, <2>2 DEF Grown
<1>6. ASSUME pc[s] \in {"resolving", "ready"} PROVE HandlerSince(s, handler[s], lookedUp[s])'
  <2>1. lookedUp[s] \in lookedUp[s]..Len(calls')
    BY <1>1
  <2>2. HandlerSince(s, handler[s], lookedUp[s])
    BY <1>2, <1>6
  <2> DEFINE h == handler[s]
             n == lookedUp[s]
  <2>3. n \in 0..Len(calls) /\ n \in n..Len(calls') /\ HandlerSince(s, h, n)
        /\ h = handler'[s] /\ n = lookedUp'[s]
    BY <2>1, <2>2
  <2> HIDE DEF h, n
  <2>4. \/ h = told'[s].handler
        \/ \E i \in told'[s].at + 1..n : Gives(calls', i, MessageType[s], h)
    BY <1>2, <2>3, SinceStays
  <2> QED BY <2>3, <2>4 DEF HandlerSince, Gives
<1> QED BY <1>2, <1>3, <1>4, <1>5, <1>6

(* A send that moves alone: what is told stays as it was.                  *)
LEMMA PrefixesWithin ==
  ASSUME NEW S, NEW g \in Seq(S), NEW t \in Seq(S), NEW g2 \in Seq(S), NEW t2 \in Seq(S),
         IsPrefix(g, g2), IsPrefix(t, t2)
  PROVE  Within(g \o t, g2 \o t2)
<1> DEFINE a == Len(g)
           b == Len(t)
           a2 == Len(g2)
           b2 == Len(t2)
<1>1. a \in Nat /\ b \in Nat /\ a2 \in Nat /\ b2 \in Nat
  BY LenProperties
<1>2. /\ a <= a2 /\ \A i \in 1..a : g[i] = g2[i]
      /\ b <= b2 /\ \A i \in 1..b : t[i] = t2[i]
  BY PrefixIs
<1>3. /\ Len(g \o t) = a + b /\ \A i \in 1..a + b :
           (g \o t)[i] = IF i <= a THEN g[i] ELSE t[i - a]
      /\ Len(g2 \o t2) = a2 + b2 /\ \A i \in 1..a2 + b2 :
           (g2 \o t2)[i] = IF i <= a2 THEN g2[i] ELSE t2[i - a2]
  BY ConcatProperties
<1> HIDE DEF a, b, a2, b2
<1>4. ASSUME NEW i \in 1..a + b
      PROVE  LET j == IF i <= a THEN i ELSE i + (a2 - a)
             IN  j \in 1..a2 + b2 /\ (g2 \o t2)[j] = (g \o t)[i]
  <2>1. CASE i <= a
    <3>1. i \in 1..a /\ i <= a2 /\ i \in 1..a2 + b2
      BY <1>1, <1>2, <2>1
    <3> QED BY <1>2, <1>3, <2>1, <3>1
  <2>2. CASE ~ (i <= a)
    <3> DEFINE j == i + (a2 - a)
    <3>1. /\ j \in 1..a2 + b2 /\ ~ (j <= a2) /\ j - a2 = i - a
          /\ i - a \in 1..b
      BY <1>1, <1>2, <2>2
    <3> HIDE DEF j
    <3>2. (g2 \o t2)[j] = t2[i - a] /\ (g \o t)[i] = t[i - a]
      BY <1>3, <2>2, <3>1
    <3>3. t2[i - a] = t[i - a]
      BY <1>2, <3>1
    <3> QED BY <2>2, <3>1, <3>2, <3>3 DEF j
  <2> QED BY <2>1, <2>2
<1> DEFINE cut   == a
           shift == a2 - a
           old   == g \o t
           new   == g2 \o t2
<1>5. cut \in 0..Len(old) /\ shift \in 0..Len(new)
  BY <1>1, <1>2, <1>3
<1>6. \A i \in 1..Len(old) :
        LET j == IF i <= cut THEN i ELSE i + shift
        IN  j \in 1..Len(new) /\ new[j] = old[i]
  BY <1>3, <1>4
<1> HIDE DEF cut, shift
<1>7. Within(old, new)
  <2> HIDE DEF old, new
  <2> QED BY <1>5, <1>6 DEF Within
<1> QED BY <1>7

LEMMA GuardsWithin ==
  ASSUME HistoryInv, NEW s \in Sends, ToldInv(s), pc[s] # "idle"
  PROVE  Within(told[s].guards, CommandGuards(s))
<1>1. MessageType[s] \in Types \ {AnyType}
  BY TypesOfMessages DEF Messages
<1>2. PICK g \in Seq(Guards), t \in Seq(Guards) :
        /\ told[s].guards = g \o t /\ IsPrefix(g, global_guards)
        /\ IsPrefix(t, guards[MessageType[s]])
  BY DEF ToldInv
<1>3. global_guards \in Seq(Guards) /\ guards[MessageType[s]] \in Seq(Guards)
  BY <1>1 DEF HistoryInv, TypeOK
<1> QED BY <1>2, <1>3, PrefixesWithin DEF CommandGuards

LEMMA PublishStays ==
  ASSUME HistoryInv, Grown, NEW p \in Publishes, PublishInv(p),
         pc'[p] = pc[p] /\ resolved'[p] = resolved[p] /\ told'[p] = told[p]
  PROVE  PublishInv(p)'
<1> DEFINE metas == listener_metas[MessageType[p]]
<1>1. MessageType[p] \in Types
  BY TypesOfMessages DEF Messages
<1>2. metas \in Seq(Meta)
  BY <1>1 DEF HistoryInv, TypeOK
<1>3. PICK u \in Seq(Meta) : listener_metas'[MessageType[p]] = metas \o u
  BY <1>1 DEF Grown
<1>4. ASSUME NEW s \in Seq(Meta), IsPrefix(s, metas)
      PROVE  IsPrefix(s, listener_metas'[MessageType[p]])
  <2> HIDE DEF metas
  <2> QED BY <1>2, <1>3, <1>4, PrefixOfLonger
<1> QED BY <1>4 DEF PublishInv

-----------------------------------------------------------------------------
(* The step of the message m leaves the registry and the other messages.   *)
Alone(m) ==
  /\ UNCHANGED vars
  /\ \A k \in Messages \ {m} :
       pc'[k] = pc[k] /\ told'[k] = told[k] /\ lookedUp'[k] = lookedUp[k]
  /\ \A s \in Sends \ {m} : handler'[s] = handler[s] /\ chain'[s] = chain[s]
  /\ \A p \in Publishes \ {m} : resolved'[p] = resolved[p]

(* All of them are mappings of the messages still.                         *)
Mapped ==
  /\ pc \in [Messages -> Pc]
  /\ \A m \in Messages : lookedUp[m] \in 0..Len(calls)
  /\ told = [m \in Messages |-> told[m]]
  /\ lookedUp = [m \in Messages |-> lookedUp[m]]
  /\ handler = [s \in Sends |-> handler[s]]
  /\ chain = [s \in Sends |-> chain[s]]
  /\ resolved = [p \in Publishes |-> resolved[p]]

LEMMA AloneKeeps ==
  ASSUME AnywiseInv, NEW m \in Messages, Alone(m), Mapped',
         m \in Sends => SendInv(m)' /\ ToldInv(m)', m \in Publishes => PublishInv(m)'
  PROVE  AnywiseInv'
<1>1. HistoryInv /\ Grown /\ HistoryInv'
  <2>1. HistoryInv /\ UNCHANGED vars
    BY DEF AnywiseInv, Alone
  <2>2. HistoryInv'
    BY <2>1, HistoryStep
  <2>3. Grown
    BY <2>1, SameGrows DEF vars, anywise
  <2> QED BY <2>1, <2>2, <2>3
<1>2. ASSUME NEW s \in Sends PROVE SendInv(s)' /\ ToldInv(s)'
  <2>1. CASE s = m
    BY <2>1
  <2>2. CASE s # m
    <3>1. /\ pc'[s] = pc[s] /\ handler'[s] = handler[s] /\ chain'[s] = chain[s]
          /\ told'[s] = told[s] /\ lookedUp'[s] = lookedUp[s]
          /\ SendInv(s) /\ ToldInv(s) /\ lookedUp[s] \in 0..Len(calls)
      BY <2>2 DEF Alone, AnywiseInv, Messages
    <3> QED BY <1>1, <3>1, SendStays, ToldStays
  <2> QED BY <2>1, <2>2
<1>3. ASSUME NEW p \in Publishes PROVE PublishInv(p)'
  <2>1. CASE p = m
    BY <2>1
  <2>2. CASE p # m
    <3>1. /\ pc'[p] = pc[p] /\ resolved'[p] = resolved[p] /\ told'[p] = told[p]
          /\ PublishInv(p)
      BY <2>2 DEF Alone, AnywiseInv, Messages
    <3> QED BY <1>1, <3>1, PublishStays
  <2> QED BY <2>1, <2>2
<1> QED BY <1>1, <1>2, <1>3 DEF AnywiseInv, Mapped

(* What a send can rely on when the registry does not move.                *)
LEMMA SendNow ==
  ASSUME AnywiseInv, NEW s \in Sends
  PROVE  /\ Len(calls) \in Nat /\ Past(Len(calls)) = calls
         /\ MessageType[s] \in Types \ {AnyType}
         /\ MessageType[s] \in DOMAIN handler_metas =>
              /\ handler_metas[MessageType[s]] \in Meta
              /\ handler_metas[MessageType[s]] # MISSING
              /\ handler_metas[MessageType[s]] =
                   Last(HandlersIncluded(calls, MessageType[s]))
         /\ CommandGuards(s) \in Seq(Guards)
         /\ CommandGuards(s) = GuardsIncluded(calls, AnyType)
                                 \o GuardsIncluded(calls, MessageType[s])
<1>1. HistoryInv /\ calls \in Seq(CallRecord)
  BY DEF AnywiseInv, HistoryInv, PastOK
<1>2. MessageType[s] \in Types \ {AnyType}
  BY TypesOfMessages DEF Messages
<1>3. Len(calls) \in Nat /\ Past(Len(calls)) = calls
  BY <1>1, LenProperties, SubSeqFull DEF Past
<1>4. MessageType[s] \in DOMAIN handler_metas =>
        /\ handler_metas[MessageType[s]] \in Meta
        /\ handler_metas[MessageType[s]] # MISSING
        /\ handler_metas[MessageType[s]] = Last(HandlersIncluded(calls, MessageType[s]))
  BY <1>1, <1>2, MessageAssumption DEF HistoryInv, TypeOK, LastIncludeWins, HasLast
<1>5. global_guards \in Seq(Guards) /\ guards[MessageType[s]] \in Seq(Guards)
  BY <1>1, <1>2 DEF HistoryInv, TypeOK
<1>6. CommandGuards(s) \in Seq(Guards)
  BY <1>5, ConcatProperties DEF CommandGuards
<1>7. CommandGuards(s) = GuardsIncluded(calls, AnyType)
                           \o GuardsIncluded(calls, MessageType[s])
  BY <1>1, <1>2 DEF HistoryInv, GuardsInOrder, CommandGuards
<1> QED BY <1>2, <1>3, <1>4, <1>6, <1>7

LEMMA CallKeeps ==
  ASSUME AnywiseInv, NEW m \in Messages, Call(m)
  PROVE  AnywiseInv'
<1>1. /\ pc' = [pc EXCEPT ![m] = "called"]
      /\ told' = [told EXCEPT ![m] = Inspected(MessageType[m])]
      /\ UNCHANGED <<vars, handler, chain, resolved, lookedUp>>
  BY DEF Call
<1>2. MessageType[m] \in Types \ {AnyType} /\ HistoryInv
  BY TypesOfMessages DEF AnywiseInv
<1>3. Alone(m) /\ pc'[m] = "called" /\ told'[m] = Inspected(MessageType[m])
  BY <1>1 DEF Alone, AnywiseInv, Messages
<1>4. Mapped'
  BY <1>1 DEF Mapped, AnywiseInv, Pc, vars
<1>5. m \in Sends => SendInv(m)' /\ ToldInv(m)'
  <2> SUFFICES ASSUME m \in Sends PROVE SendInv(m)' /\ ToldInv(m)'
    OBVIOUS
  <2>1. SendInv(m)
    BY DEF AnywiseInv
  <2>2. told'[m].handler # MISSING => MessageType[m] \in DOMAIN handler_metas'
    BY <1>1, <1>3 DEF Inspected, InspectHandler, vars, anywise
  <2>3. SendInv(m)'
    BY <1>1, <1>3, <2>1, <2>2 DEF SendInv
  <2>4. ToldInv(m)'
    <3>1. UNCHANGED <<calls, handler_metas, guards, global_guards>>
      BY <1>1 DEF vars, anywise
    <3>2. /\ told'[m].at = Len(calls') /\ Len(calls') \in 0..Len(calls')
          /\ told'[m].handler = InspectHandler(MessageType[m])'
          /\ told'[m].guards = global_guards' \o guards'[MessageType[m]]
      <4>1. Len(calls) \in Nat
        BY <1>2, LenProperties DEF HistoryInv, PastOK
      <4> QED BY <1>3, <3>1, <4>1 DEF Inspected, InspectHandler, InspectGuards
    <3>3. /\ global_guards' \in Seq(Guards) /\ guards'[MessageType[m]] \in Seq(Guards)
      BY <1>2, <3>1 DEF HistoryInv, TypeOK
    <3>4. IsPrefix(global_guards', global_guards')
          /\ IsPrefix(guards'[MessageType[m]], guards'[MessageType[m]])
      BY <3>3, EmptyPrefix
    <3>5. \E g, t \in Seq(Guards) : /\ told'[m].guards = g \o t
                                   /\ IsPrefix(g, global_guards')
                                   /\ IsPrefix(t, guards'[MessageType[m]])
      BY <3>2, <3>3, <3>4
    <3> QED BY <1>3, <3>2, <3>5 DEF ToldInv, HandlerSince
  <2> QED BY <2>3, <2>4
<1>6. m \in Publishes => PublishInv(m)'
  <2> SUFFICES ASSUME m \in Publishes PROVE PublishInv(m)'
    OBVIOUS
  <2>1. PublishInv(m)
    BY DEF AnywiseInv
  <2>2. UNCHANGED <<listener_metas, resolved>>
    BY <1>1 DEF vars, anywise
  <2>3. /\ told'[m].listeners = listener_metas'[MessageType[m]]
        /\ listener_metas'[MessageType[m]] \in Seq(Meta)
    BY <1>2, <1>3, <2>2 DEF Inspected, InspectListeners, HistoryInv, TypeOK
  <2>4. IsPrefix(told'[m].listeners, listener_metas'[MessageType[m]])
    BY <2>3, EmptyPrefix
  <2> QED BY <1>3, <2>1, <2>2, <2>3, <2>4 DEF PublishInv
<1> QED BY <1>3, <1>4, <1>5, <1>6, AloneKeeps

LEMMA RefuseKeeps ==
  ASSUME AnywiseInv, NEW m \in Messages, Unregistered(m)
  PROVE  AnywiseInv'
<1>1. /\ pc[m] = "called"
      /\ pc' = [pc EXCEPT ![m] = "UnregisteredMessageError"]
      /\ lookedUp' = [lookedUp EXCEPT ![m] = Len(calls)]
      /\ UNCHANGED <<vars, handler, chain, resolved, told>>
      /\ IF m \in Sends THEN MessageType[m] \notin DOMAIN handler_metas
                        ELSE listener_metas[MessageType[m]] = <<>>
  BY DEF Unregistered, Refuse
<1>2. Len(calls) \in Nat
  BY LenProperties DEF AnywiseInv, HistoryInv, PastOK
<1>3. Alone(m) /\ pc'[m] = "UnregisteredMessageError"
  BY <1>1 DEF Alone, AnywiseInv, Messages
<1>4. Mapped'
  <2>1. pc' \in [Messages -> Pc]
    BY <1>1 DEF AnywiseInv, Pc
  <2>2. lookedUp' = [k \in Messages |-> IF k = m THEN Len(calls) ELSE lookedUp[k]]
    BY <1>1 DEF AnywiseInv
  <2>3. calls' = calls /\ \A k \in Messages : lookedUp[k] \in 0..Len(calls)
    BY <1>1 DEF AnywiseInv, vars
  <2>4. \A k \in Messages : lookedUp'[k] \in 0..Len(calls')
    BY <1>2, <2>2, <2>3
  <2>5. lookedUp' = [k \in Messages |-> lookedUp'[k]]
    BY <2>2
  <2> QED BY <1>1, <2>1, <2>4, <2>5 DEF Mapped, AnywiseInv
<1>5. m \in Sends => SendInv(m)' /\ ToldInv(m)'
  <2> SUFFICES ASSUME m \in Sends PROVE SendInv(m)' /\ ToldInv(m)'
    OBVIOUS
  <2>1. SendInv(m)
    BY DEF AnywiseInv
  <2>2. SendInv(m)'
    BY <1>1, <1>3, <2>1 DEF SendInv, vars, anywise
  <2>3. ToldInv(m)'
    BY <1>1, <1>3 DEF AnywiseInv, ToldInv, vars, anywise
  <2> QED BY <2>2, <2>3
<1>6. m \in Publishes => PublishInv(m)'
  <2> SUFFICES ASSUME m \in Publishes PROVE PublishInv(m)'
    OBVIOUS
  <2>1. PublishInv(m)
    BY DEF AnywiseInv
  <2>2. told[m].listeners = <<>>
    BY <1>1, <2>1, EmptyPrefix, MessageAssumption DEF PublishInv
  <2> QED BY <1>1, <1>3, <2>1, <2>2 DEF PublishInv, vars, anywise
<1> QED BY <1>3, <1>4, <1>5, <1>6, AloneKeeps

LEMMA ReadyGuards ==
  ASSUME AnywiseInv, NEW s \in Sends, UNCHANGED vars,
         NEW n \in 0..Len(calls), lookedUp'[s] = n, chain'[s] = CommandGuards(s)
  PROVE  \E k \in lookedUp'[s]..Len(calls') :
           chain'[s] = GuardsIncluded(Past(k), AnyType)'
                         \o GuardsIncluded(Past(k), MessageType[s])'
<1>1. Len(calls) \in n..Len(calls) /\ calls' = calls
  BY SendNow DEF vars
<1>2. chain'[s] = GuardsIncluded(Past(Len(calls)), AnyType)
                    \o GuardsIncluded(Past(Len(calls)), MessageType[s])
  BY SendNow
<1> QED BY <1>1, <1>2 DEF Past

LEMMA ResolveKeeps ==
  ASSUME AnywiseInv, NEW s \in Sends, ResolveFunction(s) \/ ResolveMethod(s)
  PROVE  AnywiseInv'
<1>1. /\ pc[s] = "called" /\ MessageType[s] \in DOMAIN handler_metas
      /\ handler' = [handler EXCEPT ![s] = handler_metas[MessageType[s]]]
      /\ lookedUp' = [lookedUp EXCEPT ![s] = Len(calls)]
      /\ UNCHANGED <<vars, resolved, told>>
      /\ \/ /\ chain' = [chain EXCEPT ![s] = CommandGuards(s)]
            /\ pc' = [pc EXCEPT ![s] = "ready"]
         \/ /\ chain' = chain
            /\ pc' = [pc EXCEPT ![s] = "resolving"]
  BY DEF ResolveFunction, ResolveMethod, LookUp
<1>2. s \in Messages /\ s \notin Publishes
  BY MessageAssumption DEF Messages
<1>3. Len(calls) \in 0..Len(calls)
  BY SendNow
<1>4. /\ Alone(s) /\ handler'[s] = handler_metas[MessageType[s]]
      /\ lookedUp'[s] = Len(calls)
      /\ \/ pc'[s] = "ready" /\ chain'[s] = CommandGuards(s)
         \/ pc'[s] = "resolving" /\ chain'[s] = chain[s]
  BY <1>1, <1>2 DEF Alone, AnywiseInv
<1>5. Mapped'
  BY <1>1, <1>2, <1>3 DEF Mapped, AnywiseInv, Pc, vars
<1>6. SendInv(s)'
  <2>1. SendInv(s)
    BY DEF AnywiseInv
  <2>2. /\ handler'[s] \in Meta /\ handler'[s] # MISSING
        /\ handler'[s] = Last(HandlersIncluded(Past(Len(calls)), MessageType[s]))
    BY <1>1, <1>4, SendNow
  <2>3. handler'[s] = Last(HandlersIncluded(SubSeq(calls', 1, lookedUp'[s]), MessageType[s]))
    BY <1>1, <1>4, <2>2 DEF Past, vars
  <2>4. pc'[s] = "ready" =>
          \E k \in lookedUp'[s]..Len(calls') :
            chain'[s] = GuardsIncluded(Past(k), AnyType)'
                          \o GuardsIncluded(Past(k), MessageType[s])'
    BY <1>1, <1>3, <1>4, ReadyGuards
  <2>5. chain'[s] \in Seq(Guards)
    BY <1>4, <2>1, SendNow DEF SendInv
  <2> QED BY <1>1, <1>4, <2>1, <2>2, <2>3, <2>4, <2>5 DEF SendInv, Past, vars, anywise
<1>7. ToldInv(s)'
  <2>1. HistoryInv /\ ToldInv(s)
    BY DEF AnywiseInv
  <2>2. HandlerSince(s, handler_metas[MessageType[s]], Len(calls))
    BY <1>1, <2>1 DEF ToldInv, InspectHandler
  <2>3. pc'[s] = "ready" => Within(told[s].guards, chain'[s])
    BY <1>1, <1>4, <2>1, GuardsWithin
  <2>4. UNCHANGED <<calls, global_guards, guards, told>>
    BY <1>1 DEF vars, anywise
  <2>5. HandlerSince(s, handler[s], lookedUp[s])'
    BY <1>4, <2>2, <2>4 DEF HandlerSince, Gives
  <2> QED BY <1>1, <1>4, <2>1, <2>3, <2>4, <2>5 DEF ToldInv
<1> QED BY <1>2, <1>4, <1>5, <1>6, <1>7, AloneKeeps

LEMMA ReadGuardsKeeps ==
  ASSUME AnywiseInv, NEW s \in Sends, ReadGuards(s)
  PROVE  AnywiseInv'
<1>1. /\ pc[s] = "resolving"
      /\ chain' = [chain EXCEPT ![s] = CommandGuards(s)]
      /\ pc' = [pc EXCEPT ![s] = "ready"]
      /\ UNCHANGED <<vars, handler, resolved, told, lookedUp>>
  BY DEF ReadGuards
<1>2. s \in Messages /\ s \notin Publishes
  BY MessageAssumption DEF Messages
<1>3. Alone(s) /\ pc'[s] = "ready" /\ chain'[s] = CommandGuards(s)
  BY <1>1, <1>2 DEF Alone, AnywiseInv
<1>4. Mapped'
  BY <1>1, <1>2 DEF Mapped, AnywiseInv, Pc, vars
<1>5. SendInv(s)'
  <2>1. SendInv(s) /\ lookedUp[s] \in 0..Len(calls)
    BY <1>2 DEF AnywiseInv
  <2>2. \E k \in lookedUp'[s]..Len(calls') :
          chain'[s] = GuardsIncluded(Past(k), AnyType)'
                        \o GuardsIncluded(Past(k), MessageType[s])'
    BY <1>1, <1>3, <2>1, ReadyGuards
  <2>3. /\ handler'[s] # MISSING
        /\ handler'[s] = Last(HandlersIncluded(SubSeq(calls', 1, lookedUp'[s]), MessageType[s]))
    BY <1>1, <2>1 DEF SendInv, Past, vars
  <2>4. chain'[s] \in Seq(Guards)
    BY <1>3, SendNow
  <2> QED BY <1>1, <1>3, <2>1, <2>2, <2>3, <2>4 DEF SendInv, Past, vars, anywise
<1>6. ToldInv(s)'
  <2>1. HistoryInv /\ ToldInv(s)
    BY DEF AnywiseInv
  <2>2. Within(told[s].guards, chain'[s])
    BY <1>1, <1>3, <2>1, GuardsWithin
  <2>3. UNCHANGED <<calls, global_guards, guards, told, handler, lookedUp>>
    BY <1>1 DEF vars, anywise
  <2>4. HandlerSince(s, handler[s], lookedUp[s])'
    BY <1>1, <2>1, <2>3 DEF ToldInv, HandlerSince, Gives
  <2> QED BY <1>1, <1>3, <2>1, <2>2, <2>3, <2>4 DEF ToldInv
<1> QED BY <1>2, <1>3, <1>4, <1>5, <1>6, AloneKeeps

LEMMA ResolveListenersKeeps ==
  ASSUME AnywiseInv, NEW p \in Publishes, ResolveListeners(p)
  PROVE  AnywiseInv'
<1> DEFINE metas == listener_metas[MessageType[p]]
           methods == {i \in Len(resolved[p]) + 1..Len(metas) : metas[i].of \in Classes}
           k == IF methods = {} THEN Len(metas) ELSE Min(methods)
           found == resolved[p] \o SubSeq(metas, Len(resolved[p]) + 1, k)
<1>1. /\ pc[p] \in {"called", "resolving"}
      /\ resolved' = [resolved EXCEPT ![p] = found]
      /\ pc' = [pc EXCEPT ![p] = IF methods = {} THEN "ready" ELSE "resolving"]
      /\ lookedUp' = IF pc[p] = "called"
                     THEN [lookedUp EXCEPT ![p] = Len(calls)] ELSE lookedUp
      /\ UNCHANGED <<vars, handler, chain, told>>
  <2>1. resolved = [q \in Publishes |-> resolved[q]]
    BY DEF AnywiseInv
  <2> QED BY <2>1 DEF ResolveListeners
<1>2. /\ p \in Messages /\ p \notin Sends /\ PublishInv(p)
      /\ MessageType[p] \in Types /\ Len(calls) \in Nat
  BY MessageAssumption, TypesOfMessages, LenProperties
     DEF Messages, AnywiseInv, HistoryInv, PastOK
<1>3. /\ metas \in Seq(Meta) /\ resolved[p] \in Seq(Meta)
      /\ IsPrefix(resolved[p], metas)
  BY <1>2 DEF AnywiseInv, HistoryInv, TypeOK, PublishInv
<1> HIDE DEF metas
<1>4. Len(metas) \in Nat /\ Len(resolved[p]) \in Nat /\ Len(resolved[p]) <= Len(metas)
  BY <1>3, LenProperties DEF IsPrefix
<1>5. k \in Len(resolved[p])..Len(metas)
  <2>1. methods \subseteq Nat /\ \A i \in methods : i \in Len(resolved[p])..Len(metas)
    BY <1>4
  <2> HIDE DEF methods
  <2>2. methods # {} => Min(methods) \in methods
    BY <2>1, MinIs
  <2>3. CASE methods = {}
    <3>1. k = Len(metas)
      BY <2>3
    <3> QED BY <1>4, <3>1
  <2>4. CASE methods # {}
    <3>1. k = Min(methods)
      BY <2>4
    <3> QED BY <2>1, <2>2, <2>4, <3>1
  <2> QED BY <2>3, <2>4
<1>6. methods = {} => k = Len(metas)
  OBVIOUS
<1> HIDE DEF methods, k
<1>11. found = resolved[p] \o SubSeq(metas, Len(resolved[p]) + 1, k)
  OBVIOUS
<1> HIDE DEF found
<1>7. /\ found \in Seq(Meta) /\ IsPrefix(found, metas)
      /\ methods = {} => found = metas
  <2>1. found \in Seq(Meta)
    BY <1>3, <1>5, <1>11, PrefixExtended
  <2>2. IsPrefix(found, metas)
    BY <1>3, <1>5, <1>11, PrefixExtended
  <2>3. k = Len(metas) => found = metas
    BY <1>3, <1>11, PrefixCompleted
  <2> QED BY <1>6, <2>1, <2>2, <2>3
<1>8. /\ Alone(p) /\ resolved'[p] = found
      /\ pc'[p] = IF methods = {} THEN "ready" ELSE "resolving"
  BY <1>1, <1>2 DEF Alone, AnywiseInv
<1>9. Mapped'
  <2>1. pc' \in [Messages -> Pc] /\ resolved' = [q \in Publishes |-> resolved'[q]]
    BY <1>1, <1>2 DEF AnywiseInv, Pc
  <2>2. lookedUp' = [m \in Messages |-> lookedUp'[m]]
    <3>1. CASE pc[p] = "called"
      BY <1>1, <3>1 DEF AnywiseInv
    <3>2. CASE pc[p] # "called"
      BY <1>1, <3>2 DEF AnywiseInv
    <3> QED BY <3>1, <3>2
  <2>3. calls' = calls /\ \A m \in Messages : lookedUp[m] \in 0..Len(calls)
    BY <1>1 DEF AnywiseInv, vars
  <2>4. \A m \in Messages : lookedUp'[m] \in {lookedUp[m], Len(calls)}
    BY <1>1 DEF AnywiseInv
  <2>5. \A m \in Messages : lookedUp'[m] \in 0..Len(calls')
    BY <1>2, <2>3, <2>4
  <2> QED BY <1>1, <2>1, <2>2, <2>5 DEF Mapped, AnywiseInv
<1>10. PublishInv(p)'
  <2>1. UNCHANGED <<listener_metas, told>>
    BY <1>1 DEF vars, anywise
  <2> QED BY <1>1, <1>2, <1>7, <1>8, <2>1 DEF PublishInv, metas
<1> QED BY <1>2, <1>8, <1>9, <1>10, AloneKeeps

-----------------------------------------------------------------------------
LEMMA AnywiseStep == AnywiseInv /\ [AnywiseNext]_allVars => AnywiseInv'
<1> SUFFICES ASSUME AnywiseInv, [AnywiseNext]_allVars PROVE AnywiseInv'
  OBVIOUS
<1>1. ASSUME [Next]_vars, UNCHANGED messages PROVE AnywiseInv'
  <2>1. HistoryInv /\ HistoryInv'
    BY <1>1, HistoryStep DEF AnywiseInv
  <2>2. Grown
    BY <1>1, <2>1, RegistryGrows, SameGrows DEF vars, anywise
  <2>3. UNCHANGED <<pc, handler, chain, resolved, told, lookedUp>>
    BY <1>1 DEF messages
  <2>4. \A s \in Sends : SendInv(s)' /\ ToldInv(s)'
    BY <2>1, <2>2, <2>3, SendStays, ToldStays DEF AnywiseInv, Messages
  <2>5. \A p \in Publishes : PublishInv(p)'
    BY <2>1, <2>2, <2>3, PublishStays DEF AnywiseInv
  <2>6. \A m \in Messages : lookedUp'[m] \in 0..Len(calls')
    <3>1. Len(calls) \in Nat /\ Len(calls') \in Nat
      BY <2>1, LenProperties DEF HistoryInv, PastOK
    <3> QED BY <2>2, <2>3, <3>1 DEF AnywiseInv, Grown
  <2> QED BY <2>1, <2>3, <2>4, <2>5, <2>6 DEF AnywiseInv
<1>2. ASSUME NEW m \in Messages, Call(m) \/ Unregistered(m) PROVE AnywiseInv'
  BY <1>2, CallKeeps, RefuseKeeps
<1>3. CASE UNCHANGED allVars
  BY <1>1, <1>3 DEF allVars
<1> QED BY <1>1, <1>2, <1>3, ResolveKeeps, ReadGuardsKeeps, ResolveListenersKeeps
        DEF AnywiseNext, Messages

LEMMA AnywiseInitInv == AnywiseInit => AnywiseInv
<1> SUFFICES ASSUME AnywiseInit PROVE AnywiseInv
  OBVIOUS
<1>1. HistoryInv
  BY HistoryInit DEF AnywiseInit
<1>2. Len(calls) \in Nat
  BY <1>1, LenProperties DEF HistoryInv, PastOK
<1>3. Mapped
  BY <1>2 DEF AnywiseInit, Mapped, Messages, Pc
<1>4. ASSUME NEW s \in Sends PROVE SendInv(s) /\ ToldInv(s)
  BY EmptySeq DEF AnywiseInit, SendInv, ToldInv
<1>5. ASSUME NEW p \in Publishes PROVE PublishInv(p)
  <2>1. listener_metas[MessageType[p]] \in Seq(Meta)
    BY <1>1, TypesOfMessages DEF HistoryInv, TypeOK, Messages
  <2>2. resolved[p] = <<>> /\ pc[p] = "idle"
    BY DEF AnywiseInit
  <2> QED BY <2>1, <2>2, EmptySeq, EmptyPrefix DEF PublishInv
<1> QED BY <1>1, <1>3, <1>4, <1>5 DEF AnywiseInv, Mapped

LEMMA AnywiseInvHolds == AnywiseSpec => []AnywiseInv
BY AnywiseInitInv, AnywiseStep, PTL DEF AnywiseSpec

(* The state of the messages has its type, and a message that is ready has *)
(* a handler.                                                              *)
THEOREM MessagesTypeOK == AnywiseSpec => []MessagesOK
<1>1. AnywiseInv => MessagesOK
  BY AnywiseInvMeans
<1> QED BY <1>1, AnywiseInvHolds, PTL

(* Whatever is registered and included while sends await, in any order: a  *)
(* message runs the handler of one moment with all the guards of one       *)
(* moment that is not before it.                                           *)
THEOREM NeverWithoutItsGuards == AnywiseSpec => []GuardsOfOneMoment
<1>1. AnywiseInv => GuardsOfOneMoment
  BY AnywiseInvMeans
<1> QED BY <1>1, AnywiseInvHolds, PTL

(* What Inspect told of a message when it was sent or published is not     *)
(* taken back: it is not refused if it had a handler or listeners; its     *)
(* handler is the one told or one that an include gave since; it goes      *)
(* through all the guards told, in order, and the listeners told are       *)
(* called first and in order.                                              *)
THEOREM InspectIsKept == AnywiseSpec => []ToldIsKept
<1>1. AnywiseInv => ToldIsKept
  BY AnywiseInvMeans
<1> QED BY <1>1, AnywiseInvHolds, PTL
=============================================================================
