----------------------- MODULE MessageRegistryProofs ------------------------
(***************************************************************************)
(* What the registries and the managers hold, for any classes, signatures, *)
(* order of imports, of calls and of includes: what the history of calls   *)
(* says, also of calls that raised half way.                               *)
(***************************************************************************)
EXTENDS MessageRegistry, SequenceLemmas

(* The mappings are mappings.                                              *)
IsFunction(f) == f = [x \in DOMAIN f |-> f[x]]

MappingInv ==
  /\ IsFunction(command_mapping) /\ DOMAIN command_mapping = Registries
  /\ IsFunction(event_mapping) /\ DOMAIN event_mapping = Registries
  /\ IsFunction(guard_mapping) /\ DOMAIN guard_mapping = Registries
  /\ \A r \in Registries :
       /\ IsFunction(command_mapping[r])
       /\ IsFunction(event_mapping[r]) /\ DOMAIN event_mapping[r] = Types
       /\ IsFunction(guard_mapping[r]) /\ DOMAIN guard_mapping[r] = Types

-----------------------------------------------------------------------------
LEMMA Updated ==
  ASSUME NEW d, IsFunction(d), NEW e
  PROVE  /\ IsFunction(Update(d, e))
         /\ DOMAIN e = {} => Update(d, e) = d
BY DEF IsFunction, Update

-----------------------------------------------------------------------------
(* The class hierarchy.  A set of classes is closed if it has the bases of *)
(* its members; what is above a class is the least closed set it is in.    *)
Closed(S) == \A c \in S : Bases[c] \subseteq S

Up(d) == {c \in Types : \A S \in SUBSET Types : Closed(S) /\ d \in S => c \in S}

LEMMA UpIsLeast ==
  ASSUME NEW d \in Types
  PROVE  /\ Up(d) \in SUBSET Types /\ d \in Up(d) /\ Closed(Up(d))
         /\ \A S \in SUBSET Types : Closed(S) /\ d \in S => Up(d) \subseteq S
<1>1. \A c \in Types : Bases[c] \subseteq Types
  BY RegistryAssumption
<1>2. Closed(Up(d))
  <2> SUFFICES ASSUME NEW c \in Up(d), NEW b \in Bases[c],
                      NEW S \in SUBSET Types, Closed(S), d \in S
               PROVE  b \in S
    BY <1>1 DEF Closed, Up
  <2>1. c \in S
    BY DEF Up
  <2> QED BY <2>1 DEF Closed
<1> QED BY <1>2 DEF Up

(* What is above a class and not the class is a base of one above it.      *)
LEMMA UpByABase ==
  ASSUME NEW d \in Types, NEW c \in Up(d), c # d
  PROVE  \E e \in Up(d) : c \in Bases[e]
<1>1. SUFFICES ASSUME \A e \in Up(d) : c \notin Bases[e] PROVE FALSE
  OBVIOUS
<1>2. Up(d) \ {c} \in SUBSET Types /\ Closed(Up(d) \ {c}) /\ d \in Up(d) \ {c}
  BY <1>1, UpIsLeast DEF Closed
<1>3. Up(d) \subseteq Up(d) \ {c}
  BY <1>2, UpIsLeast
<1> QED BY <1>3

LEMMA UpRecursive ==
  ASSUME NEW d \in Types
  PROVE  Up(d) = {d} \cup UNION {Up(b) : b \in Bases[d]}
<1> DEFINE all == {d} \cup UNION {Up(b) : b \in Bases[d]}
<1>0. Bases[d] \subseteq Types
  BY RegistryAssumption
<1>1. ASSUME NEW b \in Bases[d] PROVE Up(b) \subseteq Up(d)
  <2>1. b \in Up(d)
    BY UpIsLeast DEF Closed
  <2> QED BY <1>0, <2>1, UpIsLeast
<1>2. all \subseteq Up(d)
  BY <1>1, UpIsLeast
<1>3. all \in SUBSET Types
  BY <1>0, UpIsLeast
<1>4. Closed(all)
  <2> SUFFICES ASSUME NEW c \in all, NEW a \in Bases[c] PROVE a \in all
    BY DEF Closed
  <2>1. CASE c = d
    BY <1>0, <2>1, UpIsLeast
  <2>2. CASE c # d
    <3>1. PICK b \in Bases[d] : c \in Up(b)
      BY <2>2
    <3>2. a \in Up(b)
      BY <1>0, <3>1, UpIsLeast DEF Closed
    <3> QED BY <3>2
  <2> QED BY <2>1, <2>2
<1>5. Up(d) \subseteq all
  <2> HIDE DEF all
  <2>1. d \in all
    BY DEF all
  <2> QED BY <1>3, <1>4, <2>1, UpIsLeast
<1> QED BY <1>2, <1>5

LEMMA AboveIs == \A d \in Types : Above[d] = Up(d)
<1> DEFINE up == [d \in Types |-> Up(d)]
<1>0. \A d \in Types : Bases[d] \subseteq Types
  BY RegistryAssumption
<1>1. \E f : f = [d \in Types |-> {d} \cup UNION {f[b] : b \in Bases[d]}]
  <2>1. \A d \in Types : up[d] = {d} \cup UNION {up[b] : b \in Bases[d]}
    <3> TAKE d \in Types
    <3>1. Up(d) = {d} \cup UNION {Up(b) : b \in Bases[d]}
      BY UpRecursive
    <3>2. up[d] = Up(d) /\ \A b \in Bases[d] : up[b] = Up(b)
      BY <1>0
    <3> HIDE DEF up
    <3> QED BY <3>1, <3>2
  <2>2. up = [d \in Types |-> up[d]]
    OBVIOUS
  <2> HIDE DEF up
  <2>3. up = [d \in Types |-> {d} \cup UNION {up[b] : b \in Bases[d]}]
    BY <2>1, <2>2
  <2> QED BY <2>3
<1>2. Above = [d \in Types |-> {d} \cup UNION {Above[b] : b \in Bases[d]}]
  BY <1>1 DEF Above
<1>3. \A d \in Types : Above[d] = {d} \cup UNION {Above[b] : b \in Bases[d]}
  BY <1>2
<1> DEFINE T == {d \in Types : Above[d] # Up(d)}
<1>4. SUFFICES ASSUME T # {} PROVE FALSE
  OBVIOUS
<1>5. PICK d \in T : Bases[d] \cap T = {}
  <2> HIDE DEF T
  <2>1. T \in SUBSET Types
    BY DEF T
  <2> QED BY <1>4, <2>1, RegistryAssumption
<1>6. \A b \in Bases[d] : Above[b] = Up(b)
  BY <1>0, <1>5
<1>7. {Above[b] : b \in Bases[d]} = {Up(b) : b \in Bases[d]}
  BY <1>6
<1>8. Above[d] = Up(d)
  BY <1>3, <1>7, UpRecursive
<1> QED BY <1>8

(* all_subclasses(c): the classes that are defined and have a direct       *)
(* subclass of c above them.                                               *)
Down(c) == {t \in defined : \E e \in Subclasses(c) : e \in Up(t)}

LEMMA DownRecursive ==
  ASSUME defined \subseteq Types, Closed(defined), NEW c \in Types
  PROVE  Down(c) = Subclasses(c) \cup UNION {Down(e) : e \in Subclasses(c)}
<1>1. ASSUME NEW t \in Down(c)
      PROVE  t \in Subclasses(c) \cup UNION {Down(e) : e \in Subclasses(c)}
  <2>1. t \in defined /\ t \in Types
    BY DEF Down
  <2>2. PICK e \in Subclasses(c) : e \in Up(t)
    BY <1>1 DEF Down
  <2>3. CASE e = t
    BY <2>3
  <2>4. CASE e # t
    <3>1. PICK d \in Up(t) : e \in Bases[d]
      BY <2>1, <2>2, <2>4, UpByABase
    <3>2. d \in defined
      BY <2>1, UpIsLeast
    <3>3. t \in Down(e)
      BY <2>1, <3>1, <3>2 DEF Down, Subclasses
    <3> QED BY <3>3
  <2> QED BY <2>3, <2>4
<1>2. ASSUME NEW t \in Subclasses(c) PROVE t \in Down(c)
  BY UpIsLeast DEF Down, Subclasses
<1>3. ASSUME NEW e \in Subclasses(c), NEW t \in Down(e) PROVE t \in Down(c)
  <2>1. PICK d \in Subclasses(e) : d \in Up(t)
    BY DEF Down
  <2>2. t \in defined /\ t \in Types
    BY DEF Down
  <2>3. e \in Up(t)
    BY <2>1, <2>2, UpIsLeast DEF Closed, Subclasses
  <2> QED BY <2>2, <2>3 DEF Down
<1> QED BY <1>1, <1>2, <1>3

LEMMA AllSubclassesAre ==
  ASSUME defined \subseteq Types, Closed(defined), NEW c \in Types
  PROVE  AllSubclasses(c) = Down(c)
<1> DEFINE down == [d \in Types |-> Down(d)]
           below == CHOOSE f : f = [d \in Types |->
                      Subclasses(d) \cup UNION {f[e] : e \in Subclasses(d)}]
<1>0. \A d \in Types : Subclasses(d) \subseteq Types
  BY DEF Subclasses
<1>1. \E f : f = [d \in Types |-> Subclasses(d) \cup UNION {f[e] : e \in Subclasses(d)}]
  <2>1. \A d \in Types : down[d] = Subclasses(d) \cup UNION {down[e] : e \in Subclasses(d)}
    <3> TAKE d \in Types
    <3>1. {down[e] : e \in Subclasses(d)} = {Down(e) : e \in Subclasses(d)}
      BY <1>0
    <3> QED BY <3>1, DownRecursive
  <2>2. down = [d \in Types |-> down[d]]
    OBVIOUS
  <2> HIDE DEF down
  <2>3. down = [d \in Types |-> Subclasses(d) \cup UNION {down[e] : e \in Subclasses(d)}]
    BY <2>1, <2>2
  <2> QED BY <2>3
<1>2. below = [d \in Types |-> Subclasses(d) \cup UNION {below[e] : e \in Subclasses(d)}]
  BY <1>1
<1>3. AllSubclasses(c) = below[c]
  BY DEF AllSubclasses
<1> HIDE DEF below
<1>4. \A d \in Types : below[d] = Subclasses(d) \cup UNION {below[e] : e \in Subclasses(d)}
  BY <1>2
<1> DEFINE T == {d \in Types : below[d] # Down(d)}
<1>5. SUFFICES ASSUME T # {} PROVE FALSE
  BY <1>3
<1>6. PICK d \in T : \A e \in T : d \notin Bases[e]
  <2> HIDE DEF T
  <2>1. T \in SUBSET Types
    BY DEF T
  <2> QED BY <1>5, <2>1, RegistryAssumption
<1>7. \A e \in Subclasses(d) : below[e] = Down(e)
  BY <1>0, <1>6 DEF Subclasses
<1>8. {below[e] : e \in Subclasses(d)} = {Down(e) : e \in Subclasses(d)}
  BY <1>7
<1>9. below[d] = Down(d)
  BY <1>4, <1>8, DownRecursive
<1> QED BY <1>9

(* gather_types: the classes that are defined and are a subclass of one    *)
(* that the annotation names.                                              *)
LEMMA GatherIs ==
  ASSUME defined \subseteq Types, Closed(defined),
         NEW annotation, annotation \subseteq defined
  PROVE  Gather(annotation) = {t \in defined : annotation \cap Above[t] # {}}
<1>1. ASSUME NEW t \in Gather(annotation)
      PROVE  t \in defined /\ annotation \cap Up(t) # {}
  <2>1. CASE t \in annotation
    BY <2>1, UpIsLeast
  <2>2. CASE t \notin annotation
    <3>1. PICK c \in annotation : t \in AllSubclasses(c)
      BY <2>2 DEF Gather
    <3>2. t \in Down(c)
      BY <3>1, AllSubclassesAre
    <3>3. PICK e \in Subclasses(c) : e \in Up(t)
      BY <3>2 DEF Down
    <3>4. t \in defined /\ c \in Up(t)
      BY <3>2, <3>3, UpIsLeast DEF Closed, Subclasses, Down
    <3> QED BY <3>4
  <2> QED BY <2>1, <2>2
<1>2. ASSUME NEW t \in defined, NEW c \in annotation, c \in Up(t)
      PROVE  t \in Gather(annotation)
  <2>1. CASE c = t
    BY <2>1 DEF Gather
  <2>2. CASE c # t
    <3>1. PICK e \in Up(t) : c \in Bases[e]
      BY <1>2, <2>2, UpByABase
    <3>2. e \in defined
      BY UpIsLeast
    <3>3. t \in Down(c)
      BY <3>1, <3>2 DEF Down, Subclasses
    <3>4. t \in AllSubclasses(c)
      BY <3>3, AllSubclassesAre
    <3> QED BY <3>4 DEF Gather
  <2> QED BY <2>1, <2>2
<1> QED BY <1>1, <1>2, AboveIs

-----------------------------------------------------------------------------
(* The history of calls.                                                   *)
Given == Registees \cup Guards

CallRecord == [call : {"register", "add_guards", "include"}, reg : Registries,
               what : Seq(Given), seen : SUBSET Types, raised : BOOLEAN]

CallOK(c) == c \in CallRecord

PastOK(past) == past \in Seq(CallRecord) /\ \A i \in 1..Len(past) : CallOK(past[i])

LEMMA PastGrows ==
  ASSUME NEW past, PastOK(past), NEW c, CallOK(c), NEW longer, longer = Append(past, c)
  PROVE  /\ PastOK(longer)
         /\ Len(past) \in Nat /\ DOMAIN past = 1..Len(past)
         /\ Len(longer) = Len(past) + 1 /\ DOMAIN longer = 1..Len(past) + 1
         /\ \A i \in 1..Len(past) : longer[i] = past[i]
         /\ longer[Len(past) + 1] = c
<1>1. /\ past \in Seq(CallRecord) /\ c \in CallRecord /\ Len(past) \in Nat
      /\ DOMAIN past = 1..Len(past)
      /\ \A i \in 1..Len(past) : CallOK(past[i])
  BY LenProperties DEF PastOK, CallOK
<1>2. /\ longer \in Seq(CallRecord) /\ Len(longer) = Len(past) + 1
      /\ \A i \in 1..Len(past) : longer[i] = past[i]
      /\ longer[Len(past) + 1] = c
  BY <1>1, AppendProperties
<1>3. \A i \in 1..Len(longer) : CallOK(longer[i])
  <2> TAKE i \in 1..Len(longer)
  <2>1. i \in 1..Len(past) \/ i = Len(past) + 1
    BY <1>1, <1>2
  <2> QED BY <1>1, <1>2, <2>1
<1>4. DOMAIN longer = 1..Len(longer)
  BY <1>2, LenProperties
<1> QED BY <1>1, <1>2, <1>3, <1>4 DEF PastOK

(* What came before the i-th of n calls.                                   *)
LEMMA BeforeIs ==
  ASSUME NEW past, PastOK(past), NEW i \in 1..Len(past) + 1
  PROVE  /\ PastOK(Before(past, i))
         /\ i = Len(past) + 1 => Before(past, i) = past
         /\ \A c : CallOK(c) => Before(Append(past, c), i) = Before(past, i)
<1>1. past \in Seq(CallRecord) /\ Len(past) \in Nat /\ \A k \in 1..Len(past) : CallOK(past[k])
  BY LenProperties DEF PastOK
<1>2. i - 1 \in Int /\ i - 1 <= Len(past) /\ 0 <= i - 1
  BY <1>1
<1>3. \A k \in 1..i - 1 : k \in 1..Len(past) /\ past[k] \in CallRecord
  BY <1>1, <1>2, ElementOfSeq
<1>4. /\ Before(past, i) \in Seq(CallRecord) /\ Len(Before(past, i)) = i - 1
      /\ \A k \in 1..i - 1 : Before(past, i)[k] = past[k]
  <2> DEFINE n == i - 1
  <2>1. n \in Int /\ \A k \in 1..n : past[k] \in CallRecord
    BY <1>2, <1>3
  <2> HIDE DEF n
  <2>2. /\ SubSeq(past, 1, n) \in Seq(CallRecord)
        /\ Len(SubSeq(past, 1, n)) = IF 1 <= n THEN n - 1 + 1 ELSE 0
        /\ \A k \in 1..n - 1 + 1 : SubSeq(past, 1, n)[k] = past[1 + k - 1]
    BY <2>1, SubSeqProperties
  <2> QED BY <1>2, <2>2 DEF n, Before
<1>5. PastOK(Before(past, i))
  BY <1>1, <1>3, <1>4 DEF PastOK
<1>6. i = Len(past) + 1 => Before(past, i) = past
  <2>1. i = Len(past) + 1 => i - 1 = Len(past)
    BY <1>1
  <2> QED BY <1>1, <2>1, SubSeqFull DEF Before
<1>7. ASSUME NEW c, CallOK(c) PROVE Before(Append(past, c), i) = Before(past, i)
  <2> DEFINE longer == Append(past, c)
             n == i - 1
  <2>1. \A k \in 1..Len(past) : longer[k] = past[k]
    BY <1>7, PastGrows
  <2>2. n \in Int /\ \A k \in 1..n : longer[k] \in CallRecord
    BY <1>2, <1>3, <2>1
  <2> HIDE DEF longer
  <2>3. /\ SubSeq(longer, 1, n) \in Seq(CallRecord)
        /\ Len(SubSeq(longer, 1, n)) = n
        /\ \A k \in 1..n : SubSeq(longer, 1, n)[k] = longer[k]
    <3> HIDE DEF n
    <3>1. /\ SubSeq(longer, 1, n) \in Seq(CallRecord)
          /\ Len(SubSeq(longer, 1, n)) = IF 1 <= n THEN n - 1 + 1 ELSE 0
          /\ \A k \in 1..n - 1 + 1 : SubSeq(longer, 1, n)[k] = longer[1 + k - 1]
      BY <2>2, SubSeqProperties
    <3> QED BY <1>2, <2>2, <3>1 DEF n
  <2>4. \A k \in 1..n : SubSeq(longer, 1, n)[k] = Before(past, i)[k]
    BY <1>3, <1>4, <2>1, <2>3
  <2> QED BY <1>4, <2>3, <2>4, SeqEqual DEF longer, Before
<1> QED BY <1>5, <1>6, <1>7

(* One entry or none for each signature.                                   *)
LEMMA PiecesType ==
  ASSUME NEW h \in Registees, NEW K, NEW s,
         s = FlattenSeq([k \in DOMAIN Signatures[h] |->
               IF k \in K THEN <<[of |-> h, at |-> k]>> ELSE <<>>])
  PROVE  s \in Seq(Meta) /\ (s = <<>> <=> DOMAIN Signatures[h] \cap K = {})
<1> DEFINE n == Len(Signatures[h])
           p == [k \in DOMAIN Signatures[h] |->
                   IF k \in K THEN <<[of |-> h, at |-> k]>> ELSE <<>>]
<1>1. n \in Nat /\ DOMAIN Signatures[h] = 1..n
  BY RegistryAssumption, LenProperties
<1>2. ASSUME NEW k \in 1..n
      PROVE  /\ p[k] = IF k \in K THEN <<[of |-> h, at |-> k]>> ELSE <<>>
             /\ p[k] \in Seq(Meta) /\ (p[k] = <<>> <=> k \notin K)
  <2>1. [of |-> h, at |-> k] \in Meta
    BY <1>1 DEF Meta
  <2>2. <<[of |-> h, at |-> k]>> \in Seq(Meta) /\ <<[of |-> h, at |-> k]>> # <<>>
    BY <2>1
  <2>3. <<>> \in Seq(Meta)
    BY EmptySeq
  <2> QED BY <1>1, <2>2, <2>3
<1> HIDE DEF n
<1>3. p \in [1..n -> Seq(Meta)]
  <2>1. p = [k \in 1..n |-> p[k]]
    BY <1>1
  <2> HIDE DEF p
  <2> QED BY <1>2, <2>1
<1> HIDE DEF p
<1>4. p \in Seq(Seq(Meta)) /\ Len(p) = n
  BY <1>1, <1>3, LenProperties
<1>5. s = FlattenSeq(p)
  BY DEF p
<1> QED BY <1>1, <1>2, <1>4, <1>5, FlattenType, FlattenEmpty

(* The metas of the items of a call, whatever they yield.                  *)
LEMMA TurnsType ==
  ASSUME NEW items \in Seq(Given), NEW yields, NEW t
  PROVE  /\ InTurn(items, yields, t) \in Seq(Meta)
         /\ InTurn(items, yields, t) # <<>> => \E i, k : <<i, k, t>> \in yields
<1> DEFINE n == Len(items)
           turn(i) == FlattenSeq([k \in DOMAIN Signatures[items[i]] |->
                        IF <<i, k, t>> \in yields
                        THEN <<[of |-> items[i], at |-> k]>> ELSE <<>>])
           p == [i \in DOMAIN items |->
                   IF items[i] \notin Registees THEN <<>> ELSE turn(i)]
<1>1. n \in Nat /\ DOMAIN items = 1..n
  BY LenProperties
<1>2. ASSUME NEW i \in 1..n, items[i] \in Registees
      PROVE  /\ turn(i) \in Seq(Meta)
             /\ turn(i) # <<>> => \E k : <<i, k, t>> \in yields
  <2> DEFINE D == DOMAIN Signatures[items[i]]
             K == {k \in D : <<i, k, t>> \in yields}
             q == [k \in D |-> IF k \in K THEN <<[of |-> items[i], at |-> k]>> ELSE <<>>]
  <2>1. [k \in D |-> IF <<i, k, t>> \in yields
                     THEN <<[of |-> items[i], at |-> k]>> ELSE <<>>] = q
    OBVIOUS
  <2>2. turn(i) = FlattenSeq(q)
    BY <2>1
  <2>3. FlattenSeq(q) \in Seq(Meta) /\ (FlattenSeq(q) = <<>> <=> D \cap K = {})
    <3> HIDE DEF K
    <3> QED BY <1>2, PiecesType
  <2>4. D \cap K # {} => \E k : <<i, k, t>> \in yields
    OBVIOUS
  <2> HIDE DEF q, K, turn
  <2> QED BY <2>2, <2>3, <2>4
<1>3. InTurn(items, yields, t) = FlattenSeq(p)
  BY DEF InTurn
<1> HIDE DEF n, turn
<1>4. \A i \in 1..n : /\ p[i] \in Seq(Meta)
                      /\ p[i] # <<>> => \E k : <<i, k, t>> \in yields
  BY <1>1, <1>2, EmptySeq
<1>5. p = [i \in 1..n |-> p[i]]
  BY <1>1
<1> HIDE DEF p
<1>6. p \in [1..n -> Seq(Meta)]
  BY <1>4, <1>5
<1>7. p \in Seq(Seq(Meta)) /\ Len(p) = n
  BY <1>1, <1>6, LenProperties
<1>8. FlattenSeq(p) \in Seq(Meta)
  BY <1>7, FlattenType
<1>9. ASSUME FlattenSeq(p) # <<>> PROVE \E i, k : <<i, k, t>> \in yields
  <2>1. PICK i \in 1..n : p[i] # <<>>
    BY <1>7, <1>9, FlattenEmpty
  <2> QED BY <1>4, <2>1
<1> QED BY <1>3, <1>8, <1>9

LEMMA ContributedType ==
  ASSUME NEW c, CallOK(c), NEW base, NEW t
  PROVE  Contributed(c, base, t) \in Seq(Meta)
<1> DEFINE taken == UNION {UNION {{<<i, k, u>> : u \in Signed(c, base, Signatures[c.what[i]][k])} :
                               k \in DOMAIN Signatures[c.what[i]]} :
                        i \in {j \in Accepted(c) : c.what[j] \in Registees}}
<1>1. Contributed(c, base, t) = InTurn(c.what, taken, t)
  BY DEF Contributed
<1>2. c.what \in Seq(Given)
  BY DEF CallOK, CallRecord
<1> HIDE DEF taken
<1> QED BY <1>1, <1>2, TurnsType

LEMMA GuardedType ==
  ASSUME NEW c, CallOK(c), NEW t
  PROVE  Guarded(c, t) \in Seq(Guards)
<1> DEFINE n == Len(c.what)
           accepted == Accepted(c)
           p == [i \in DOMAIN c.what |->
                   IF /\ i \in accepted /\ c.what[i] \in Guards
                      /\ t \in Meant(c, GuardTarget[c.what[i]])
                   THEN <<c.what[i]>> ELSE <<>>]
<1>1. n \in Nat /\ DOMAIN c.what = 1..n
  BY LenProperties DEF CallOK, CallRecord
<1>2. Guarded(c, t) = FlattenSeq(p)
  BY DEF Guarded
<1> HIDE DEF n, accepted
<1>3. \A i \in 1..n : p[i] \in Seq(Guards)
  BY <1>1, EmptySeq
<1>4. p = [i \in 1..n |-> p[i]]
  BY <1>1
<1> HIDE DEF p
<1>5. p \in [1..n -> Seq(Guards)]
  BY <1>3, <1>4
<1>6. p \in Seq(Seq(Guards))
  BY <1>1, <1>5, LenProperties
<1> QED BY <1>2, <1>6, FlattenType

-----------------------------------------------------------------------------
(* A call that is made now.  What it does by the mappings is what the      *)
(* history says of it.                                                     *)
Made(c) ==
  /\ defined \in SUBSET Types /\ Closed(defined)
  /\ CallOK(c) /\ c.seen = defined /\ AnnotationsExist(c.what)

LEMMA ItemsExist ==
  ASSUME NEW c, Made(c), NEW i \in DOMAIN c.what
  PROVE  /\ c.what[i] \in Given
         /\ c.what[i] \in Guards => GuardTarget[c.what[i]] \subseteq defined
         /\ c.what[i] \in Registees =>
              \A k \in DOMAIN Signatures[c.what[i]] : Signatures[c.what[i]][k] \subseteq defined
<1>1. c.what \in Seq(Given)
  BY DEF Made, CallOK, CallRecord
<1>2. c.what[i] \in Given
  BY <1>1, LenProperties, ElementOfSeq
<1>3. Annotated(c.what[i]) \subseteq defined
  BY DEF Made, AnnotationsExist
<1>4. c.what[i] \in Registees => c.what[i] \notin Guards
  BY RegistryAssumption
<1> QED BY <1>2, <1>3, <1>4 DEF Annotated, Range

LEMMA MeantIs ==
  ASSUME NEW c, Made(c), NEW annotation, annotation \subseteq defined
  PROVE  Meant(c, annotation) = Gather(annotation)
BY GatherIs DEF Made, Meant

LEMMA SignedIs ==
  ASSUME NEW c, Made(c), NEW i \in DOMAIN c.what, c.what[i] \in Registees,
         NEW k \in DOMAIN Signatures[c.what[i]], NEW base \in Types \cup {MISSING}
  PROVE  Derived(base, c.what[i])[k] = Signed(c, base, Signatures[c.what[i]][k])
<1> DEFINE h == c.what[i]
           types == Gather(Signatures[h][k])
<1>1. Meant(c, Signatures[h][k]) = types
  BY ItemsExist, MeantIs
<1>2. types \subseteq Types
  <2>1. Signatures[h][k] \subseteq defined
    BY ItemsExist
  <2> QED BY <2>1, GatherIs DEF Made
<1>3. Derived(base, h)[k] = IF base # MISSING /\ \A u \in types : base \in Above[u]
                            THEN types ELSE {}
  BY DEF Derived, IsSubclass
<1>4. Signed(c, base, Signatures[h][k]) = IF \A u \in types : base \in Above[u]
                                          THEN types ELSE {}
  BY <1>1 DEF Signed, Counts
<1>5. ASSUME NEW u \in types, base \in Above[u] PROVE base # MISSING
  BY <1>2, <1>5, AboveIs, UpIsLeast, RegistryAssumption
<1> HIDE DEF types
<1> QED BY <1>3, <1>4, <1>5 DEF h

(* A registee fails for a base if it is refused for it.                    *)
LEMMA FailsIs ==
  ASSUME NEW c, Made(c), NEW i \in DOMAIN c.what, c.what[i] \in Registees,
         NEW base \in Types \cup {MISSING}
  PROVE  Fails(base, c.what[i]) <=> RefusedFor(c, base, c.what[i])
<1> DEFINE h == c.what[i]
           D == DOMAIN Signatures[h]
<1>1. ASSUME NEW k \in D
      PROVE  /\ Derived(base, h)[k] = {} <=>
                  ~ Counts(c, base, Signatures[h][k]) \/ Meant(c, Signatures[h][k]) = {}
             /\ (\E t \in Gather(Signatures[h][k]) : ~ IsSubclass(t, base))
                  <=> ~ Counts(c, base, Signatures[h][k])
  <2>1. Derived(base, h)[k] = Signed(c, base, Signatures[h][k])
    BY SignedIs
  <2>2. Meant(c, Signatures[h][k]) = Gather(Signatures[h][k])
    BY ItemsExist, MeantIs
  <2> QED BY <2>1, <2>2 DEF Signed, Counts, IsSubclass
<1> HIDE DEF h
<1> QED BY <1>1 DEF Fails, RefusedFor, h

LEMMA AcceptsIs ==
  ASSUME NEW c, Made(c), NEW i \in DOMAIN c.what
  PROVE  Accepts(c, c.what[i]) <=> ~ Refused(c.reg, c.what[i])
<1>1. c.what[i] \in Given /\ c.reg \in Registries
  BY ItemsExist DEF Made, CallOK, CallRecord
<1>2. CASE c.what[i] \in Guards
  BY <1>2 DEF Accepts, Refused
<1>3. CASE c.what[i] \in Registees
  <2>1. /\ CommandBase[c.reg] \in Types \cup {MISSING}
        /\ EventBase[c.reg] \in Types \cup {MISSING}
        /\ c.what[i] \notin Guards
    BY <1>1, <1>3, RegistryAssumption
  <2>2. /\ Fails(CommandBase[c.reg], c.what[i]) <=> RefusedFor(c, CommandBase[c.reg], c.what[i])
        /\ Fails(EventBase[c.reg], c.what[i]) <=> RefusedFor(c, EventBase[c.reg], c.what[i])
    BY <1>3, <2>1, FailsIs
  <2> QED BY <2>1, <2>2 DEF Accepts, Refused
<1> QED BY <1>1, <1>2, <1>3 DEF Given

LEMMA DoneIs ==
  ASSUME NEW c, Made(c)
  PROVE  Done(c.reg, c.what) = Accepted(c)
<1>1. {i \in DOMAIN c.what : Refused(c.reg, c.what[i])}
        = {i \in DOMAIN c.what : ~ Accepts(c, c.what[i])}
  BY AcceptsIs
<1> QED BY <1>1 DEF Done, Accepted

LEMMA ContributedIs ==
  ASSUME NEW c, Made(c), NEW base \in Types \cup {MISSING}, NEW t \in Types
  PROVE  /\ NewMetas(c.reg, base, c.what)[t] = Contributed(c, base, t)
         /\ Contributed(c, base, t) # <<>> => t \in defined
<1> DEFINE I == {j \in Accepted(c) : c.what[j] \in Registees}
           D(i) == DOMAIN Signatures[c.what[i]]
           derived(i) == UNION {{<<i, k, u>> : u \in Derived(base, c.what[i])[k]} : k \in D(i)}
           signed(i) == UNION {{<<i, k, u>> : u \in Signed(c, base, Signatures[c.what[i]][k])} :
                                 k \in D(i)}
           taken == UNION {signed(i) : i \in I}
<1>1. I \subseteq DOMAIN c.what
  BY DEF Accepted
<1>2. ASSUME NEW i \in I PROVE derived(i) = signed(i)
  <2>1. \A k \in D(i) : Derived(base, c.what[i])[k] = Signed(c, base, Signatures[c.what[i]][k])
    BY <1>1, SignedIs
  <2>2. {{<<i, k, u>> : u \in Derived(base, c.what[i])[k]} : k \in D(i)}
          = {{<<i, k, u>> : u \in Signed(c, base, Signatures[c.what[i]][k])} : k \in D(i)}
    BY <2>1
  <2> QED BY <2>2
<1>3. Yields(base, c.what, Done(c.reg, c.what)) = UNION {derived(i) : i \in I}
  BY DoneIs DEF Yields
<1>4. {derived(i) : i \in I} = {signed(i) : i \in I}
  BY <1>2
<1>5. Yields(base, c.what, Done(c.reg, c.what)) = taken
  BY <1>3, <1>4
<1>6. Contributed(c, base, t) = InTurn(c.what, taken, t)
  BY DEF Contributed
<1>7. ASSUME NEW i, NEW k, <<i, k, t>> \in taken PROVE t \in defined
  <2>1. PICK j \in I : <<i, k, t>> \in signed(j)
    BY <1>7
  <2>2. PICK m \in D(j) : <<i, k, t>> \in {<<j, m, u>> : u \in Signed(c, base, Signatures[c.what[j]][m])}
    BY <2>1
  <2>3. t \in Signed(c, base, Signatures[c.what[j]][m])
    BY <2>2
  <2> QED BY <2>3 DEF Signed, Meant, Made
<1> HIDE DEF taken
<1>8. NewMetas(c.reg, base, c.what)[t] = InTurn(c.what, taken, t)
  BY <1>5 DEF NewMetas
<1>9. c.what \in Seq(Given)
  BY DEF Made, CallOK, CallRecord
<1> QED BY <1>6, <1>7, <1>8, <1>9, TurnsType

LEMMA GuardedIs ==
  ASSUME NEW c, Made(c), NEW t \in Types
  PROVE  NewGuards(c.reg, c.what)[t] = Guarded(c, t)
<1> DEFINE accepted == Accepted(c)
           p == [i \in DOMAIN c.what |->
                   IF /\ i \in accepted /\ c.what[i] \in Guards
                      /\ t \in Gather(GuardTarget[c.what[i]])
                   THEN <<c.what[i]>> ELSE <<>>]
           q == [i \in DOMAIN c.what |->
                   IF /\ i \in accepted /\ c.what[i] \in Guards
                      /\ t \in Meant(c, GuardTarget[c.what[i]])
                   THEN <<c.what[i]>> ELSE <<>>]
<1>1. \A i \in DOMAIN c.what : c.what[i] \in Guards =>
        Meant(c, GuardTarget[c.what[i]]) = Gather(GuardTarget[c.what[i]])
  BY ItemsExist, MeantIs
<1>2. p = q
  BY <1>1
<1>3. NewGuards(c.reg, c.what)[t] = FlattenSeq(p)
  BY DoneIs DEF NewGuards
<1>4. Guarded(c, t) = FlattenSeq(q)
  BY DEF Guarded
<1> QED BY <1>2, <1>3, <1>4

(* With both bases: what is refused is what is lost.                       *)
LEMMA LostIs ==
  ASSUME NEW c, Made(c), NEW i \in DOMAIN c.what,
         MISSING \notin {CommandBase[c.reg], EventBase[c.reg]}
  PROVE  Lost(c, c.what[i]) <=> Refused(c.reg, c.what[i])
<1> DEFINE h == c.what[i]
           D == DOMAIN Signatures[h]
           bases == {CommandBase[c.reg], EventBase[c.reg]}
<1>1. h \in Given /\ c.reg \in Registries
  BY ItemsExist DEF Made, CallOK, CallRecord
<1>2. bases \subseteq Types
  BY <1>1, RegistryAssumption
<1>3. CASE h \in Guards
  BY <1>3, RegistryAssumption DEF Lost, Refused
<1>4. CASE h \in Registees
  <2>1. h \notin Guards /\ h \notin Instances
    BY <1>4, RegistryAssumption
  <2>2. Refused(c.reg, h) <=> \A base \in bases : RefusedFor(c, base, h)
    <3>1. \A base \in bases : Fails(base, h) <=> RefusedFor(c, base, h)
      BY <1>2, <1>4, FailsIs
    <3> QED BY <2>1, <3>1 DEF Refused
  <2>3. \A base \in bases, k \in D :
          Signed(c, base, Signatures[h][k]) = {} <=>
            ~ Counts(c, base, Signatures[h][k]) \/ Meant(c, Signatures[h][k]) = {}
    BY DEF Signed
  <2>4. CASE h \in Classes
    BY <2>1, <2>2, <2>3, <2>4 DEF Lost, RefusedFor
  <2>5. CASE h \notin Classes
    <3>1. Signatures[h] \in Seq(SUBSET Types) /\ Len(Signatures[h]) \in Nat
          /\ Len(Signatures[h]) <= 1 /\ D = 1..Len(Signatures[h])
      BY <1>4, <2>5, RegistryAssumption, LenProperties
    <3>2. CASE D = {}
      <4>1. Signatures[h] # <<{}>>
        BY <3>2
      <4> QED BY <1>4, <2>1, <2>2, <3>2, <4>1 DEF Lost, RefusedFor
    <3>3. CASE D # {}
      <4>1. D = {1} /\ Len(Signatures[h]) = 1
        <5> DEFINE n == Len(Signatures[h])
        <5>1. n \in Nat /\ n <= 1 /\ 1..n # {} /\ D = 1..n
          BY <3>1, <3>3
        <5> HIDE DEF n, D
        <5>2. n = 1 /\ 1..1 = {1}
          BY <5>1
        <5> QED BY <5>1, <5>2 DEF n
      <4>2. Signatures[h] = <<{}>> <=> Signatures[h][1] = {}
        BY <3>1, <4>1
      <4>3. Signatures[h][1] \subseteq defined
        BY <1>4, <4>1, ItemsExist
      <4>4. Meant(c, Signatures[h][1]) = {} <=> Signatures[h][1] = {}
        <5>1. Meant(c, Signatures[h][1]) = Gather(Signatures[h][1])
          BY <4>3, MeantIs
        <5> QED BY <5>1 DEF Gather
      <4>5. Meant(c, Signatures[h][1]) = {} => \A base \in bases : Counts(c, base, Signatures[h][1])
        BY DEF Counts
      <4> QED BY <1>4, <2>1, <2>2, <2>3, <2>5, <4>1, <4>2, <4>4, <4>5 DEF Lost, RefusedFor
    <3> QED BY <3>2, <3>3
  <2> QED BY <2>4, <2>5
<1> QED BY <1>1, <1>3, <1>4 DEF Given

-----------------------------------------------------------------------------
(* A history in pieces: one more call is one more piece at the end.        *)
LEMMA OnePieceMore ==
  ASSUME NEW S, NEW n \in Nat, NEW p \in [1..n -> Seq(S)],
         NEW q \in [1..n + 1 -> Seq(S)], \A i \in 1..n : q[i] = p[i]
  PROVE  /\ FlattenSeq(p) \in Seq(S)
         /\ FlattenSeq(q) = FlattenSeq(p) \o q[n + 1]
<1>1. p \in Seq(Seq(S))
  BY LenProperties
<1> QED BY <1>1, FlattenLonger, FlattenType

LEMMA RegisteredGrows ==
  ASSUME NEW past, PastOK(past), NEW c, CallOK(c), NEW r, NEW base, NEW t
  PROVE  /\ Registered(past, r, base, t) \in Seq(Meta)
         /\ Registered(Append(past, c), r, base, t) =
              Registered(past, r, base, t)
                \o (IF c.call # "include" /\ c.reg = r
                    THEN Contributed(c, base, t) ELSE <<>>)
<1> DEFINE n == Len(past)
           longer == Append(past, c)
           p == [i \in DOMAIN past |-> IF past[i].call # "include" /\ past[i].reg = r
                                       THEN Contributed(past[i], base, t) ELSE <<>>]
           q == [i \in DOMAIN longer |->
                   IF longer[i].call # "include" /\ longer[i].reg = r
                   THEN Contributed(longer[i], base, t) ELSE <<>>]
<1>1. /\ n \in Nat /\ DOMAIN past = 1..n /\ DOMAIN longer = 1..n + 1
      /\ \A i \in 1..n : longer[i] = past[i] /\ CallOK(past[i])
      /\ longer[n + 1] = c
      /\ \A i \in 1..n + 1 : CallOK(longer[i])
  BY PastGrows DEF PastOK
<1> HIDE DEF n, longer
<1>2. ASSUME NEW d, CallOK(d) PROVE Contributed(d, base, t) \in Seq(Meta)
  BY <1>2, ContributedType
<1>3. /\ \A i \in 1..n : p[i] \in Seq(Meta) /\ q[i] = p[i]
      /\ \A i \in 1..n + 1 : q[i] \in Seq(Meta)
  BY <1>1, <1>2, EmptySeq
<1>4. q[n + 1] = IF c.call # "include" /\ c.reg = r
                    THEN Contributed(c, base, t) ELSE <<>>
  BY <1>1
<1>5. p = [i \in 1..n |-> p[i]] /\ q = [i \in 1..n + 1 |-> q[i]]
  BY <1>1
<1>6. /\ Registered(past, r, base, t) = FlattenSeq(p)
      /\ Registered(longer, r, base, t) = FlattenSeq(q)
  BY DEF Registered
<1> HIDE DEF p, q
<1>7. p \in [1..n -> Seq(Meta)] /\ q \in [1..n + 1 -> Seq(Meta)]
  BY <1>3, <1>5
<1>8. FlattenSeq(p) \in Seq(Meta) /\ FlattenSeq(q) = FlattenSeq(p) \o q[n + 1]
  <2>1. n \in Nat /\ \A i \in 1..n : q[i] = p[i]
    BY <1>1, <1>3
  <2> QED BY <1>7, <2>1, OnePieceMore
<1> QED BY <1>4, <1>6, <1>8 DEF longer

LEMMA GuardsAddedGrow ==
  ASSUME NEW past, PastOK(past), NEW c, CallOK(c), NEW r, NEW t
  PROVE  /\ GuardsAdded(past, r, t) \in Seq(Guards)
         /\ GuardsAdded(Append(past, c), r, t) =
              GuardsAdded(past, r, t)
                \o (IF c.call # "include" /\ c.reg = r
                    THEN Guarded(c, t) ELSE <<>>)
<1> DEFINE n == Len(past)
           longer == Append(past, c)
           p == [i \in DOMAIN past |-> IF past[i].call # "include" /\ past[i].reg = r
                                       THEN Guarded(past[i], t) ELSE <<>>]
           q == [i \in DOMAIN longer |->
                   IF longer[i].call # "include" /\ longer[i].reg = r
                   THEN Guarded(longer[i], t) ELSE <<>>]
<1>1. /\ n \in Nat /\ DOMAIN past = 1..n /\ DOMAIN longer = 1..n + 1
      /\ \A i \in 1..n : longer[i] = past[i] /\ CallOK(past[i])
      /\ longer[n + 1] = c
      /\ \A i \in 1..n + 1 : CallOK(longer[i])
  BY PastGrows DEF PastOK
<1> HIDE DEF n, longer
<1>2. ASSUME NEW d, CallOK(d) PROVE Guarded(d, t) \in Seq(Guards)
  BY <1>2, GuardedType
<1>3. /\ \A i \in 1..n : p[i] \in Seq(Guards) /\ q[i] = p[i]
      /\ \A i \in 1..n + 1 : q[i] \in Seq(Guards)
  BY <1>1, <1>2, EmptySeq
<1>4. q[n + 1] = IF c.call # "include" /\ c.reg = r
                    THEN Guarded(c, t) ELSE <<>>
  BY <1>1
<1>5. p = [i \in 1..n |-> p[i]] /\ q = [i \in 1..n + 1 |-> q[i]]
  BY <1>1
<1>6. /\ GuardsAdded(past, r, t) = FlattenSeq(p)
      /\ GuardsAdded(longer, r, t) = FlattenSeq(q)
  BY DEF GuardsAdded
<1> HIDE DEF p, q
<1>7. p \in [1..n -> Seq(Guards)] /\ q \in [1..n + 1 -> Seq(Guards)]
  BY <1>3, <1>5
<1>8. FlattenSeq(p) \in Seq(Guards) /\ FlattenSeq(q) = FlattenSeq(p) \o q[n + 1]
  <2>1. n \in Nat /\ \A i \in 1..n : q[i] = p[i]
    BY <1>1, <1>3
  <2> QED BY <1>7, <2>1, OnePieceMore
<1> QED BY <1>4, <1>6, <1>8 DEF longer

LEMMA ListenersIncludedGrow ==
  ASSUME NEW past, PastOK(past), NEW c, CallOK(c), NEW t
  PROVE  /\ ListenersIncluded(past, t) \in Seq(Meta)
         /\ ListenersIncluded(Append(past, c), t) =
              ListenersIncluded(past, t)
                \o (IF c.call = "include" THEN Listeners(past, c.reg, t) ELSE <<>>)
<1> DEFINE n == Len(past)
           longer == Append(past, c)
           p == [i \in DOMAIN past |-> IF past[i].call = "include"
                   THEN Listeners(Before(past, i), past[i].reg, t) ELSE <<>>]
           q == [i \in DOMAIN longer |-> IF longer[i].call = "include"
                   THEN Listeners(Before(longer, i), longer[i].reg, t) ELSE <<>>]
<1>1. /\ n \in Nat /\ DOMAIN past = 1..n /\ DOMAIN longer = 1..n + 1
      /\ \A i \in 1..n : longer[i] = past[i]
      /\ longer[n + 1] = c
  BY PastGrows
<1>2. /\ \A i \in 1..n + 1 : PastOK(Before(past, i)) /\ Before(longer, i) = Before(past, i)
      /\ Before(past, n + 1) = past
  BY <1>1, BeforeIs
<1> HIDE DEF n, longer
<1>3. ASSUME NEW i \in 1..n + 1, NEW r PROVE Listeners(Before(past, i), r, t) \in Seq(Meta)
  <2>1. PastOK(Before(past, i))
    BY <1>2
  <2> QED BY <2>1, RegisteredGrows DEF Listeners
<1>4. q[n + 1] = IF c.call = "include" THEN Listeners(past, c.reg, t) ELSE <<>>
  BY <1>1, <1>2
<1>5. /\ \A i \in 1..n : p[i] \in Seq(Meta) /\ q[i] = p[i]
      /\ \A i \in 1..n + 1 : q[i] \in Seq(Meta)
  BY <1>1, <1>2, <1>3, EmptySeq
<1>6. p = [i \in 1..n |-> p[i]] /\ q = [i \in 1..n + 1 |-> q[i]]
  BY <1>1
<1>7. p \in [1..n -> Seq(Meta)] /\ q \in [1..n + 1 -> Seq(Meta)]
  BY <1>5, <1>6
<1>8. /\ ListenersIncluded(past, t) = FlattenSeq(p)
      /\ ListenersIncluded(longer, t) = FlattenSeq(q)
  BY DEF ListenersIncluded
<1> HIDE DEF p, q
<1>9. FlattenSeq(p) \in Seq(Meta) /\ FlattenSeq(q) = FlattenSeq(p) \o q[n + 1]
  <2>1. n \in Nat /\ \A i \in 1..n : q[i] = p[i]
    BY <1>1, <1>5
  <2> QED BY <1>7, <2>1, OnePieceMore
<1> QED BY <1>4, <1>8, <1>9 DEF longer

LEMMA HandlersIncludedGrow ==
  ASSUME NEW past, PastOK(past), NEW c, CallOK(c), NEW t
  PROVE  /\ HandlersIncluded(past, t) \in Seq(Meta)
         /\ HandlersIncluded(Append(past, c), t) =
              HandlersIncluded(past, t)
                \o (IF c.call = "include" THEN Handlers(past, c.reg, t) ELSE <<>>)
<1> DEFINE n == Len(past)
           longer == Append(past, c)
           p == [i \in DOMAIN past |-> IF past[i].call = "include"
                   THEN Handlers(Before(past, i), past[i].reg, t) ELSE <<>>]
           q == [i \in DOMAIN longer |-> IF longer[i].call = "include"
                   THEN Handlers(Before(longer, i), longer[i].reg, t) ELSE <<>>]
<1>1. /\ n \in Nat /\ DOMAIN past = 1..n /\ DOMAIN longer = 1..n + 1
      /\ \A i \in 1..n : longer[i] = past[i]
      /\ longer[n + 1] = c
  BY PastGrows
<1>2. /\ \A i \in 1..n + 1 : PastOK(Before(past, i)) /\ Before(longer, i) = Before(past, i)
      /\ Before(past, n + 1) = past
  BY <1>1, BeforeIs
<1> HIDE DEF n, longer
<1>3. ASSUME NEW i \in 1..n + 1, NEW r PROVE Handlers(Before(past, i), r, t) \in Seq(Meta)
  <2>1. PastOK(Before(past, i))
    BY <1>2
  <2> QED BY <2>1, RegisteredGrows DEF Handlers
<1>4. q[n + 1] = IF c.call = "include" THEN Handlers(past, c.reg, t) ELSE <<>>
  BY <1>1, <1>2
<1>5. /\ \A i \in 1..n : p[i] \in Seq(Meta) /\ q[i] = p[i]
      /\ \A i \in 1..n + 1 : q[i] \in Seq(Meta)
  BY <1>1, <1>2, <1>3, EmptySeq
<1>6. p = [i \in 1..n |-> p[i]] /\ q = [i \in 1..n + 1 |-> q[i]]
  BY <1>1
<1>7. p \in [1..n -> Seq(Meta)] /\ q \in [1..n + 1 -> Seq(Meta)]
  BY <1>5, <1>6
<1>8. /\ HandlersIncluded(past, t) = FlattenSeq(p)
      /\ HandlersIncluded(longer, t) = FlattenSeq(q)
  BY DEF HandlersIncluded
<1> HIDE DEF p, q
<1>9. FlattenSeq(p) \in Seq(Meta) /\ FlattenSeq(q) = FlattenSeq(p) \o q[n + 1]
  <2>1. n \in Nat /\ \A i \in 1..n : q[i] = p[i]
    BY <1>1, <1>5
  <2> QED BY <1>7, <2>1, OnePieceMore
<1> QED BY <1>4, <1>8, <1>9 DEF longer

LEMMA GuardsIncludedGrow ==
  ASSUME NEW past, PastOK(past), NEW c, CallOK(c), NEW t
  PROVE  /\ GuardsIncluded(past, t) \in Seq(Guards)
         /\ GuardsIncluded(Append(past, c), t) =
              GuardsIncluded(past, t)
                \o (IF c.call = "include" THEN GuardsAdded(past, c.reg, t) ELSE <<>>)
<1> DEFINE n == Len(past)
           longer == Append(past, c)
           p == [i \in DOMAIN past |-> IF past[i].call = "include"
                   THEN GuardsAdded(Before(past, i), past[i].reg, t) ELSE <<>>]
           q == [i \in DOMAIN longer |-> IF longer[i].call = "include"
                   THEN GuardsAdded(Before(longer, i), longer[i].reg, t) ELSE <<>>]
<1>1. /\ n \in Nat /\ DOMAIN past = 1..n /\ DOMAIN longer = 1..n + 1
      /\ \A i \in 1..n : longer[i] = past[i]
      /\ longer[n + 1] = c
  BY PastGrows
<1>2. /\ \A i \in 1..n + 1 : PastOK(Before(past, i)) /\ Before(longer, i) = Before(past, i)
      /\ Before(past, n + 1) = past
  BY <1>1, BeforeIs
<1> HIDE DEF n, longer
<1>3. ASSUME NEW i \in 1..n + 1, NEW r PROVE GuardsAdded(Before(past, i), r, t) \in Seq(Guards)
  <2>1. PastOK(Before(past, i))
    BY <1>2
  <2> QED BY <2>1, GuardsAddedGrow
<1>4. q[n + 1] = IF c.call = "include" THEN GuardsAdded(past, c.reg, t) ELSE <<>>
  BY <1>1, <1>2
<1>5. /\ \A i \in 1..n : p[i] \in Seq(Guards) /\ q[i] = p[i]
      /\ \A i \in 1..n + 1 : q[i] \in Seq(Guards)
  BY <1>1, <1>2, <1>3, EmptySeq
<1>6. p = [i \in 1..n |-> p[i]] /\ q = [i \in 1..n + 1 |-> q[i]]
  BY <1>1
<1>7. p \in [1..n -> Seq(Guards)] /\ q \in [1..n + 1 -> Seq(Guards)]
  BY <1>5, <1>6
<1>8. /\ GuardsIncluded(past, t) = FlattenSeq(p)
      /\ GuardsIncluded(longer, t) = FlattenSeq(q)
  BY DEF GuardsIncluded
<1> HIDE DEF p, q
<1>9. FlattenSeq(p) \in Seq(Guards) /\ FlattenSeq(q) = FlattenSeq(p) \o q[n + 1]
  <2>1. n \in Nat /\ \A i \in 1..n : q[i] = p[i]
    BY <1>1, <1>5
  <2> QED BY <1>7, <2>1, OnePieceMore
<1> QED BY <1>4, <1>8, <1>9 DEF longer

-----------------------------------------------------------------------------
(* The mappings are what the history of calls says.                        *)
HeldInv ==
  \A r \in Registries, t \in Types :
    /\ event_mapping[r][t] = Listeners(calls, r, t)
    /\ guard_mapping[r][t] = GuardsAdded(calls, r, t)

HistoryInv ==
  /\ PastOK(calls)
  /\ defined \in SUBSET Types /\ Closed(defined)
  /\ MappingInv /\ IsFunction(handler_metas)
  /\ TypeOK
  /\ HeldInv
  /\ LastHandlerWins
  /\ ListenersInOrder
  /\ GuardsInOrder
  /\ LastIncludeWins
  /\ RaisesForWhatIsLost

(* d.update(e) appends what e has to what d had.                           *)
LEMMA UpdateHasLast ==
  ASSUME NEW S, NEW all \in Seq(S), NEW more \in Seq(S), NEW t,
         NEW d, HasLast(d, t, all), NEW e, HasLast(e, t, more)
  PROVE  HasLast(Update(d, e), t, all \o more)
<1>1. all \o more = <<>> <=> all = <<>> /\ more = <<>>
  BY ConcatEqualIffEmpty
<1>2. Last(all \o more) = IF more = <<>> THEN Last(all) ELSE Last(more)
  BY LastOfConcat
<1>3. /\ DOMAIN Update(d, e) = DOMAIN d \cup DOMAIN e
      /\ t \in DOMAIN d \cup DOMAIN e =>
           Update(d, e)[t] = IF t \in DOMAIN e THEN e[t] ELSE d[t]
  BY DEF Update
<1>4. CASE more = <<>>
  <2>1. t \notin DOMAIN e /\ (all \o more = <<>> <=> all = <<>>)
    BY <1>1, <1>4 DEF HasLast
  <2>2. Last(all \o more) = Last(all)
    BY <1>2, <1>4
  <2>3. (t \in DOMAIN Update(d, e) <=> t \in DOMAIN d)
          /\ (t \in DOMAIN d => Update(d, e)[t] = d[t])
    BY <1>3, <2>1
  <2> QED BY <2>1, <2>2, <2>3 DEF HasLast
<1>5. CASE more # <<>>
  <2>1. t \in DOMAIN e /\ e[t] = Last(more)
    BY <1>5 DEF HasLast
  <2> QED BY <1>1, <1>2, <1>3, <1>5, <2>1 DEF HasLast
<1> QED BY <1>4, <1>5

LEMMA DefineKeepsHistory ==
  ASSUME HistoryInv, NEW c \in Types, Define(c)
  PROVE  HistoryInv'
<1>1. /\ defined' = defined \cup {c} /\ Bases[c] \subseteq defined
      /\ UNCHANGED <<registry, anywise, calls>>
  BY DEF Define
<1>2. /\ UNCHANGED <<command_mapping, event_mapping, guard_mapping>>
      /\ UNCHANGED <<handler_metas, guards, global_guards, listener_metas>>
      /\ UNCHANGED calls
  BY <1>1 DEF registry, anywise
<1>3. defined' \in SUBSET Types /\ Closed(defined')
  BY <1>1 DEF HistoryInv, Closed
<1>4. TypeOK'
  BY <1>1, <1>2 DEF HistoryInv, TypeOK
<1>5. MappingInv' /\ IsFunction(handler_metas')
  BY <1>2 DEF HistoryInv, MappingInv, IsFunction
<1>6. /\ HeldInv' /\ LastHandlerWins'
      /\ ListenersInOrder' /\ GuardsInOrder' /\ LastIncludeWins' /\ RaisesForWhatIsLost' /\ PastOK(calls')
  BY <1>2 DEF HistoryInv, HeldInv, LastHandlerWins, ListenersInOrder, GuardsInOrder,
     LastIncludeWins, RaisesForWhatIsLost
<1> QED BY <1>3, <1>4, <1>5, <1>6 DEF HistoryInv

LEMMA SameKeepsHistory ==
  ASSUME HistoryInv, UNCHANGED <<defined, registry, anywise, calls>>
  PROVE  HistoryInv'
<1>1. /\ UNCHANGED <<defined, command_mapping, event_mapping, guard_mapping>>
      /\ UNCHANGED <<handler_metas, guards, global_guards, listener_metas, calls>>
  BY DEF registry, anywise
<1>2. TypeOK'
  BY <1>1 DEF HistoryInv, TypeOK
<1>3. MappingInv' /\ IsFunction(handler_metas')
  BY <1>1 DEF HistoryInv, MappingInv, IsFunction
<1>4. /\ HeldInv' /\ LastHandlerWins' /\ defined' \in SUBSET Types /\ Closed(defined')
      /\ ListenersInOrder' /\ GuardsInOrder' /\ LastIncludeWins' /\ RaisesForWhatIsLost' /\ PastOK(calls')
  BY <1>1 DEF HistoryInv, HeldInv, LastHandlerWins, ListenersInOrder, GuardsInOrder,
     LastIncludeWins, RaisesForWhatIsLost
<1> QED BY <1>2, <1>3, <1>4 DEF HistoryInv

(* A call that is no include leaves what is included.                      *)
LEMMA NotIncluded ==
  ASSUME HistoryInv, NEW c, CallOK(c), c.call # "include", calls' = Append(calls, c),
         UNCHANGED anywise
  PROVE  ListenersInOrder' /\ GuardsInOrder' /\ LastIncludeWins'
<1>1. UNCHANGED <<handler_metas, guards, global_guards, listener_metas>>
  BY DEF anywise
<1>2. ASSUME NEW t
      PROVE  /\ ListenersIncluded(calls', t) = ListenersIncluded(calls, t)
             /\ HandlersIncluded(calls', t) = HandlersIncluded(calls, t)
             /\ GuardsIncluded(calls', t) = GuardsIncluded(calls, t)
  <2>1. PastOK(calls)
    BY DEF HistoryInv
  <2>2. /\ ListenersIncluded(calls, t) \in Seq(Meta)
        /\ ListenersIncluded(calls', t) = ListenersIncluded(calls, t) \o <<>>
    BY <2>1, ListenersIncludedGrow
  <2>3. /\ HandlersIncluded(calls, t) \in Seq(Meta)
        /\ HandlersIncluded(calls', t) = HandlersIncluded(calls, t) \o <<>>
    BY <2>1, HandlersIncludedGrow
  <2>4. /\ GuardsIncluded(calls, t) \in Seq(Guards)
        /\ GuardsIncluded(calls', t) = GuardsIncluded(calls, t) \o <<>>
    BY <2>1, GuardsIncludedGrow
  <2> QED BY <2>2, <2>3, <2>4, ConcatEmptySeq
<1> QED BY <1>1, <1>2 DEF HistoryInv, ListenersInOrder, GuardsInOrder, LastIncludeWins

LEMMA ListenersGrow ==
  ASSUME NEW past, PastOK(past), NEW c, CallOK(c), NEW r, NEW t
  PROVE  /\ Listeners(past, r, t) \in Seq(Meta)
         /\ Listeners(Append(past, c), r, t) = Listeners(past, r, t)
              \o (IF c.call # "include" /\ c.reg = r
                  THEN Contributed(c, EventBase[r], t) ELSE <<>>)
<1>1. ASSUME NEW base
      PROVE  /\ Registered(past, r, base, t) \in Seq(Meta)
             /\ Registered(Append(past, c), r, base, t) = Registered(past, r, base, t)
                  \o (IF c.call # "include" /\ c.reg = r
                      THEN Contributed(c, base, t) ELSE <<>>)
  BY RegisteredGrows
<1> QED BY <1>1 DEF Listeners

LEMMA HandlersGrow ==
  ASSUME NEW past, PastOK(past), NEW c, CallOK(c), NEW r, NEW t
  PROVE  /\ Handlers(past, r, t) \in Seq(Meta)
         /\ Handlers(Append(past, c), r, t) = Handlers(past, r, t)
              \o (IF c.call # "include" /\ c.reg = r
                  THEN Contributed(c, CommandBase[r], t) ELSE <<>>)
<1>1. ASSUME NEW base
      PROVE  /\ Registered(past, r, base, t) \in Seq(Meta)
             /\ Registered(Append(past, c), r, base, t) = Registered(past, r, base, t)
                  \o (IF c.call # "include" /\ c.reg = r
                      THEN Contributed(c, base, t) ELSE <<>>)
  BY RegisteredGrows
<1> QED BY <1>1 DEF Handlers

LEMMA HeldTheSame ==
  ASSUME NEW past, PastOK(past), NEW c, CallOK(c), NEW r, NEW t, c.call = "include" \/ c.reg # r
  PROVE  /\ Listeners(Append(past, c), r, t) = Listeners(past, r, t)
         /\ Handlers(Append(past, c), r, t) = Handlers(past, r, t)
         /\ GuardsAdded(Append(past, c), r, t) = GuardsAdded(past, r, t)
<1>1. /\ Listeners(past, r, t) \in Seq(Meta)
      /\ Listeners(Append(past, c), r, t) = Listeners(past, r, t) \o <<>>
  BY ListenersGrow
<1>2. /\ Handlers(past, r, t) \in Seq(Meta)
      /\ Handlers(Append(past, c), r, t) = Handlers(past, r, t) \o <<>>
  BY HandlersGrow
<1>3. /\ GuardsAdded(past, r, t) \in Seq(Guards)
      /\ GuardsAdded(Append(past, c), r, t) = GuardsAdded(past, r, t) \o <<>>
  BY GuardsAddedGrow
<1> QED BY <1>1, <1>2, <1>3, ConcatEmptySeq

LEMMA RaisedGrows ==
  ASSUME PastOK(calls), RaisesForWhatIsLost, NEW c, CallOK(c), calls' = Append(calls, c),
         MISSING \notin {CommandBase[c.reg], EventBase[c.reg]} =>
           (c.raised <=> \E k \in DOMAIN c.what : Lost(c, c.what[k]))
  PROVE  RaisesForWhatIsLost'
<1>1. /\ Len(calls) \in Nat /\ DOMAIN calls = 1..Len(calls)
      /\ DOMAIN calls' = 1..Len(calls) + 1
      /\ \A i \in 1..Len(calls) : calls'[i] = calls[i]
      /\ calls'[Len(calls) + 1] = c
  BY PastGrows
<1> SUFFICES ASSUME NEW i \in DOMAIN calls',
                    MISSING \notin {CommandBase[calls'[i].reg], EventBase[calls'[i].reg]}
             PROVE  calls'[i].raised <=> \E k \in DOMAIN calls'[i].what : Lost(calls'[i], calls'[i].what[k])
  BY DEF RaisesForWhatIsLost, Lost, Signed, Counts, Meant
<1>2. CASE i \in 1..Len(calls)
  BY <1>1, <1>2 DEF RaisesForWhatIsLost
<1>3. CASE i = Len(calls) + 1
  BY <1>1, <1>3
<1> QED BY <1>1, <1>2, <1>3

LEMMA NewHandlersHasLast ==
  ASSUME NEW c, Made(c), NEW t \in Types
  PROVE  /\ HasLast(NewHandlers(c.reg, c.what), t, Contributed(c, CommandBase[c.reg], t))
         /\ t \in DOMAIN NewHandlers(c.reg, c.what) =>
              /\ NewHandlers(c.reg, c.what)[t] \in Meta
              /\ t \in defined
<1> DEFINE metas == NewMetas(c.reg, CommandBase[c.reg], c.what)
<1>1. CommandBase[c.reg] \in Types \cup {MISSING}
  BY RegistryAssumption DEF Made, CallOK, CallRecord
<1>2. /\ metas[t] = Contributed(c, CommandBase[c.reg], t)
      /\ metas[t] # <<>> => t \in defined
      /\ metas[t] \in Seq(Meta)
  BY <1>1, ContributedIs, ContributedType DEF Made
<1>3. /\ DOMAIN NewHandlers(c.reg, c.what) = {u \in Types : metas[u] # <<>>}
      /\ \A u \in DOMAIN NewHandlers(c.reg, c.what) : NewHandlers(c.reg, c.what)[u] = Last(metas[u])
  BY DEF NewHandlers
<1> HIDE DEF metas
<1> QED BY <1>2, <1>3, LastIn DEF HasLast

LEMMA MappingsAtFirst == Init => MappingInv
<1>1. IsFunction(<<>>)
  BY DEF IsFunction
<1> QED BY <1>1 DEF Init, MappingInv, IsFunction

(* One call of a registry: from each mapping of it what the call did to    *)
(* it, and nothing of another registry.                                    *)
LEMMA CollectDoes ==
  ASSUME MappingInv, NEW call, NEW r \in Registries, NEW items, Collect(call, r, items)
  PROVE  /\ MappingInv'
         /\ command_mapping'[r] = Update(command_mapping[r], NewHandlers(r, items))
         /\ \A t \in Types :
              /\ event_mapping'[r][t] = event_mapping[r][t] \o NewMetas(r, EventBase[r], items)[t]
              /\ guard_mapping'[r][t] = guard_mapping[r][t] \o NewGuards(r, items)[t]
         /\ \A q \in Registries \ {r} : /\ command_mapping'[q] = command_mapping[q]
                                        /\ event_mapping'[q] = event_mapping[q]
                                        /\ guard_mapping'[q] = guard_mapping[q]
<1> DEFINE handlers == Update(command_mapping[r], NewHandlers(r, items))
           metas == NewMetas(r, EventBase[r], items)
           added == NewGuards(r, items)
           listeners == [t \in Types |-> event_mapping[r][t] \o metas[t]]
           chains == [t \in Types |-> guard_mapping[r][t] \o added[t]]
<1>1. /\ command_mapping' = [command_mapping EXCEPT ![r] = handlers]
      /\ event_mapping' = [event_mapping EXCEPT ![r] = listeners]
      /\ guard_mapping' = [guard_mapping EXCEPT ![r] = chains]
  BY DEF Collect, MappingInv
<1>2. /\ IsFunction(handlers)
      /\ IsFunction(listeners) /\ DOMAIN listeners = Types
      /\ IsFunction(chains) /\ DOMAIN chains = Types
  BY Updated DEF MappingInv, IsFunction
<1>3. \A t \in Types : /\ listeners[t] = event_mapping[r][t] \o metas[t]
                       /\ chains[t] = guard_mapping[r][t] \o added[t]
  OBVIOUS
<1> HIDE DEF handlers, metas, added, listeners, chains
<1>4. ASSUME NEW m, NEW n, NEW e, IsFunction(m), DOMAIN m = Registries, n = [m EXCEPT ![r] = e]
      PROVE  /\ IsFunction(n) /\ DOMAIN n = Registries
             /\ n[r] = e /\ \A q \in Registries \ {r} : n[q] = m[q]
  BY <1>4 DEF IsFunction
<1>5. /\ IsFunction(command_mapping') /\ DOMAIN command_mapping' = Registries
      /\ command_mapping'[r] = handlers
      /\ \A q \in Registries \ {r} : command_mapping'[q] = command_mapping[q]
  BY <1>1, <1>4 DEF MappingInv
<1>6. /\ IsFunction(event_mapping') /\ DOMAIN event_mapping' = Registries
      /\ event_mapping'[r] = listeners
      /\ \A q \in Registries \ {r} : event_mapping'[q] = event_mapping[q]
  BY <1>1, <1>4 DEF MappingInv
<1>7. /\ IsFunction(guard_mapping') /\ DOMAIN guard_mapping' = Registries
      /\ guard_mapping'[r] = chains
      /\ \A q \in Registries \ {r} : guard_mapping'[q] = guard_mapping[q]
  BY <1>1, <1>4 DEF MappingInv
<1>8. MappingInv'
  <2>1. \A q \in Registries :
          /\ IsFunction(command_mapping'[q])
          /\ IsFunction(event_mapping'[q]) /\ DOMAIN event_mapping'[q] = Types
          /\ IsFunction(guard_mapping'[q]) /\ DOMAIN guard_mapping'[q] = Types
    <3> TAKE q \in Registries
    <3>1. CASE q = r
      BY <1>2, <1>5, <1>6, <1>7, <3>1
    <3>2. CASE q # r
      BY <1>5, <1>6, <1>7, <3>2 DEF MappingInv
    <3> QED BY <3>1, <3>2
  <2> QED BY <1>5, <1>6, <1>7, <2>1 DEF MappingInv, IsFunction
<1> QED BY <1>3, <1>5, <1>6, <1>7, <1>8 DEF handlers, metas, added

LEMMA CollectKeepsHistory ==
  ASSUME HistoryInv, NEW call \in {"register", "add_guards"}, NEW r \in Registries,
         NEW items \in Seq(Given), Collect(call, r, items)
  PROVE  HistoryInv'
<1> DEFINE c == [call |-> call, reg |-> r, what |-> items, seen |-> defined,
                 raised |-> \E i \in DOMAIN items : Refused(r, items[i])]
<1>1. /\ MappingInv /\ PastOK(calls) /\ defined \in SUBSET Types /\ Closed(defined)
      /\ TypeOK /\ HeldInv /\ LastHandlerWins /\ RaisesForWhatIsLost
  BY DEF HistoryInv
<1>2. /\ calls' = Append(calls, c) /\ UNCHANGED <<defined, anywise>>
      /\ AnnotationsExist(items)
  BY DEF Collect, Ends
<1>3. /\ Made(c) /\ CallOK(c) /\ c.call # "include" /\ c.reg = r /\ c.what = items
      /\ c.raised <=> \E i \in DOMAIN items : Refused(r, items[i])
  BY <1>1, <1>2 DEF CallOK, CallRecord, Made
<1> HIDE DEF c
<1>4. /\ MappingInv'
      /\ command_mapping'[r] = Update(command_mapping[r], NewHandlers(r, items))
      /\ \A t \in Types :
           /\ event_mapping'[r][t] = event_mapping[r][t] \o NewMetas(r, EventBase[r], items)[t]
           /\ guard_mapping'[r][t] = guard_mapping[r][t] \o NewGuards(r, items)[t]
      /\ \A q \in Registries \ {r} : /\ command_mapping'[q] = command_mapping[q]
                                     /\ event_mapping'[q] = event_mapping[q]
                                     /\ guard_mapping'[q] = guard_mapping[q]
  BY <1>1, CollectDoes
<1>5. ASSUME NEW t \in Types
      PROVE  /\ Contributed(c, EventBase[r], t) = NewMetas(r, EventBase[r], items)[t]
             /\ Guarded(c, t) = NewGuards(r, items)[t]
             /\ Contributed(c, CommandBase[r], t) \in Seq(Meta)
  <2>1. EventBase[r] \in Types \cup {MISSING}
    BY RegistryAssumption
  <2>2. NewMetas(c.reg, EventBase[r], c.what)[t] = Contributed(c, EventBase[r], t)
    BY <1>3, <2>1, ContributedIs
  <2>3. NewGuards(c.reg, c.what)[t] = Guarded(c, t)
    BY <1>3, GuardedIs
  <2>4. Contributed(c, CommandBase[r], t) \in Seq(Meta)
    BY <1>3, ContributedType
  <2> QED BY <1>3, <2>2, <2>3, <2>4
<1>6. LastHandlerWins'
  <2> SUFFICES ASSUME NEW q \in Registries, NEW t \in Types
               PROVE  HasLast(command_mapping'[q], t, Handlers(calls', q, t))
    BY DEF LastHandlerWins
  <2>1. HasLast(command_mapping[q], t, Handlers(calls, q, t))
    BY <1>1 DEF LastHandlerWins
  <2>2. CASE q = r
    <3>1. /\ Handlers(calls, r, t) \in Seq(Meta)
          /\ Handlers(calls', r, t) = Handlers(calls, r, t) \o Contributed(c, CommandBase[r], t)
      BY <1>1, <1>2, <1>3, HandlersGrow
    <3>2. HasLast(NewHandlers(r, items), t, Contributed(c, CommandBase[r], t))
      BY <1>3, NewHandlersHasLast
    <3> QED BY <1>4, <1>5, <2>1, <2>2, <3>1, <3>2, UpdateHasLast
  <2>3. CASE q # r
    BY <1>1, <1>2, <1>3, <1>4, <2>1, <2>3, HeldTheSame
  <2> QED BY <2>2, <2>3
<1>7. HeldInv'
  <2> SUFFICES ASSUME NEW q \in Registries, NEW t \in Types
               PROVE  /\ event_mapping'[q][t] = Listeners(calls', q, t)
                      /\ guard_mapping'[q][t] = GuardsAdded(calls', q, t)
    BY DEF HeldInv
  <2>1. /\ event_mapping[q][t] = Listeners(calls, q, t)
        /\ guard_mapping[q][t] = GuardsAdded(calls, q, t)
    BY <1>1 DEF HeldInv
  <2>2. CASE q = r
    <3>1. Listeners(calls', r, t) = Listeners(calls, r, t) \o Contributed(c, EventBase[r], t)
      BY <1>1, <1>2, <1>3, ListenersGrow
    <3>2. GuardsAdded(calls', r, t) = GuardsAdded(calls, r, t) \o Guarded(c, t)
      BY <1>1, <1>2, <1>3, GuardsAddedGrow
    <3> QED BY <1>4, <1>5, <2>1, <2>2, <3>1, <3>2
  <2>3. CASE q # r
    BY <1>1, <1>2, <1>3, <1>4, <2>1, <2>3, HeldTheSame
  <2> QED BY <2>2, <2>3
<1>8. PastOK(calls')
  BY <1>1, <1>2, <1>3, PastGrows
<1>9. TypeOK'
  <2>1. /\ DOMAIN command_mapping'[r] \subseteq defined
        /\ \A t \in DOMAIN command_mapping'[r] : command_mapping'[r][t] \in Meta
    <3>1. DOMAIN NewHandlers(r, items) \subseteq Types
      BY DEF NewHandlers
    <3>2. \A t \in DOMAIN NewHandlers(r, items) :
            t \in defined /\ NewHandlers(r, items)[t] \in Meta
      BY <1>3, <3>1, NewHandlersHasLast
    <3> QED BY <1>1, <1>4, <3>2 DEF Update, TypeOK
  <2>2. \A q \in Registries : /\ DOMAIN command_mapping'[q] \subseteq defined'
                              /\ \A t \in DOMAIN command_mapping'[q] :
                                   command_mapping'[q][t] \in Meta
    BY <1>1, <1>2, <1>4, <2>1 DEF TypeOK
  <2>3. \A q \in Registries, t \in Types : /\ event_mapping'[q][t] \in Seq(Meta)
                                           /\ guard_mapping'[q][t] \in Seq(Guards)
    <3> TAKE q \in Registries, t \in Types
    <3>1. Listeners(calls', q, t) \in Seq(Meta)
      BY <1>3, <1>8, ListenersGrow
    <3>2. GuardsAdded(calls', q, t) \in Seq(Guards)
      BY <1>3, <1>8, GuardsAddedGrow
    <3> QED BY <1>7, <3>1, <3>2 DEF HeldInv
  <2>4. /\ event_mapping' \in [Registries -> [Types -> Seq(Meta)]]
        /\ guard_mapping' \in [Registries -> [Types -> Seq(Guards)]]
    BY <1>4, <2>3 DEF MappingInv, IsFunction
  <2> QED BY <1>1, <1>2, <2>2, <2>4 DEF TypeOK, anywise
<1>10. ListenersInOrder' /\ GuardsInOrder' /\ LastIncludeWins'
  BY <1>2, <1>3, NotIncluded
<1>11. RaisesForWhatIsLost'
  <2>1. MISSING \notin {CommandBase[c.reg], EventBase[c.reg]} =>
          (c.raised <=> \E k \in DOMAIN c.what : Lost(c, c.what[k]))
    BY <1>3, LostIs
  <2> QED BY <1>1, <1>2, <1>3, <2>1, RaisedGrows
<1>12. /\ IsFunction(handler_metas') /\ defined' \in SUBSET Types /\ Closed(defined')
  BY <1>1, <1>2 DEF HistoryInv, anywise, IsFunction
<1> QED BY <1>4, <1>6, <1>7, <1>8, <1>9, <1>10, <1>11, <1>12 DEF HistoryInv

LEMMA IncludeKeepsHistory ==
  ASSUME HistoryInv, NEW r \in Registries, Include(r)
  PROVE  HistoryInv'
<1> DEFINE c == [call |-> "include", reg |-> r, what |-> <<>>, seen |-> defined,
                raised |-> FALSE]
<1>1. /\ MappingInv /\ PastOK(calls) /\ defined \in SUBSET Types /\ Closed(defined)
      /\ TypeOK /\ HeldInv /\ LastHandlerWins /\ IsFunction(handler_metas)
      /\ ListenersInOrder /\ GuardsInOrder /\ LastIncludeWins
      /\ RaisesForWhatIsLost
  BY DEF HistoryInv
<1>2. /\ handler_metas' = Update(handler_metas, command_mapping[r])
      /\ global_guards' = global_guards \o guard_mapping[r][AnyType]
      /\ guards' = [t \in DOMAIN guards |-> guards[t] \o guard_mapping[r][t]]
      /\ listener_metas' = [t \in Types |-> listener_metas[t] \o event_mapping[r][t]]
      /\ UNCHANGED <<defined, command_mapping, event_mapping, guard_mapping>>
      /\ calls' = Append(calls, c)
  BY DEF Include, IncludeGuards, IncludeListeners, Ends, registry
<1>3. CallOK(c) /\ c.call = "include" /\ c.reg = r /\ c.what = <<>> /\ ~ c.raised
  BY <1>1, EmptySeq DEF CallOK, CallRecord
<1> HIDE DEF c
<1>4. ASSUME NEW q \in Registries, NEW t \in Types
      PROVE  /\ Handlers(calls', q, t) = Handlers(calls, q, t)
             /\ Listeners(calls', q, t) = Listeners(calls, q, t)
             /\ GuardsAdded(calls', q, t) = GuardsAdded(calls, q, t)
             /\ Handlers(calls, q, t) \in Seq(Meta)
             /\ Listeners(calls, q, t) \in Seq(Meta)
             /\ GuardsAdded(calls, q, t) \in Seq(Guards)
  <2>1. /\ Handlers(calls, q, t) \in Seq(Meta) /\ Listeners(calls, q, t) \in Seq(Meta)
        /\ GuardsAdded(calls, q, t) \in Seq(Guards)
    BY <1>1, <1>3, ListenersGrow, HandlersGrow, GuardsAddedGrow
  <2> QED BY <1>1, <1>2, <1>3, <2>1, HeldTheSame
<1>5. ASSUME NEW t \in Types
      PROVE  /\ ListenersIncluded(calls, t) \in Seq(Meta)
             /\ ListenersIncluded(calls', t) =
                  ListenersIncluded(calls, t) \o Listeners(calls, r, t)
             /\ HandlersIncluded(calls, t) \in Seq(Meta)
             /\ HandlersIncluded(calls', t) =
                  HandlersIncluded(calls, t) \o Handlers(calls, r, t)
             /\ GuardsIncluded(calls, t) \in Seq(Guards)
             /\ GuardsIncluded(calls', t) =
                  GuardsIncluded(calls, t) \o GuardsAdded(calls, r, t)
  <2>1. /\ ListenersIncluded(calls, t) \in Seq(Meta)
        /\ ListenersIncluded(calls', t) =
             ListenersIncluded(calls, t) \o Listeners(calls, r, t)
    BY <1>1, <1>2, <1>3, ListenersIncludedGrow
  <2>2. /\ HandlersIncluded(calls, t) \in Seq(Meta)
        /\ HandlersIncluded(calls', t) =
             HandlersIncluded(calls, t) \o Handlers(calls, r, t)
    BY <1>1, <1>2, <1>3, HandlersIncludedGrow
  <2>3. /\ GuardsIncluded(calls, t) \in Seq(Guards)
        /\ GuardsIncluded(calls', t) =
             GuardsIncluded(calls, t) \o GuardsAdded(calls, r, t)
    BY <1>1, <1>2, <1>3, GuardsIncludedGrow
  <2> QED BY <2>1, <2>2, <2>3
<1>6. HeldInv' /\ LastHandlerWins'
  BY <1>1, <1>2, <1>4 DEF HeldInv, LastHandlerWins
<1>7. ListenersInOrder'
  BY <1>1, <1>2, <1>5 DEF HeldInv, ListenersInOrder
<1>8. GuardsInOrder'
  <2>1. AnyType \in Types /\ DOMAIN guards = Types \ {AnyType}
    BY <1>1, RegistryAssumption DEF TypeOK
  <2> QED BY <1>1, <1>2, <1>5, <2>1 DEF HeldInv, GuardsInOrder
<1>9. LastIncludeWins'
  <2> SUFFICES ASSUME NEW t \in Types
               PROVE  HasLast(handler_metas', t, HandlersIncluded(calls', t))
    BY DEF LastIncludeWins
  <2>1. HasLast(handler_metas, t, HandlersIncluded(calls, t))
    BY <1>1 DEF LastIncludeWins
  <2>2. HasLast(command_mapping[r], t, Handlers(calls, r, t))
    BY <1>1 DEF LastHandlerWins
  <2> QED BY <1>2, <1>4, <1>5, <2>1, <2>2, UpdateHasLast
<1>10. MappingInv' /\ IsFunction(handler_metas') /\ PastOK(calls')
       /\ defined' \in SUBSET Types /\ Closed(defined')
  <2>1. IsFunction(handler_metas')
    BY <1>1, <1>2, Updated
  <2>2. PastOK(calls')
    BY <1>1, <1>2, <1>3, PastGrows
  <2> QED BY <1>1, <1>2, <2>1, <2>2 DEF MappingInv, IsFunction
<1>11. TypeOK'
  <2>1. /\ DOMAIN handler_metas' \subseteq defined
        /\ \A t \in DOMAIN handler_metas' : handler_metas'[t] \in Meta
    BY <1>1, <1>2 DEF Update, TypeOK
  <2>2. \A t \in Types : listener_metas'[t] \in Seq(Meta)
    BY <1>1, <1>2, ConcatProperties DEF TypeOK
  <2>3. \A t \in Types \ {AnyType} : guards'[t] \in Seq(Guards)
    BY <1>1, <1>2, ConcatProperties DEF TypeOK
  <2>4. global_guards' \in Seq(Guards)
    BY <1>1, <1>2, ConcatProperties, RegistryAssumption DEF TypeOK
  <2>5. listener_metas' \in [Types -> Seq(Meta)]
    BY <1>2, <2>2
  <2>6. guards' \in [Types \ {AnyType} -> Seq(Guards)]
    BY <1>1, <1>2, <2>3 DEF TypeOK
  <2> QED BY <1>1, <1>2, <2>1, <2>4, <2>5, <2>6 DEF TypeOK
<1>12. RaisesForWhatIsLost'
  <2>1. ~ \E k \in DOMAIN c.what : Lost(c, c.what[k])
    BY <1>3
  <2> QED BY <1>1, <1>2, <1>3, <2>1, RaisedGrows
<1> QED BY <1>6, <1>7, <1>8, <1>9, <1>10, <1>11, <1>12 DEF HistoryInv

LEMMA CallsAreSequences ==
  \A r \in Registries : RegisterCalls[r] \subseteq Seq(Given) /\ GuardCalls[r] \subseteq Seq(Given)
<1> SUFFICES ASSUME NEW r \in Registries, NEW items \in GuardCalls[r]
             PROVE  items \in Seq(Given)
  BY RegistryAssumption DEF Given
<1>1. items \in Seq(Guards)
  BY RegistryAssumption
<1>2. \A i \in 1..Len(items) : items[i] \in Given
  BY <1>1, ElementOfSeq DEF Given
<1>3. items = [i \in 1..Len(items) |-> items[i]] /\ Len(items) \in Nat
  BY <1>1, LenProperties
<1> QED BY <1>2, <1>3

LEMMA HistoryStep == HistoryInv /\ [Next]_vars => HistoryInv'
<1> SUFFICES ASSUME HistoryInv, [Next]_vars PROVE HistoryInv'
  OBVIOUS
<1>1. CASE UNCHANGED vars
  <2>1. UNCHANGED <<defined, registry, anywise, calls>>
    BY <1>1 DEF vars
  <2> QED BY <2>1, SameKeepsHistory
<1>2. ASSUME NEW r \in Registries, Register(r) \/ AddGuards(r) PROVE HistoryInv'
  BY <1>2, CallsAreSequences, CollectKeepsHistory DEF Register, AddGuards
<1> QED BY <1>1, <1>2, DefineKeepsHistory, IncludeKeepsHistory DEF Next

LEMMA NoHistory ==
  ASSUME NEW r, NEW t
  PROVE  /\ Listeners(<<>>, r, t) = <<>> /\ Handlers(<<>>, r, t) = <<>>
         /\ GuardsAdded(<<>>, r, t) = <<>>
         /\ ListenersIncluded(<<>>, t) = <<>> /\ HandlersIncluded(<<>>, t) = <<>>
         /\ GuardsIncluded(<<>>, t) = <<>>
<1>1. \A f : f = [i \in DOMAIN <<>> |-> f[i]] => f = <<>>
  OBVIOUS
<1> QED BY <1>1, FlattenNothing DEF Listeners, Handlers, Registered, GuardsAdded,
        ListenersIncluded, HandlersIncluded, GuardsIncluded

LEMMA HistoryInit == Init => HistoryInv
<1> SUFFICES ASSUME Init PROVE HistoryInv
  OBVIOUS
<1>1. PastOK(calls)
  BY EmptySeq DEF Init, PastOK
<1>2. defined \in SUBSET Types /\ Closed(defined)
  BY RegistryAssumption DEF Init, Closed
<1>3. IsFunction(handler_metas) /\ DOMAIN handler_metas = {}
  BY DEF Init, IsFunction
<1>4. TypeOK
  <2>1. \A r \in Registries : DOMAIN command_mapping[r] = {}
    BY DEF Init
  <2>2. <<>> \in Seq(Meta) /\ <<>> \in Seq(Guards)
    BY EmptySeq
  <2> QED BY <1>2, <1>3, <2>1, <2>2 DEF Init, TypeOK
<1>5. HeldInv /\ ListenersInOrder /\ GuardsInOrder
  BY NoHistory, RegistryAssumption DEF Init, HeldInv, ListenersInOrder, GuardsInOrder
<1>6. LastHandlerWins /\ LastIncludeWins /\ RaisesForWhatIsLost
  BY NoHistory DEF Init, LastHandlerWins, LastIncludeWins, HasLast, RaisesForWhatIsLost
<1> QED BY <1>1, <1>2, <1>3, <1>4, <1>5, <1>6, MappingsAtFirst DEF HistoryInv

LEMMA HistoryInvHolds == Spec => []HistoryInv
BY HistoryInit, HistoryStep, PTL DEF Spec

(* The mappings of the registries and of the managers have their types.    *)
THEOREM RegistryTypes == Spec => []TypeOK
<1>1. HistoryInv => TypeOK
  BY DEF HistoryInv
<1> QED BY <1>1, HistoryInvHolds, PTL

(* Whatever is registered in whatever order, with calls that raise half    *)
(* way and classes that come to be in between: the handler of a command in *)
(* a registry is the last that was taken for it or for a base of it known  *)
(* then, and a type of another base or of a function that is refused has   *)
(* none.                                                                   *)
THEOREM HandlerIsTheLast == Spec => []LastHandlerWins
<1>1. HistoryInv => LastHandlerWins
  BY DEF HistoryInv
<1> QED BY <1>1, HistoryInvHolds, PTL

(* An event has every listener meant for it, once per registration and     *)
(* include and in their order, for any class hierarchy: a class below two  *)
(* bases that are both named is collected once.                            *)
THEOREM ListenersOnceInOrder == Spec => []ListenersInOrder
<1>1. HistoryInv => ListenersInOrder
  BY DEF HistoryInv
<1> QED BY <1>1, HistoryInvHolds, PTL

(* The same for the guards, global ones and those of each command: no      *)
(* guard that was included is dropped, doubled or moved.                   *)
THEOREM GuardsOnceInOrder == Spec => []GuardsInOrder
<1>1. HistoryInv => GuardsInOrder
  BY DEF HistoryInv
<1> QED BY <1>1, HistoryInvHolds, PTL

(* Of any number of registries with a handler for a command the one that   *)
(* was included last is heard, with what it held when it was included.     *)
THEOREM IncludedLastIsHeard == Spec => []LastIncludeWins
<1>1. HistoryInv => LastIncludeWins
  BY DEF HistoryInv
<1> QED BY <1>1, HistoryInvHolds, PTL
(* In a registry with both bases no call loses anything without raising,   *)
(* and none raises for nothing.                                            *)
THEOREM NothingLostInSilence == Spec => []RaisesForWhatIsLost
<1>1. HistoryInv => RaisesForWhatIsLost
  BY DEF HistoryInv
<1> QED BY <1>1, HistoryInvHolds, PTL
=============================================================================
