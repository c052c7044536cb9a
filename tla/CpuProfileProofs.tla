-------------------------- MODULE CpuProfileProofs --------------------------
(***************************************************************************)
(* The proto of a CPU profile reads back as the dictionary it is built of, *)
(* for every dictionary: the tables of Builder only grow and hold nothing  *)
(* twice, so that a number, once given out, is of the same string,         *)
(* function or location until the proto is serialized.                     *)
(***************************************************************************)
EXTENDS CpuProfile, AttributionProofs, SequenceTheorems

-----------------------------------------------------------------------------
(***************************************************************************)
(* FoldLeft is a chain of steps.  MapThenFoldSet defines it by a function  *)
(* on the sets of positions, which exists when the steps stay in a set.    *)
(***************************************************************************)

\* The largest of the positions is taken first.
FoldStep(base, step, n, iter) ==
  [s \in SUBSET (1 .. n) |-> IF s = {} THEN base ELSE step[<<iter[s \ {Max(s)}], Max(s)>>]]

FoldSteps(S, n) == [S \X (1 .. n) -> S]
FoldHasSolution(base, step, S, n) ==
  \E iter \in [SUBSET (1 .. n) -> S] : iter = FoldStep(base, step, n, iter)

\* A set of positions has a largest one, and it is Max.
LEMMA LargestPosition ==
  ASSUME NEW n \in Nat, NEW s \in SUBSET (1 .. n), s # {}
  PROVE  Max(s) \in s /\ \A i \in s : i <= Max(s)
<1> DEFINE Bounded == {k \in Nat : \A t \in SUBSET (1 .. k) : t # {} =>
                                     \E x \in t : \A y \in t : x >= y}
<1>1. 0 \in Bounded
  <2>1. 1 .. 0 = {}
    OBVIOUS
  <2> QED
    BY <2>1
<1>2. ASSUME NEW k \in Nat, k \in Bounded PROVE k + 1 \in Bounded
  <2> SUFFICES ASSUME NEW t \in SUBSET (1 .. k + 1), t # {}
               PROVE  \E x \in t : \A y \in t : x >= y
    OBVIOUS
  <2>1. CASE k + 1 \in t
    BY <2>1
  <2>2. CASE k + 1 \notin t
    <3>1. t \in SUBSET (1 .. k)
      BY <2>2
    <3> QED
      BY <1>2, <3>1
  <2> QED
    BY <2>1, <2>2
<1>3. Nat \subseteq Bounded
  <2> HIDE DEF Bounded
  <2> QED
    BY <1>1, <1>2, NatSetInduction
<1>4. \E x \in s : \A y \in s : x >= y
  BY <1>3
<1>5. Max(s) \in s /\ \A y \in s : Max(s) >= y
  BY <1>4 DEF Max
<1> QED
  BY <1>5

\* Steps that stay in S are folded by a function into S.
LEMMA FoldSolvable ==
  ASSUME NEW n \in Nat, NEW S, NEW base \in S, NEW step \in FoldSteps(S, n)
  PROVE  FoldHasSolution(base, step, S, n)
<1> DEFINE Rest(s) == s \ {Max(s)}
           Small(k) == {s \in SUBSET (1 .. n) : s \subseteq 1 .. k}
           Solves(iter, k) == \A s \in Small(k) :
             iter[s] = IF s = {} THEN base ELSE step[<<iter[Rest(s)], Max(s)>>]
           Within == {k \in Nat : \E iter \in [SUBSET (1 .. n) -> S] : Solves(iter, k)}
<1>1. ASSUME NEW s \in SUBSET (1 .. n), s # {}
      PROVE  Max(s) \in 1 .. n /\ Rest(s) \in SUBSET (1 .. n)
  BY <1>1, LargestPosition
<1>2. ASSUME NEW k \in Nat, NEW s \in Small(k + 1), s # {}
      PROVE  Rest(s) \in Small(k)
  <2>1. Max(s) \in s /\ \A i \in s : i <= Max(s)
    BY <1>2, LargestPosition
  <2>2. ASSUME NEW i \in s, i # Max(s) PROVE i \in 1 .. k
    <3>1. i \in 1 .. k + 1 /\ Max(s) \in 1 .. k + 1 /\ i <= Max(s)
      BY <2>1
    <3> QED
      BY <2>2, <3>1
  <2> QED
    BY <2>2
<1>3. 0 \in Within
  <2> DEFINE iter == [s \in SUBSET (1 .. n) |-> base]
  <2>1. iter \in [SUBSET (1 .. n) -> S] /\ \A s \in Small(0) : s = {} /\ iter[s] = base
    OBVIOUS
  <2>2. Solves(iter, 0)
    BY <2>1
  <2> HIDE DEF iter, Solves
  <2> QED
    BY <2>1, <2>2
<1>4. ASSUME NEW k \in Nat, k \in Within PROVE k + 1 \in Within
  <2>1. PICK g \in [SUBSET (1 .. n) -> S] : Solves(g, k)
    BY <1>4
  <2> DEFINE h == [s \in SUBSET (1 .. n) |->
                     IF s = {} THEN base ELSE step[<<g[Rest(s)], Max(s)>>]]
  <2>2. h \in [SUBSET (1 .. n) -> S]
    <3> SUFFICES ASSUME NEW s \in SUBSET (1 .. n), s # {} PROVE step[<<g[Rest(s)], Max(s)>>] \in S
      OBVIOUS
    <3>1. Max(s) \in 1 .. n /\ Rest(s) \in SUBSET (1 .. n)
      BY <1>1
    <3> HIDE DEF Rest
    <3> QED
      BY <3>1 DEF FoldSteps
  <2>3. \A s \in Small(k) : h[s] = g[s]
    BY <2>1
  <2>4. ASSUME NEW s \in Small(k + 1)
        PROVE  h[s] = IF s = {} THEN base ELSE step[<<h[Rest(s)], Max(s)>>]
    <3>1. h[s] = IF s = {} THEN base ELSE step[<<g[Rest(s)], Max(s)>>]
      OBVIOUS
    <3>2. ASSUME s # {} PROVE h[Rest(s)] = g[Rest(s)]
      <4>1. Rest(s) \in Small(k)
        BY <1>2, <3>2
      <4> HIDE DEF Rest, h, Small
      <4> QED
        BY <2>3, <4>1
    <3> HIDE DEF h, Rest
    <3> QED
      BY <3>1, <3>2
  <2>5. Solves(h, k + 1)
    <3> HIDE DEF h, Rest, Small
    <3> QED
      BY <2>4
  <2> HIDE DEF h, Solves
  <2> QED
    BY <2>2, <2>5
<1>5. n \in Within
  <2> HIDE DEF Within
  <2> QED
    BY <1>3, <1>4, NatSetInduction
<1>6. PICK iter \in [SUBSET (1 .. n) -> S] : Solves(iter, n)
  <2> HIDE DEF Solves
  <2> QED
    BY <1>5
<1>7. iter = FoldStep(base, step, n, iter)
  <2>1. iter = [s \in SUBSET (1 .. n) |-> iter[s]]
    OBVIOUS
  <2> QED
    BY <1>6, <2>1 DEF FoldStep
<1> QED
  BY <1>7 DEF FoldHasSolution

\* The prefixes of the positions.
LEMMA LastPosition ==
  ASSUME NEW k \in Nat
  PROVE  /\ 1 .. (k + 1) # {} /\ Max(1 .. (k + 1)) = k + 1
         /\ (1 .. (k + 1)) \ {k + 1} = 1 .. k
<1>1. Max(1 .. (k + 1)) \in 1 .. (k + 1) /\ \A i \in 1 .. (k + 1) : i <= Max(1 .. (k + 1))
  <2>1. k + 1 \in Nat /\ 1 .. (k + 1) # {}
    OBVIOUS
  <2> QED
    BY <2>1, LargestPosition
<1> QED
  BY <1>1

-----------------------------------------------------------------------------
(***************************************************************************)
(* Tables that grow, with no entry twice.                                  *)
(***************************************************************************)

Longer(t, u) == Len(t) <= Len(u) /\ \A i \in 1 .. Len(t) : u[i] = t[i]

Interned(t, S) == t \in Seq(S) /\ IsInjective(t)

\* An entry is where it was, and a new one is at the end.
LEMMA AddedEntry ==
  ASSUME NEW S, NEW t, Interned(t, S), NEW x \in S
  PROVE  /\ Interned(Added(t, x), S) /\ Longer(t, Added(t, x))
         /\ x \in ToSet(Added(t, x))
<1>1. t \in Seq(S) /\ Len(t) \in Nat /\ DOMAIN t = 1 .. Len(t)
  BY LenProperties DEF Interned
<1>2. CASE x \in ToSet(t)
  BY <1>1, <1>2 DEF Added, Longer
<1>3. CASE x \notin ToSet(t)
  <2> DEFINE u == Append(t, x)
  <2>1. /\ u \in Seq(S) /\ Len(u) = Len(t) + 1 /\ DOMAIN u = 1 .. (Len(t) + 1)
        /\ \A i \in 1 .. Len(t) : u[i] = t[i]
        /\ u[Len(t) + 1] = x
    BY <1>1, AppendProperties, LenProperties
  <2>2. Added(t, x) = u
    BY <1>3 DEF Added
  <2> HIDE DEF u
  <2>3. \A i \in 1 .. Len(t) : t[i] # x
    BY <1>1, <1>3 DEF ToSet
  <2>4. ASSUME NEW i \in DOMAIN u, NEW j \in DOMAIN u, u[i] = u[j] PROVE i = j
    <3>1. CASE i \in 1 .. Len(t) /\ j \in 1 .. Len(t)
      BY <1>1, <2>1, <2>4, <3>1 DEF Interned, IsInjective
    <3>2. CASE i = Len(t) + 1 \/ j = Len(t) + 1
      BY <1>1, <2>1, <2>3, <2>4, <3>2
    <3> QED
      BY <1>1, <2>1, <3>1, <3>2
  <2>5. IsInjective(u)
    BY <2>4 DEF IsInjective
  <2>6. Len(t) + 1 \in DOMAIN u
    BY <1>1, <2>1
  <2> QED
    BY <1>1, <2>1, <2>2, <2>5, <2>6 DEF Interned, Longer, ToSet
<1> QED
  BY <1>2, <1>3

\* The entry of a number.
LEMMA EntryNumber ==
  ASSUME NEW S, NEW t \in Seq(S), NEW x \in ToSet(t)
  PROVE  NumberOf(t, x) \in 1 .. Len(t) /\ t[NumberOf(t, x)] = x
BY LenProperties DEF NumberOf, ToSet

\* An entry keeps its number in a longer table.
LEMMA EntryStays ==
  ASSUME NEW S, NEW t \in Seq(S), NEW u, Interned(u, S), Longer(t, u), NEW x \in ToSet(t)
  PROVE  x \in ToSet(u) /\ NumberOf(u, x) = NumberOf(t, x)
<1>1. /\ NumberOf(t, x) \in 1 .. Len(t) /\ t[NumberOf(t, x)] = x
      /\ Len(t) \in Nat /\ Len(u) \in Nat /\ DOMAIN u = 1 .. Len(u)
  BY EntryNumber, LenProperties DEF Interned
<1>2. NumberOf(t, x) \in DOMAIN u /\ u[NumberOf(t, x)] = x
  BY <1>1 DEF Longer
<1>3. x \in ToSet(u)
  BY <1>2 DEF ToSet
<1>4. NumberOf(u, x) \in DOMAIN u /\ u[NumberOf(u, x)] = x
  BY <1>1, <1>3, EntryNumber DEF Interned
<1> QED
  BY <1>2, <1>3, <1>4 DEF Interned, IsInjective

\* Tables that grow twice have grown.
LEMMA LongerTransitive ==
  ASSUME NEW S, NEW t \in Seq(S), NEW u \in Seq(S), NEW v \in Seq(S),
         Longer(t, u), Longer(u, v)
  PROVE  Longer(t, v)
<1>1. Len(t) \in Nat /\ Len(u) \in Nat /\ Len(v) \in Nat
  BY LenProperties
<1> QED
  BY <1>1 DEF Longer

-----------------------------------------------------------------------------
(***************************************************************************)
(* The proto under construction: V has its strings, L its lines.           *)
(***************************************************************************)
ProtoFunctions == [name : Nat, filename : Nat]
ProtoLocations(L) == [func_id : Nat, line_number : L]
ProtoSamples == [value : Int \X Int, location_id : Seq(Nat)]

\* Numbers are of entries.
Referring(b) ==
  /\ \A i \in 1 .. Len(b.function) :
       b.function[i].name < Len(b.string_table) /\ b.function[i].filename < Len(b.string_table)
  /\ \A i \in 1 .. Len(b.location) : b.location[i].func_id \in 1 .. Len(b.function)
  /\ \A i \in 1 .. Len(b.sample) : \A j \in DOMAIN b.sample[i].location_id :
       b.sample[i].location_id[j] \in 1 .. Len(b.location)

Builders(V, L) ==
  {b \in [string_table : Seq(V), function : Seq(ProtoFunctions),
          location : Seq(ProtoLocations(L)), sample : Seq(ProtoSamples)] :
     /\ Len(b.string_table) >= 1 /\ b.string_table[1] = EmptyString
     /\ IsInjective(b.string_table) /\ IsInjective(b.function) /\ IsInjective(b.location)
     /\ Referring(b)}

\* c has what b has, in the same places.
Grows(b, c) ==
  /\ Longer(b.string_table, c.string_table) /\ Longer(b.function, c.function)
  /\ Longer(b.location, c.location)

\* What is known of every proto under construction.
LEMMA BuilderTypes ==
  ASSUME NEW V, NEW L, NEW b \in Builders(V, L)
  PROVE  /\ b = [string_table |-> b.string_table, function |-> b.function,
                 location |-> b.location, sample |-> b.sample]
         /\ Interned(b.string_table, V) /\ Interned(b.function, ProtoFunctions)
         /\ Interned(b.location, ProtoLocations(L)) /\ b.sample \in Seq(ProtoSamples)
         /\ Len(b.string_table) \in Nat /\ Len(b.function) \in Nat /\ Len(b.location) \in Nat
         /\ Len(b.sample) \in Nat /\ Referring(b)
         /\ Len(b.string_table) >= 1 /\ b.string_table[1] = EmptyString
<1>1. b \in [string_table : Seq(V), function : Seq(ProtoFunctions),
             location : Seq(ProtoLocations(L)), sample : Seq(ProtoSamples)]
  BY DEF Builders
<1>2. /\ b.string_table \in Seq(V) /\ b.function \in Seq(ProtoFunctions)
      /\ b.location \in Seq(ProtoLocations(L)) /\ b.sample \in Seq(ProtoSamples)
  BY <1>1
<1>3. /\ Len(b.string_table) \in Nat /\ Len(b.function) \in Nat /\ Len(b.location) \in Nat
      /\ Len(b.sample) \in Nat
  BY <1>2, LenProperties
<1> QED
  BY <1>1, <1>2, <1>3 DEF Builders, Interned

\* Protos that grow twice have grown.
LEMMA GrowsTransitive ==
  ASSUME NEW V, NEW L, NEW b \in Builders(V, L), NEW c \in Builders(V, L),
         NEW d \in Builders(V, L), Grows(b, c), Grows(c, d)
  PROVE  Grows(b, d)
<1>1. /\ b.string_table \in Seq(V) /\ c.string_table \in Seq(V) /\ d.string_table \in Seq(V)
      /\ b.function \in Seq(ProtoFunctions) /\ c.function \in Seq(ProtoFunctions)
      /\ d.function \in Seq(ProtoFunctions)
      /\ b.location \in Seq(ProtoLocations(L)) /\ c.location \in Seq(ProtoLocations(L))
      /\ d.location \in Seq(ProtoLocations(L))
  BY BuilderTypes DEF Interned
<1>2. Longer(b.string_table, d.string_table)
  BY <1>1, LongerTransitive DEF Grows
<1>3. Longer(b.function, d.function)
  BY <1>1, LongerTransitive DEF Grows
<1>4. Longer(b.location, d.location)
  BY <1>1, LongerTransitive DEF Grows
<1> QED
  BY <1>2, <1>3, <1>4 DEF Grows

\* A proto has what it has.
LEMMA GrowsReflexive == ASSUME NEW V, NEW L, NEW b \in Builders(V, L) PROVE Grows(b, b)
<1>1. Len(b.string_table) \in Nat /\ Len(b.function) \in Nat /\ Len(b.location) \in Nat
  BY BuilderTypes
<1> QED
  BY <1>1 DEF Grows, Longer

\* A proto whose tables are replaced by longer ones.
LEMMA Replaced ==
  ASSUME NEW V, NEW L, NEW b \in Builders(V, L),
         NEW s, Interned(s, V), Longer(b.string_table, s),
         NEW f, Interned(f, ProtoFunctions), Longer(b.function, f),
         NEW l, Interned(l, ProtoLocations(L)), Longer(b.location, l),
         \A i \in 1 .. Len(f) : f[i].name < Len(s) /\ f[i].filename < Len(s),
         \A i \in 1 .. Len(l) : l[i].func_id \in 1 .. Len(f)
  PROVE  LET c == [string_table |-> s, function |-> f, location |-> l, sample |-> b.sample]
         IN  c \in Builders(V, L) /\ Grows(b, c)
<1> DEFINE c == [string_table |-> s, function |-> f, location |-> l, sample |-> b.sample]
<1>1. /\ b.sample \in Seq(ProtoSamples) /\ Referring(b) /\ Len(b.string_table) \in Nat
      /\ Len(b.string_table) >= 1 /\ b.string_table[1] = EmptyString /\ Len(b.location) \in Nat
  BY BuilderTypes
<1>2. /\ s \in Seq(V) /\ f \in Seq(ProtoFunctions) /\ l \in Seq(ProtoLocations(L))
      /\ IsInjective(s) /\ IsInjective(f) /\ IsInjective(l)
      /\ Len(s) \in Nat /\ Len(l) \in Nat
  BY LenProperties DEF Interned
<1>3. c.string_table = s /\ c.function = f /\ c.location = l /\ c.sample = b.sample
  OBVIOUS
<1>4. c \in [string_table : Seq(V), function : Seq(ProtoFunctions),
             location : Seq(ProtoLocations(L)), sample : Seq(ProtoSamples)]
  BY <1>1, <1>2
<1> HIDE DEF c
<1>5. Len(c.string_table) >= 1 /\ c.string_table[1] = EmptyString
  <2>1. 1 \in 1 .. Len(b.string_table) /\ Len(s) >= Len(b.string_table)
    BY <1>1 DEF Longer
  <2>2. s[1] = b.string_table[1] /\ Len(s) >= 1
    BY <1>1, <1>2, <2>1 DEF Longer
  <2> QED
    BY <1>1, <1>3, <2>2
<1>6. Referring(c)
  <2>1. 1 .. Len(b.location) \subseteq 1 .. Len(c.location)
    <3>1. Len(b.location) <= Len(l)
      BY DEF Longer
    <3> QED
      BY <1>1, <1>2, <1>3, <3>1
  <2> QED
    BY <1>1, <1>3, <2>1 DEF Referring
<1>7. c \in Builders(V, L)
  BY <1>2, <1>3, <1>4, <1>5, <1>6 DEF Builders
<1>8. Grows(b, c)
  BY <1>3 DEF Grows
<1> QED
  BY <1>7, <1>8 DEF c

\* A table is no shorter than itself.
LEMMA LongerReflexive ==
  ASSUME NEW S, NEW t, Interned(t, S)
  PROVE  Longer(t, t)
BY LenProperties DEF Interned, Longer

\* The string is stored, and nothing else changes.
LEMMA StringAdded ==
  ASSUME NEW V, NEW L, NEW b \in Builders(V, L), NEW v \in V
  PROVE  LET c == AddString(b, v)
         IN  /\ c \in Builders(V, L) /\ Grows(b, c)
             /\ v \in ToSet(c.string_table)
             /\ c.function = b.function /\ c.location = b.location /\ c.sample = b.sample
<1> DEFINE s == Added(b.string_table, v)
           c == [string_table |-> s, function |-> b.function, location |-> b.location,
                 sample |-> b.sample]
<1>1. /\ b = [string_table |-> b.string_table, function |-> b.function,
              location |-> b.location, sample |-> b.sample]
      /\ Interned(b.string_table, V) /\ Interned(b.function, ProtoFunctions)
      /\ Interned(b.location, ProtoLocations(L)) /\ Referring(b) /\ Len(b.string_table) \in Nat
  BY BuilderTypes
<1>2. AddString(b, v) = c
  BY <1>1 DEF AddString
<1>3. Interned(s, V) /\ Longer(b.string_table, s) /\ v \in ToSet(s)
  BY <1>1, AddedEntry
<1> HIDE DEF s
<1>4. Longer(b.function, b.function) /\ Longer(b.location, b.location)
  BY <1>1, LongerReflexive
<1>5. Len(s) \in Nat
  BY <1>3, LenProperties DEF Interned
<1>6. \A i \in 1 .. Len(b.function) :
        b.function[i].name < Len(s) /\ b.function[i].filename < Len(s)
  <2>1. \A i \in 1 .. Len(b.function) :
          b.function[i].name \in Nat /\ b.function[i].filename \in Nat
    <3>1. b.function \in Seq(ProtoFunctions)
      BY <1>1 DEF Interned
    <3>2. \A i \in 1 .. Len(b.function) : b.function[i] \in ProtoFunctions
      BY <3>1, ElementOfSeq
    <3> QED
      BY <3>2 DEF ProtoFunctions
  <2> QED
    BY <1>1, <1>3, <1>5, <2>1 DEF Referring, Longer
<1>7. \A i \in 1 .. Len(b.location) : b.location[i].func_id \in 1 .. Len(b.function)
  BY <1>1 DEF Referring
<1>8. c \in Builders(V, L) /\ Grows(b, c)
  BY <1>1, <1>3, <1>4, <1>6, <1>7, Replaced
<1> QED
  BY <1>2, <1>3, <1>8

\* The strings, the function and the location of a frame are stored.
HasStrings(b, frame) ==
  frame.name \in ToSet(b.string_table) /\ frame.filename \in ToSet(b.string_table)
HasFunction(b, frame) == HasStrings(b, frame) /\ Func(b, frame) \in ToSet(b.function)
HasFrame(b, frame) == HasFunction(b, frame) /\ Loc(b, frame) \in ToSet(b.location)

Framed(V, L) == [name : V, filename : V, line : L]

\* What is stored keeps its number.
LEMMA FrameStays ==
  ASSUME NEW V, NEW L, NEW b \in Builders(V, L), NEW c \in Builders(V, L), Grows(b, c),
         NEW frame
  PROVE  /\ HasStrings(b, frame) => HasStrings(c, frame) /\ Func(c, frame) = Func(b, frame)
         /\ HasFunction(b, frame) => HasFunction(c, frame) /\ Loc(c, frame) = Loc(b, frame)
         /\ HasFrame(b, frame) =>
              HasFrame(c, frame) /\ _location_id(c, frame) = _location_id(b, frame)
<1>1. /\ b.string_table \in Seq(V) /\ b.function \in Seq(ProtoFunctions)
      /\ b.location \in Seq(ProtoLocations(L))
      /\ Interned(c.string_table, V) /\ Interned(c.function, ProtoFunctions)
      /\ Interned(c.location, ProtoLocations(L))
      /\ Longer(b.string_table, c.string_table) /\ Longer(b.function, c.function)
      /\ Longer(b.location, c.location)
  BY BuilderTypes DEF Interned, Grows
<1>2. ASSUME HasStrings(b, frame) PROVE HasStrings(c, frame) /\ Func(c, frame) = Func(b, frame)
  <2>1. /\ frame.name \in ToSet(c.string_table)
        /\ NumberOf(c.string_table, frame.name) = NumberOf(b.string_table, frame.name)
    BY <1>1, <1>2, EntryStays DEF HasStrings
  <2>2. /\ frame.filename \in ToSet(c.string_table)
        /\ NumberOf(c.string_table, frame.filename) = NumberOf(b.string_table, frame.filename)
    BY <1>1, <1>2, EntryStays DEF HasStrings
  <2> QED
    BY <2>1, <2>2 DEF HasStrings, Func, _string_id
<1>3. ASSUME HasFunction(b, frame)
      PROVE  HasFunction(c, frame) /\ Loc(c, frame) = Loc(b, frame)
  <2>1. HasStrings(c, frame) /\ Func(c, frame) = Func(b, frame)
    BY <1>2, <1>3 DEF HasFunction
  <2>2. /\ Func(b, frame) \in ToSet(c.function)
        /\ NumberOf(c.function, Func(b, frame)) = NumberOf(b.function, Func(b, frame))
    BY <1>1, <1>3, EntryStays DEF HasFunction
  <2> QED
    BY <2>1, <2>2 DEF HasFunction, Loc, _function_id
<1>4. ASSUME HasFrame(b, frame)
      PROVE  HasFrame(c, frame) /\ _location_id(c, frame) = _location_id(b, frame)
  <2>1. HasFunction(c, frame) /\ Loc(c, frame) = Loc(b, frame)
    BY <1>3, <1>4 DEF HasFrame
  <2>2. /\ Loc(b, frame) \in ToSet(c.location)
        /\ NumberOf(c.location, Loc(b, frame)) = NumberOf(b.location, Loc(b, frame))
    BY <1>1, <1>4, EntryStays DEF HasFrame
  <2> QED
    BY <2>1, <2>2 DEF HasFrame, _location_id
<1> QED
  BY <1>2, <1>3, <1>4

\* The numbers of what is stored.
LEMMA StringNumber ==
  ASSUME NEW V, NEW L, NEW b \in Builders(V, L), NEW v \in ToSet(b.string_table)
  PROVE  /\ _string_id(b, v) \in Nat /\ _string_id(b, v) < Len(b.string_table)
         /\ StringAt(b, _string_id(b, v)) = v
<1>1. b.string_table \in Seq(V) /\ Len(b.string_table) \in Nat
  BY BuilderTypes DEF Interned
<1>2. /\ NumberOf(b.string_table, v) \in 1 .. Len(b.string_table)
      /\ b.string_table[NumberOf(b.string_table, v)] = v
  BY <1>1, EntryNumber
<1>3. (NumberOf(b.string_table, v) - 1) + 1 = NumberOf(b.string_table, v)
  BY <1>1, <1>2
<1> QED
  BY <1>1, <1>2, <1>3 DEF _string_id, StringAt

\* A string, and its number, stay when the proto grows.
LEMMA StringStays ==
  ASSUME NEW V, NEW L, NEW b \in Builders(V, L), NEW c \in Builders(V, L), Grows(b, c),
         NEW v \in ToSet(b.string_table)
  PROVE  v \in ToSet(c.string_table) /\ StringAt(c, _string_id(b, v)) = v
<1>1. /\ b.string_table \in Seq(V) /\ Interned(c.string_table, V)
      /\ Longer(b.string_table, c.string_table)
  BY BuilderTypes DEF Interned, Grows
<1>2. v \in ToSet(c.string_table) /\ NumberOf(c.string_table, v) = NumberOf(b.string_table, v)
  BY <1>1, EntryStays
<1>3. _string_id(c, v) = _string_id(b, v)
  BY <1>2 DEF _string_id
<1> QED
  BY <1>2, <1>3, StringNumber

\* The function of the frame is stored, and no location changes.
LEMMA FunctionAdded ==
  ASSUME NEW V, NEW L, NEW b \in Builders(V, L), NEW frame \in Framed(V, L)
  PROVE  LET c == AddFunction(b, frame)
         IN  /\ c \in Builders(V, L) /\ Grows(b, c) /\ HasFunction(c, frame)
             /\ c.location = b.location /\ c.sample = b.sample
<1> DEFINE n == AddString(b, frame.name)
           s == AddString(n, frame.filename)
           f == Added(s.function, Func(s, frame))
           c == [string_table |-> s.string_table, function |-> f, location |-> s.location,
                 sample |-> s.sample]
<1>0. frame.name \in V /\ frame.filename \in V
  BY DEF Framed
<1>1. /\ n \in Builders(V, L) /\ Grows(b, n) /\ frame.name \in ToSet(n.string_table)
      /\ n.location = b.location /\ n.sample = b.sample
  BY <1>0, StringAdded
<1> HIDE DEF n
<1>2. /\ s \in Builders(V, L) /\ Grows(n, s) /\ frame.filename \in ToSet(s.string_table)
      /\ s.location = b.location /\ s.sample = b.sample
  BY <1>0, <1>1, StringAdded
<1> HIDE DEF s
<1>3. Grows(b, s)
  BY <1>1, <1>2, GrowsTransitive
<1>4. HasStrings(s, frame)
  <2>1. n.string_table \in Seq(V) /\ Interned(s.string_table, V)
        /\ Longer(n.string_table, s.string_table)
    BY <1>1, <1>2, BuilderTypes DEF Interned, Grows
  <2>2. frame.name \in ToSet(s.string_table)
    BY <1>1, <2>1, EntryStays
  <2> QED
    BY <1>2, <2>2 DEF HasStrings
<1>5. /\ s = [string_table |-> s.string_table, function |-> s.function,
              location |-> s.location, sample |-> s.sample]
      /\ Interned(s.string_table, V) /\ Interned(s.function, ProtoFunctions)
      /\ Interned(s.location, ProtoLocations(L)) /\ Referring(s)
      /\ Len(s.function) \in Nat
  BY <1>2, BuilderTypes
<1>6. /\ Func(s, frame) \in ProtoFunctions /\ Func(s, frame).name < Len(s.string_table)
      /\ Func(s, frame).filename < Len(s.string_table)
  BY <1>2, <1>4, StringNumber DEF HasStrings, Func, ProtoFunctions
<1>7. Interned(f, ProtoFunctions) /\ Longer(s.function, f) /\ Func(s, frame) \in ToSet(f)
  BY <1>5, <1>6, AddedEntry
<1>8. AddFunction(b, frame) = c
  <2>1. AddFunction(b, frame) = [s EXCEPT !.function = Added(@, Func(s, frame))]
    BY DEF AddFunction, s, n
  <2> QED
    BY <1>5, <2>1
<1>9. \A i \in 1 .. Len(f) : f[i] \in ToSet(s.function) \cup {Func(s, frame)}
  BY <1>5, LenProperties DEF Added, ToSet, Interned
<1>10. \A i \in 1 .. Len(f) :
         f[i].name < Len(s.string_table) /\ f[i].filename < Len(s.string_table)
  <2>1. \A x \in ToSet(s.function) :
          x.name < Len(s.string_table) /\ x.filename < Len(s.string_table)
    BY <1>5, LenProperties DEF Referring, ToSet, Interned
  <2> QED
    BY <1>6, <1>9, <2>1
<1> HIDE DEF f
<1>11. \A i \in 1 .. Len(s.location) : s.location[i].func_id \in 1 .. Len(f)
  <2>1. Len(s.function) <= Len(f) /\ Len(f) \in Nat
    BY <1>7, LenProperties DEF Longer, Interned
  <2> QED
    BY <1>5, <2>1 DEF Referring
<1>12. Longer(s.string_table, s.string_table) /\ Longer(s.location, s.location)
  BY <1>5, LongerReflexive
<1>13. c \in Builders(V, L) /\ Grows(s, c)
  BY <1>2, <1>5, <1>7, <1>10, <1>11, <1>12, Replaced
<1>14. Grows(b, c)
  BY <1>2, <1>3, <1>13, GrowsTransitive
<1>15. HasFunction(c, frame)
  <2>1. HasStrings(c, frame) /\ Func(c, frame) = Func(s, frame)
    BY <1>4 DEF HasStrings, Func, _string_id
  <2> QED
    BY <1>7, <2>1 DEF HasFunction
<1> QED
  BY <1>2, <1>8, <1>13, <1>14, <1>15

\* The frame is stored.
LEMMA FrameAdded ==
  ASSUME NEW V, NEW L, NEW b \in Builders(V, L), NEW frame \in Framed(V, L)
  PROVE  LET c == AddLocation(b, frame)
         IN  c \in Builders(V, L) /\ Grows(b, c) /\ HasFrame(c, frame) /\ c.sample = b.sample
<1> DEFINE f == AddFunction(b, frame)
           l == Added(f.location, Loc(f, frame))
           c == [string_table |-> f.string_table, function |-> f.function, location |-> l,
                 sample |-> f.sample]
<1>1. /\ f \in Builders(V, L) /\ Grows(b, f) /\ HasFunction(f, frame) /\ f.sample = b.sample
  BY FunctionAdded
<1>2. AddLocation(b, frame) = [f EXCEPT !.location = l]
  BY DEF AddLocation
<1> HIDE DEF f
<1>3. /\ f = [string_table |-> f.string_table, function |-> f.function,
              location |-> f.location, sample |-> f.sample]
      /\ Interned(f.string_table, V) /\ Interned(f.function, ProtoFunctions)
      /\ Interned(f.location, ProtoLocations(L)) /\ Referring(f)
  BY <1>1, BuilderTypes
<1>4. AddLocation(b, frame) = c
  BY <1>2, <1>3
<1>5. _function_id(f, frame) \in 1 .. Len(f.function) /\ Len(f.function) \in Nat
  BY <1>1, <1>3, EntryNumber, LenProperties DEF HasFunction, _function_id, Interned
<1>6. Loc(f, frame) \in ProtoLocations(L) /\ Loc(f, frame).func_id = _function_id(f, frame)
  BY <1>5 DEF Loc, ProtoLocations, Framed
<1>7. Interned(l, ProtoLocations(L)) /\ Longer(f.location, l) /\ Loc(f, frame) \in ToSet(l)
  BY <1>3, <1>6, AddedEntry
<1>8. \A i \in 1 .. Len(l) : l[i] \in ToSet(f.location) \cup {Loc(f, frame)}
  BY <1>3, LenProperties DEF Added, ToSet, Interned
<1>9. \A i \in 1 .. Len(l) : l[i].func_id \in 1 .. Len(f.function)
  <2>1. \A x \in ToSet(f.location) : x.func_id \in 1 .. Len(f.function)
    BY <1>3, LenProperties DEF Referring, ToSet, Interned
  <2> QED
    BY <1>5, <1>6, <1>8, <2>1
<1> HIDE DEF l
<1>10. \A i \in 1 .. Len(f.function) :
         /\ f.function[i].name < Len(f.string_table)
         /\ f.function[i].filename < Len(f.string_table)
  BY <1>3 DEF Referring
<1>11. Longer(f.string_table, f.string_table) /\ Longer(f.function, f.function)
  BY <1>3, LongerReflexive
<1>12. c \in Builders(V, L) /\ Grows(f, c)
  BY <1>1, <1>3, <1>7, <1>9, <1>10, <1>11, Replaced
<1>13. Grows(b, c)
  BY <1>1, <1>12, GrowsTransitive
<1>14. HasFrame(c, frame)
  <2>1. HasFunction(c, frame) /\ Loc(c, frame) = Loc(f, frame)
    BY <1>1 DEF HasFunction, HasStrings, Loc, _function_id, Func, _string_id
  <2> QED
    BY <1>7, <2>1 DEF HasFrame
<1> QED
  BY <1>1, <1>4, <1>12, <1>13, <1>14

\* A stored frame is read back by its number.
LEMMA FrameReadBack ==
  ASSUME NEW V, NEW L, NEW b \in Builders(V, L), NEW frame \in Framed(V, L),
         HasFrame(b, frame)
  PROVE  /\ _location_id(b, frame) \in 1 .. Len(b.location)
         /\ FrameAt(b, _location_id(b, frame)) = frame
<1>1. /\ b.function \in Seq(ProtoFunctions) /\ b.location \in Seq(ProtoLocations(L))
  BY BuilderTypes DEF Interned
<1>2. /\ _location_id(b, frame) \in 1 .. Len(b.location)
      /\ b.location[_location_id(b, frame)] = Loc(b, frame)
  BY <1>1, EntryNumber DEF HasFrame, _location_id
<1>3. b.function[_function_id(b, frame)] = Func(b, frame)
  BY <1>1, EntryNumber DEF HasFrame, HasFunction, _function_id
<1>4. /\ StringAt(b, _string_id(b, frame.name)) = frame.name
      /\ StringAt(b, _string_id(b, frame.filename)) = frame.filename
  BY StringNumber DEF HasFrame, HasFunction, HasStrings
<1>5. frame = [name |-> frame.name, filename |-> frame.filename, line |-> frame.line]
  BY DEF Framed
<1>6. /\ Loc(b, frame).func_id = _function_id(b, frame) /\ Loc(b, frame).line_number = frame.line
      /\ Func(b, frame).name = _string_id(b, frame.name)
      /\ Func(b, frame).filename = _string_id(b, frame.filename)
  BY DEF Loc, Func
<1>7. FrameAt(b, _location_id(b, frame))
        = [name |-> frame.name, filename |-> frame.filename, line |-> frame.line]
  BY <1>2, <1>3, <1>4, <1>6 DEF FrameAt
<1> QED
  BY <1>2, <1>5, <1>7

\* What is stored is read back the same from a larger proto.
LEMMA ReadingStays ==
  ASSUME NEW V, NEW L, NEW b \in Builders(V, L), NEW c \in Builders(V, L), Grows(b, c),
         NEW id \in 1 .. Len(b.location)
  PROVE  FrameAt(c, id) = FrameAt(b, id)
<1>1. /\ b.function \in Seq(ProtoFunctions) /\ Referring(b)
      /\ Longer(b.string_table, c.string_table) /\ Longer(b.function, c.function)
      /\ Longer(b.location, c.location) /\ Len(b.string_table) \in Nat
  BY BuilderTypes DEF Interned, Grows
<1> DEFINE fid == b.location[id].func_id
           fun == b.function[fid]
<1>2. c.location[id] = b.location[id] /\ fid \in 1 .. Len(b.function)
  BY <1>1 DEF Longer, Referring
<1>3. c.function[fid] = fun /\ fun \in ProtoFunctions
  BY <1>1, <1>2, ElementOfSeq DEF Longer
<1>4. fun.name < Len(b.string_table) /\ fun.filename < Len(b.string_table)
  BY <1>1, <1>2 DEF Referring
<1>5. fun.name \in Nat /\ fun.filename \in Nat
  BY <1>3 DEF ProtoFunctions
<1> HIDE DEF fun
<1>6. fun.name + 1 \in 1 .. Len(b.string_table) /\ fun.filename + 1 \in 1 .. Len(b.string_table)
  BY <1>1, <1>4, <1>5
<1>7. StringAt(c, fun.name) = StringAt(b, fun.name)
      /\ StringAt(c, fun.filename) = StringAt(b, fun.filename)
  BY <1>1, <1>6 DEF StringAt, Longer
<1> QED
  BY <1>2, <1>3, <1>7 DEF FrameAt, fun

-----------------------------------------------------------------------------
(* One sample. *)

\* The fold over a trace, as a function on the sets of its positions.
LocationFolds(base, trace, S, n) ==
  \E iter \in [SUBSET (1 .. n) -> S] :
    iter = [s \in SUBSET (1 .. n) |->
              IF s = {} THEN base ELSE AddLocation(iter[s \ {Max(s)}], trace[Max(s)])]

\* The loop over the frames of a trace has such a function.
LEMMA LocationFold ==
  ASSUME NEW n \in Nat, NEW S, NEW base \in S, NEW trace,
         \A c \in S : \A i \in 1 .. n : AddLocation(c, trace[i]) \in S
  PROVE  LocationFolds(base, trace, S, n)
<1>1. PICK step \in FoldSteps(S, n) :
        \A c \in S : \A i \in 1 .. n : step[<<c, i>>] = AddLocation(c, trace[i])
  <2> DEFINE step == [p \in S \X (1 .. n) |-> AddLocation(p[1], trace[p[2]])]
  <2>1. step \in FoldSteps(S, n)
    BY DEF FoldSteps
  <2>2. \A c \in S : \A i \in 1 .. n : step[<<c, i>>] = AddLocation(c, trace[i])
    OBVIOUS
  <2> HIDE DEF step
  <2> QED
    BY <2>1, <2>2
<1>2. PICK iter \in [SUBSET (1 .. n) -> S] : iter = FoldStep(base, step, n, iter)
  <2>1. FoldHasSolution(base, step, S, n)
    BY FoldSolvable
  <2> QED
    BY <2>1 DEF FoldHasSolution
<1>3. ASSUME NEW s \in SUBSET (1 .. n), s # {}
      PROVE  step[<<iter[s \ {Max(s)}], Max(s)>>]
               = AddLocation(iter[s \ {Max(s)}], trace[Max(s)])
  <2>1. Max(s) \in 1 .. n
    BY <1>3, LargestPosition
  <2>2. iter[s \ {Max(s)}] \in S
    BY <1>2
  <2> QED
    BY <1>1, <2>1, <2>2
<1>4. FoldStep(base, step, n, iter)
        = [s \in SUBSET (1 .. n) |->
             IF s = {} THEN base ELSE AddLocation(iter[s \ {Max(s)}], trace[Max(s)])]
  BY <1>3 DEF FoldStep
<1> QED
  BY <1>2, <1>4 DEF LocationFolds

\* The values of the fold, one frame after the other.
LocationChain(v, b, trace) ==
  /\ v[0] = b
  /\ \A k \in Nat : k < Len(trace) => v[k + 1] = AddLocation(v[k], trace[k + 1])
  /\ FoldLeft(AddLocation, b, trace) = v[Len(trace)]

\* The loop over the frames of a trace runs through such values.
LEMMA TraceChain ==
  ASSUME NEW S, NEW b \in S, NEW trace, Len(trace) \in Nat, DOMAIN trace = 1 .. Len(trace),
         \A c \in S : \A i \in 1 .. Len(trace) : AddLocation(c, trace[i]) \in S
  PROVE  \E v : LocationChain(v, b, trace)
<1> DEFINE n == Len(trace)
           Step(iter) == [s \in SUBSET (1 .. n) |->
                            IF s = {} THEN b ELSE AddLocation(iter[s \ {Max(s)}], trace[Max(s)])]
           fold == CHOOSE iter : iter = Step(iter)
           v == [k \in Nat |-> fold[1 .. k]]
<1>1. FoldLeft(AddLocation, b, trace) = fold[1 .. n]
  BY DEF FoldLeft, MapThenFoldSet
<1>2. fold = Step(fold)
  <2>1. \E iter : iter = Step(iter)
    <3>1. n \in Nat /\ \A c \in S : \A i \in 1 .. n : AddLocation(c, trace[i]) \in S
      OBVIOUS
    <3>2. LocationFolds(b, trace, S, n)
      <4> HIDE DEF n
      <4> QED
        BY <3>1, LocationFold
    <3> QED
      BY <3>2 DEF LocationFolds
  <2> HIDE DEF Step
  <2> QED
    BY <2>1
<1> HIDE DEF fold
<1>3. v[0] = b
  <2>1. 1 .. 0 = {} /\ v[0] = fold[1 .. 0]
    OBVIOUS
  <2>2. fold[{}] = b
    BY <1>2
  <2> QED
    BY <2>1, <2>2
<1>4. ASSUME NEW k \in Nat, k < n PROVE v[k + 1] = AddLocation(v[k], trace[k + 1])
  <2>1. /\ 1 .. (k + 1) # {} /\ Max(1 .. (k + 1)) = k + 1
        /\ (1 .. (k + 1)) \ {k + 1} = 1 .. k
    BY LastPosition
  <2>2. 1 .. (k + 1) \in SUBSET (1 .. n)
    BY <1>4
  <2>3. fold[1 .. (k + 1)] = AddLocation(fold[1 .. k], trace[k + 1])
    BY <1>2, <2>1, <2>2
  <2> QED
    BY <2>3
<1>5. FoldLeft(AddLocation, b, trace) = v[n]
  BY <1>1
<1> HIDE DEF v
<1> QED
  BY <1>3, <1>4, <1>5 DEF LocationChain

\* All frames of the trace are stored.
LEMMA TraceAdded ==
  ASSUME NEW V, NEW L, NEW b \in Builders(V, L), NEW trace \in Seq(Framed(V, L))
  PROVE  LET l == FoldLeft(AddLocation, b, trace)
         IN  /\ l \in Builders(V, L) /\ Grows(b, l) /\ l.sample = b.sample
             /\ \A i \in DOMAIN trace : HasFrame(l, trace[i])
<1> DEFINE n == Len(trace)
           Stored(c, k) == /\ c \in Builders(V, L) /\ Grows(b, c) /\ c.sample = b.sample
                           /\ \A i \in 1 .. k : HasFrame(c, trace[i])
<1>1. n \in Nat /\ DOMAIN trace = 1 .. n /\ \A i \in 1 .. n : trace[i] \in Framed(V, L)
  BY LenProperties, ElementOfSeq
<1>2. \A c \in Builders(V, L) : \A i \in 1 .. n : AddLocation(c, trace[i]) \in Builders(V, L)
  BY <1>1, FrameAdded
<1>3. PICK v : /\ v[0] = b
               /\ \A k \in Nat : k < n => v[k + 1] = AddLocation(v[k], trace[k + 1])
               /\ FoldLeft(AddLocation, b, trace) = v[n]
  <2> DEFINE S == Builders(V, L)
  <2>1. b \in S /\ \A c \in S : \A i \in 1 .. Len(trace) : AddLocation(c, trace[i]) \in S
    BY <1>2
  <2> HIDE DEF S
  <2>2. \E v : LocationChain(v, b, trace)
    BY <1>1, <2>1, TraceChain
  <2> QED
    BY <2>2 DEF LocationChain
<1> DEFINE Done == {k \in Nat : k <= n => Stored(v[k], k)}
<1> HIDE DEF n
<1>4. 0 \in Done
  BY <1>3, GrowsReflexive
<1>5. ASSUME NEW k \in Nat, k \in Done PROVE k + 1 \in Done
  <2> SUFFICES ASSUME k + 1 <= n PROVE Stored(v[k + 1], k + 1)
    OBVIOUS
  <2>1. k + 1 \in 1 .. n /\ k < n /\ k <= n
    BY <1>1
  <2> DEFINE c == v[k]
             d == AddLocation(c, trace[k + 1])
  <2>2. v[k + 1] = d /\ trace[k + 1] \in Framed(V, L)
    BY <1>1, <1>3, <2>1
  <2>3. Stored(c, k)
    BY <1>5, <2>1
  <2> HIDE DEF c
  <2>4. d \in Builders(V, L) /\ Grows(c, d) /\ HasFrame(d, trace[k + 1]) /\ d.sample = c.sample
    BY <2>2, <2>3, FrameAdded
  <2> HIDE DEF d
  <2>5. Grows(b, d)
    BY <2>3, <2>4, GrowsTransitive
  <2>6. \A i \in 1 .. k : HasFrame(d, trace[i])
    BY <2>3, <2>4, FrameStays
  <2>7. \A i \in 1 .. (k + 1) : i \in 1 .. k \/ i = k + 1
    OBVIOUS
  <2> QED
    BY <2>2, <2>3, <2>4, <2>5, <2>6, <2>7
<1>6. n \in Done
  <2> HIDE DEF Done
  <2> QED
    BY <1>1, <1>4, <1>5, NatSetInduction
<1>7. Stored(v[n], n)
  BY <1>1, <1>6
<1> QED
  BY <1>1, <1>3, <1>7

\* Sample i reads back as the trace; the proto has one sample more.
SampleIs(b, i, trace, count, period) ==
  TraceAt(b, i) = trace /\ b.sample[i].value = <<count, period * count>>

Sampled(b, c, trace, count, period) ==
  /\ Len(c.sample) = Len(b.sample) + 1
  /\ SampleIs(c, Len(b.sample) + 1, trace, count, period)
  /\ \A i \in 1 .. Len(b.sample) : TraceAt(c, i) = TraceAt(b, i) /\ c.sample[i] = b.sample[i]

\* One iteration adds the sample of its trace, and moves no other.
LEMMA SampleAdded ==
  ASSUME NEW V, NEW L, NEW b \in Builders(V, L), NEW trace \in Seq(Framed(V, L)),
         NEW count \in Int, NEW period \in Int
  PROVE  LET c == AddSample(b, trace, count, period)
         IN  c \in Builders(V, L) /\ Grows(b, c) /\ Sampled(b, c, trace, count, period)
<1> DEFINE l == FoldLeft(AddLocation, b, trace)
           ids == [i \in DOMAIN trace |-> _location_id(l, trace[i])]
           smp == [value |-> <<count, period * count>>, location_id |-> ids]
           s == Append(l.sample, smp)
           c == [string_table |-> l.string_table, function |-> l.function,
                 location |-> l.location, sample |-> s]
           n == Len(b.sample) + 1
<1>1. /\ l \in Builders(V, L) /\ Grows(b, l) /\ l.sample = b.sample
      /\ \A i \in DOMAIN trace : HasFrame(l, trace[i])
  BY TraceAdded
<1>2. AddSample(b, trace, count, period) = [l EXCEPT !.sample = s]
  BY DEF AddSample
<1> HIDE DEF l
<1>3. /\ l = [string_table |-> l.string_table, function |-> l.function,
              location |-> l.location, sample |-> l.sample]
      /\ Interned(l.string_table, V) /\ Interned(l.function, ProtoFunctions)
      /\ Interned(l.location, ProtoLocations(L)) /\ l.sample \in Seq(ProtoSamples)
      /\ Len(l.sample) \in Nat /\ Referring(l) /\ Len(l.location) \in Nat
      /\ Len(l.string_table) >= 1 /\ l.string_table[1] = EmptyString
  BY <1>1, BuilderTypes
<1>4. AddSample(b, trace, count, period) = c
  BY <1>2, <1>3
<1>5. Len(trace) \in Nat /\ DOMAIN trace = 1 .. Len(trace)
      /\ trace = [i \in DOMAIN trace |-> trace[i]]
      /\ \A i \in DOMAIN trace : trace[i] \in Framed(V, L)
  BY LenProperties, ElementOfSeq
<1>6. \A i \in DOMAIN trace : /\ _location_id(l, trace[i]) \in 1 .. Len(l.location)
                              /\ FrameAt(l, _location_id(l, trace[i])) = trace[i]
  BY <1>1, <1>5, FrameReadBack
<1>7. /\ ids \in Seq(Nat) /\ DOMAIN ids = DOMAIN trace
      /\ \A i \in DOMAIN ids : ids[i] \in 1 .. Len(l.location) /\ FrameAt(l, ids[i]) = trace[i]
  <2>1. DOMAIN ids = DOMAIN trace
    OBVIOUS
  <2>2. \A i \in DOMAIN ids : ids[i] \in 1 .. Len(l.location) /\ FrameAt(l, ids[i]) = trace[i]
    BY <1>6
  <2>3. ids \in [1 .. Len(trace) -> Nat]
    BY <1>3, <1>5, <1>6
  <2> QED
    BY <1>5, <2>1, <2>2, <2>3
<1> HIDE DEF ids
<1>8. smp \in ProtoSamples /\ smp.location_id = ids /\ smp.value = <<count, period * count>>
  <2>1. period * count \in Int
    OBVIOUS
  <2> QED
    BY <1>7, <2>1 DEF ProtoSamples
<1> HIDE DEF smp
<1>9. /\ s \in Seq(ProtoSamples) /\ Len(s) = Len(l.sample) + 1 /\ s[Len(l.sample) + 1] = smp
      /\ \A i \in 1 .. Len(l.sample) : s[i] = l.sample[i]
  BY <1>3, <1>8, AppendProperties
<1> HIDE DEF s
<1>10. Referring(c)
  <2>1. \A i \in 1 .. Len(s) : \A j \in DOMAIN s[i].location_id :
          s[i].location_id[j] \in 1 .. Len(l.location)
    <3> SUFFICES ASSUME NEW i \in 1 .. Len(s), NEW j \in DOMAIN s[i].location_id
                 PROVE  s[i].location_id[j] \in 1 .. Len(l.location)
      OBVIOUS
    <3>1. CASE i = Len(l.sample) + 1
      BY <1>7, <1>8, <1>9, <3>1
    <3>2. CASE i # Len(l.sample) + 1
      <4>1. i \in 1 .. Len(l.sample) /\ s[i] = l.sample[i]
        BY <1>3, <1>9, <3>2
      <4> QED
        BY <1>3, <4>1 DEF Referring
    <3> QED
      BY <3>1, <3>2
  <2> QED
    BY <1>3, <2>1 DEF Referring
<1>11. c \in Builders(V, L)
  <2>1. c \in [string_table : Seq(V), function : Seq(ProtoFunctions),
               location : Seq(ProtoLocations(L)), sample : Seq(ProtoSamples)]
    BY <1>3, <1>9 DEF Interned
  <2> QED
    BY <1>3, <1>10, <2>1 DEF Builders, Interned
<1>12. \A id : FrameAt(c, id) = FrameAt(l, id)
  BY DEF FrameAt, StringAt
<1>13. c.sample = s /\ n = Len(l.sample) + 1 /\ n \in Nat
  BY <1>1, <1>3
<1>14. Grows(b, c)
  BY <1>1 DEF Grows
<1> HIDE DEF c, n
<1>15. TraceAt(c, n) = trace
  <2>1. TraceAt(c, n) = [j \in DOMAIN ids |-> FrameAt(c, ids[j])]
    BY <1>8, <1>9, <1>13 DEF TraceAt
  <2>2. [j \in DOMAIN ids |-> FrameAt(c, ids[j])] = [j \in DOMAIN trace |-> trace[j]]
    BY <1>7, <1>12
  <2> QED
    BY <1>5, <2>1, <2>2
<1>16. ASSUME NEW i \in 1 .. Len(b.sample)
       PROVE  TraceAt(c, i) = TraceAt(b, i) /\ c.sample[i] = b.sample[i]
  <2> DEFINE old == b.sample[i].location_id
  <2>1. c.sample[i] = b.sample[i]
    BY <1>1, <1>9, <1>13
  <2>2. \A j \in DOMAIN old : old[j] \in 1 .. Len(b.location)
    BY BuilderTypes DEF Referring
  <2> HIDE DEF old
  <2>3. \A j \in DOMAIN old : FrameAt(c, old[j]) = FrameAt(b, old[j])
    BY <1>1, <1>12, <2>2, ReadingStays
  <2>4. TraceAt(c, i) = [j \in DOMAIN old |-> FrameAt(c, old[j])]
        /\ TraceAt(b, i) = [j \in DOMAIN old |-> FrameAt(b, old[j])]
    BY <2>1 DEF TraceAt, old
  <2> QED
    BY <2>1, <2>3, <2>4
<1>17. Len(c.sample) = n /\ c.sample[n].value = <<count, period * count>>
  BY <1>8, <1>9, <1>13
<1> QED
  BY <1>4, <1>11, <1>14, <1>15, <1>16, <1>17 DEF n, Sampled, SampleIs

-----------------------------------------------------------------------------
(* All samples. *)

\* One iteration of populate_profile, as a step of its fold.
SampleFolds(base, traces, period, order, S, n) ==
  \E iter \in [SUBSET (1 .. n) -> S] :
    iter = [s \in SUBSET (1 .. n) |->
              IF s = {} THEN base
              ELSE AddSample(iter[s \ {Max(s)}], order[Max(s)], traces[order[Max(s)]], period)]

\* The loop over the traces has such a function.
LEMMA SampleFold ==
  ASSUME NEW n \in Nat, NEW S, NEW base \in S, NEW traces, NEW period, NEW order,
         \A c \in S : \A i \in 1 .. n : AddSample(c, order[i], traces[order[i]], period) \in S
  PROVE  SampleFolds(base, traces, period, order, S, n)
<1> DEFINE Step(c, i) == AddSample(c, order[i], traces[order[i]], period)
<1>1. PICK step \in FoldSteps(S, n) : \A c \in S : \A i \in 1 .. n : step[<<c, i>>] = Step(c, i)
  <2> DEFINE step == [p \in S \X (1 .. n) |-> Step(p[1], p[2])]
  <2>1. step \in FoldSteps(S, n)
    BY DEF FoldSteps
  <2>2. \A c \in S : \A i \in 1 .. n : step[<<c, i>>] = Step(c, i)
    OBVIOUS
  <2> HIDE DEF step
  <2> QED
    BY <2>1, <2>2
<1>2. PICK iter \in [SUBSET (1 .. n) -> S] : iter = FoldStep(base, step, n, iter)
  <2>1. FoldHasSolution(base, step, S, n)
    BY FoldSolvable
  <2> QED
    BY <2>1 DEF FoldHasSolution
<1> HIDE DEF Step
<1>3. ASSUME NEW s \in SUBSET (1 .. n), s # {}
      PROVE  step[<<iter[s \ {Max(s)}], Max(s)>>] = Step(iter[s \ {Max(s)}], Max(s))
  <2>1. Max(s) \in 1 .. n
    BY <1>3, LargestPosition
  <2>2. iter[s \ {Max(s)}] \in S
    BY <1>2
  <2> QED
    BY <1>1, <2>1, <2>2
<1>4. FoldStep(base, step, n, iter)
        = [s \in SUBSET (1 .. n) |-> IF s = {} THEN base ELSE Step(iter[s \ {Max(s)}], Max(s))]
  BY <1>3 DEF FoldStep
<1> QED
  BY <1>2, <1>4 DEF SampleFolds, Step

\* The loop of populate_profile.
Filled(base, traces, period, order) ==
  FoldLeft(LAMBDA c, trace : AddSample(c, trace, traces[trace], period), base, order)

\* The samples are added one after the other.
SampleChain(v, base, traces, period, order) ==
  /\ v[0] = base
  /\ \A k \in Nat : k < Len(order) =>
       v[k + 1] = AddSample(v[k], order[k + 1], traces[order[k + 1]], period)
  /\ Filled(base, traces, period, order) = v[Len(order)]

\* The values of the loop, trace after trace.
LEMMA SamplesChained ==
  ASSUME NEW S, NEW base \in S, NEW traces, NEW period, NEW order,
         Len(order) \in Nat, DOMAIN order = 1 .. Len(order),
         \A c \in S : \A i \in 1 .. Len(order) :
           AddSample(c, order[i], traces[order[i]], period) \in S
  PROVE  \E v : SampleChain(v, base, traces, period, order)
<1> DEFINE n == Len(order)
           Step(iter) ==
             [s \in SUBSET (1 .. n) |->
                IF s = {} THEN base
                ELSE AddSample(iter[s \ {Max(s)}], order[Max(s)], traces[order[Max(s)]], period)]
           fold == CHOOSE iter : iter = Step(iter)
           v == [k \in Nat |-> fold[1 .. k]]
<1>1. Filled(base, traces, period, order) = fold[1 .. n]
  BY DEF Filled, FoldLeft, MapThenFoldSet
<1>2. fold = Step(fold)
  <2>1. \E iter : iter = Step(iter)
    <3>1. n \in Nat /\ \A c \in S : \A i \in 1 .. n :
            AddSample(c, order[i], traces[order[i]], period) \in S
      OBVIOUS
    <3>2. SampleFolds(base, traces, period, order, S, n)
      <4> HIDE DEF n
      <4> QED
        BY <3>1, SampleFold
    <3> QED
      BY <3>2 DEF SampleFolds
  <2> HIDE DEF Step
  <2> QED
    BY <2>1
<1> HIDE DEF fold
<1>3. v[0] = base
  <2>1. 1 .. 0 = {} /\ v[0] = fold[1 .. 0]
    OBVIOUS
  <2>2. fold[{}] = base
    BY <1>2
  <2> QED
    BY <2>1, <2>2
<1>4. ASSUME NEW k \in Nat, k < n
      PROVE  v[k + 1] = AddSample(v[k], order[k + 1], traces[order[k + 1]], period)
  <2>1. /\ 1 .. (k + 1) # {} /\ Max(1 .. (k + 1)) = k + 1
        /\ (1 .. (k + 1)) \ {k + 1} = 1 .. k
    BY LastPosition
  <2>2. 1 .. (k + 1) \in SUBSET (1 .. n)
    BY <1>4
  <2>3. fold[1 .. (k + 1)]
          = AddSample(fold[1 .. k], order[k + 1], traces[order[k + 1]], period)
    BY <1>2, <2>1, <2>2
  <2> QED
    BY <2>3
<1>5. Filled(base, traces, period, order) = v[n]
  BY <1>1
<1> HIDE DEF v
<1>6. SampleChain(v, base, traces, period, order)
  BY <1>3, <1>4, <1>5 DEF SampleChain
<1> QED
  BY <1>6

\* One string more is stored.
LEMMA StringsStay ==
  ASSUME NEW V, NEW L, NEW b \in Builders(V, L), NEW v \in V
  PROVE  LET c == AddString(b, v)
         IN  /\ c \in Builders(V, L) /\ c.sample = b.sample
             /\ v \in ToSet(c.string_table)
             /\ ToSet(b.string_table) \subseteq ToSet(c.string_table)
<1> DEFINE c == AddString(b, v)
<1>1. /\ c \in Builders(V, L) /\ Grows(b, c) /\ v \in ToSet(c.string_table)
      /\ c.sample = b.sample
  BY StringAdded
<1> HIDE DEF c
<1>2. \A s \in ToSet(b.string_table) : s \in ToSet(c.string_table)
  BY <1>1, StringStays
<1> QED
  BY <1>1, <1>2 DEF c

\* The profile before its samples.
LEMMA ProfileBegun ==
  ASSUME NEW V, NEW L, NEW profile_type \in V, NEW period_unit \in V,
         {EmptyString, "sample", "count"} \subseteq V
  PROVE  LET b == AddTypes(NewBuilder, profile_type, period_unit)
         IN  /\ b \in Builders(V, L) /\ Len(b.sample) = 0
             /\ {profile_type, period_unit, "sample", "count"} \subseteq ToSet(b.string_table)
<1>1. NewBuilder \in Builders(V, L) /\ Len(NewBuilder.sample) = 0
  <2> DEFINE t == <<EmptyString>>
  <2>1. /\ t \in Seq(V) /\ Len(t) = 1 /\ DOMAIN t = 1 .. 1 /\ t[1] = EmptyString
    OBVIOUS
  <2> HIDE DEF t
  <2>2. IsInjective(t) /\ IsInjective(<<>>)
    BY <2>1 DEF IsInjective
  <2>3. /\ NewBuilder = [string_table |-> t, function |-> <<>>, location |-> <<>>,
                         sample |-> <<>>]
        /\ NewBuilder.string_table = t /\ NewBuilder.function = <<>>
        /\ NewBuilder.location = <<>> /\ NewBuilder.sample = <<>>
    BY DEF NewBuilder, t
  <2>4. NewBuilder \in [string_table : Seq(V), function : Seq(ProtoFunctions),
                        location : Seq(ProtoLocations(L)), sample : Seq(ProtoSamples)]
    BY <2>1, <2>3
  <2>5. Referring(NewBuilder)
    BY <2>3 DEF Referring
  <2> QED
    BY <2>1, <2>2, <2>3, <2>4, <2>5 DEF Builders
<1> DEFINE b1 == AddString(NewBuilder, profile_type)
           b2 == AddString(b1, period_unit)
           b3 == AddString(b2, "sample")
           b4 == AddString(b3, "count")
<1>2. /\ b1 \in Builders(V, L) /\ b1.sample = NewBuilder.sample
      /\ profile_type \in ToSet(b1.string_table)
  BY <1>1, StringsStay
<1> HIDE DEF b1
<1>3. /\ b2 \in Builders(V, L) /\ b2.sample = b1.sample
      /\ period_unit \in ToSet(b2.string_table)
      /\ ToSet(b1.string_table) \subseteq ToSet(b2.string_table)
  BY <1>2, StringsStay
<1> HIDE DEF b2
<1>4. "sample" \in V /\ "count" \in V
  OBVIOUS
<1>5. /\ b3 \in Builders(V, L) /\ b3.sample = b2.sample
      /\ "sample" \in ToSet(b3.string_table)
      /\ ToSet(b2.string_table) \subseteq ToSet(b3.string_table)
  BY <1>3, <1>4, StringsStay
<1> HIDE DEF b3
<1>6. /\ b4 \in Builders(V, L) /\ b4.sample = b3.sample
      /\ "count" \in ToSet(b4.string_table)
      /\ ToSet(b3.string_table) \subseteq ToSet(b4.string_table)
  BY <1>4, <1>5, StringsStay
<1> HIDE DEF b4
<1>7. AddTypes(NewBuilder, profile_type, period_unit) = b4
  BY DEF AddTypes, b4, b3, b2, b1
<1>8. {profile_type, period_unit, "sample", "count"} \subseteq ToSet(b4.string_table)
  BY <1>2, <1>3, <1>5, <1>6
<1> QED
  BY <1>1, <1>2, <1>3, <1>5, <1>6, <1>7, <1>8

\* An order of a finite set names each of its elements.
LEMMA OrderNamesAll ==
  ASSUME NEW S, IsFiniteSet(S), NEW order \in SetToSeqs(S)
  PROVE  /\ order \in [1 .. Cardinality(S) -> S] /\ Cardinality(S) \in Nat
         /\ {order[i] : i \in 1 .. Cardinality(S)} = S
<1> DEFINE n == Cardinality(S)
<1>1. n \in Nat
  BY FS_CardinalityType
<1>2. order \in Injection(1 .. n, S)
  BY DEF SetToSeqs, Injection, IsInjective
<1>3. Cardinality(1 .. n) = n
  BY <1>1, FS_Interval
<1> HIDE DEF n
<1>4. order \in Surjection(1 .. n, S)
  <2>1. Cardinality(1 .. n) = Cardinality(S)
    BY <1>3 DEF n
  <2> QED
    BY <1>2, <2>1, FS_Injection
<1>5. order \in [1 .. n -> S] /\ \A x \in S : \E i \in 1 .. n : order[i] = x
  BY <1>2, <1>4 DEF Injection, Surjection
<1>6. {order[i] : i \in 1 .. n} = S
  BY <1>5
<1> QED
  BY <1>1, <1>5, <1>6 DEF n

\* The first n samples are of the first n traces.
SamplesAre(b, n, traces, order, period) ==
  /\ Len(b.sample) = n
  /\ \A i \in 1 .. n : SampleIs(b, i, order[i], traces[order[i]], period)

\* The loop adds the samples in the order of the traces.
LEMMA SamplesReadBack ==
  ASSUME NEW V, NEW L, NEW base \in Builders(V, L), Len(base.sample) = 0,
         NEW traces, NEW period \in Int, NEW order, NEW n \in Nat,
         Len(order) = n, DOMAIN order = 1 .. n,
         \A i \in 1 .. n : order[i] \in Seq(Framed(V, L)) /\ traces[order[i]] \in Int
  PROVE  LET b == Filled(base, traces, period, order)
         IN  b \in Builders(V, L) /\ Grows(base, b) /\ SamplesAre(b, n, traces, order, period)
<1> DEFINE S == Builders(V, L)
           Holds(b, k) == b \in S /\ Grows(base, b) /\ SamplesAre(b, k, traces, order, period)
<1>3. \A c \in S : \A i \in 1 .. n : AddSample(c, order[i], traces[order[i]], period) \in S
  BY SampleAdded
<1>4. PICK v : SampleChain(v, base, traces, period, order)
  <2>1. base \in S /\ Len(order) \in Nat /\ DOMAIN order = 1 .. Len(order)
        /\ \A c \in S : \A i \in 1 .. Len(order) :
             AddSample(c, order[i], traces[order[i]], period) \in S
    BY <1>3
  <2> HIDE DEF S
  <2> QED
    BY <2>1, SamplesChained
<1> DEFINE Done == {k \in Nat : k <= n => Holds(v[k], k)}
<1>5. 0 \in Done
  BY <1>4, GrowsReflexive DEF SampleChain, SamplesAre
<1>6. ASSUME NEW k \in Nat, k \in Done PROVE k + 1 \in Done
  <2>1. ASSUME k + 1 <= n PROVE Holds(v[k + 1], k + 1)
    <3> DEFINE c == v[k]
               t == order[k + 1]
               d == AddSample(c, t, traces[t], period)
    <3>1. k + 1 \in 1 .. n /\ k < n /\ k <= n
      BY <2>1
    <3>2. Holds(c, k)
      BY <1>6, <3>1
    <3>3. v[k + 1] = d
      BY <1>4, <3>1 DEF SampleChain
    <3>4. t \in Seq(Framed(V, L)) /\ traces[t] \in Int
      BY <3>1
    <3> HIDE DEF c, t
    <3>5. c \in Builders(V, L) /\ Grows(base, c) /\ Len(c.sample) = k
      BY <3>2 DEF SamplesAre
    <3>6. d \in Builders(V, L) /\ Grows(c, d) /\ Sampled(c, d, t, traces[t], period)
      BY <3>4, <3>5, SampleAdded
    <3> HIDE DEF d
    <3>7. Len(d.sample) = k + 1 /\ SampleIs(d, k + 1, t, traces[t], period)
      BY <3>5, <3>6 DEF Sampled
    <3>8. ASSUME NEW i \in 1 .. (k + 1)
          PROVE  SampleIs(d, i, order[i], traces[order[i]], period)
      <4>1. CASE i = k + 1
        BY <3>7, <4>1 DEF t
      <4>2. CASE i # k + 1
        <5>1. i \in 1 .. Len(c.sample)
          BY <3>5, <4>2
        <5>2. TraceAt(d, i) = TraceAt(c, i) /\ d.sample[i] = c.sample[i]
          BY <3>6, <5>1 DEF Sampled
        <5>3. SampleIs(c, i, order[i], traces[order[i]], period)
          BY <3>2, <3>5, <5>1 DEF SamplesAre
        <5> QED
          BY <5>2, <5>3 DEF SampleIs
      <4> QED
        BY <4>1, <4>2
    <3>9. Grows(base, d)
      BY <3>5, <3>6, GrowsTransitive
    <3> QED
      BY <3>3, <3>6, <3>7, <3>8, <3>9 DEF SamplesAre
  <2> HIDE DEF Holds
  <2> QED
    BY <2>1
<1>7. n \in Done
  <2> HIDE DEF Done
  <2> QED
    BY <1>5, <1>6, NatSetInduction
<1> HIDE DEF S
<1>8. Holds(v[n], n)
  BY <1>7
<1> QED
  BY <1>4, <1>8 DEF SampleChain, S

-----------------------------------------------------------------------------
(***************************************************************************)
(* populate_profile stores every trace that it is given with its count and *)
(* its value, in whatever order the dictionary yields them, so that each   *)
(* is read back frame by frame, and stores no string, function or location *)
(* twice (builder.py:36-142): whatever the names, and however many.  The   *)
(* types of the values read back as they were given, too.                  *)
(***************************************************************************)
THEOREM BuilderReadsBack ==
  ASSUME NEW V, NEW L, NEW profile_type \in V, NEW period_unit \in V,
         {EmptyString, "sample", "count"} \subseteq V,
         NEW traces, IsFiniteSet(DOMAIN traces), DOMAIN traces \subseteq Seq(Framed(V, L)),
         \A t \in DOMAIN traces : traces[t] \in Int,
         NEW period \in Int, NEW order \in SetToSeqs(DOMAIN traces)
  PROVE  Represents(populate_profile(traces, order, profile_type, period_unit, period),
                    traces, profile_type, period_unit, period)
<1> DEFINE n == Cardinality(DOMAIN traces)
           base == AddTypes(NewBuilder, profile_type, period_unit)
           b == Filled(base, traces, period, order)
           p == populate_profile(traces, order, profile_type, period_unit, period)
<1>1. /\ p.tables = b
      /\ p.period_type = ValueType(base, profile_type, period_unit)
      /\ p.sample_type[1] = ValueType(base, "sample", "count")
      /\ p.sample_type[2] = ValueType(base, profile_type, period_unit)
  BY DEF populate_profile, Filled, FoldLeft, MapThenFoldSet
<1>2. order \in [1 .. n -> DOMAIN traces] /\ n \in Nat /\ {order[i] : i \in 1 .. n} = DOMAIN traces
  BY OrderNamesAll
<1>3. /\ base \in Builders(V, L) /\ Len(base.sample) = 0
      /\ {profile_type, period_unit, "sample", "count"} \subseteq ToSet(base.string_table)
  BY ProfileBegun
<1> HIDE DEF n, base
<1>4. /\ Len(order) = n /\ DOMAIN order = 1 .. n
      /\ \A i \in 1 .. n : order[i] \in Seq(Framed(V, L)) /\ traces[order[i]] \in Int
  <2>1. order \in Seq(DOMAIN traces)
    BY <1>2
  <2>2. DOMAIN order = 1 .. n
    BY <1>2
  <2>3. Len(order) = n
    BY <1>2, <2>1, <2>2, LenProperties
  <2>4. \A i \in 1 .. n : order[i] \in DOMAIN traces
    BY <1>2
  <2> QED
    BY <2>2, <2>3, <2>4
<1>5. b \in Builders(V, L) /\ Grows(base, b) /\ SamplesAre(b, n, traces, order, period)
  BY <1>2, <1>3, <1>4, SamplesReadBack
<1> HIDE DEF b, p
<1>6. /\ b.string_table[1] = EmptyString
      /\ IsInjective(b.string_table) /\ IsInjective(b.function) /\ IsInjective(b.location)
      /\ DOMAIN b.sample = 1 .. n
  <2>1. b.sample \in Seq(ProtoSamples)
    BY <1>5, BuilderTypes
  <2> QED
    BY <1>5, <2>1, LenProperties DEF Builders, SamplesAre
<1>7. {TraceAt(b, i) : i \in DOMAIN b.sample} = DOMAIN traces
  <2>1. {TraceAt(b, i) : i \in DOMAIN b.sample} = {order[i] : i \in 1 .. n}
    BY <1>5, <1>6 DEF SamplesAre, SampleIs
  <2> QED
    BY <1>2, <2>1
<1>8. \A i \in DOMAIN b.sample :
        LET count == traces[TraceAt(b, i)]
        IN  b.sample[i].value = <<count, period * count>>
  BY <1>5, <1>6 DEF SamplesAre, SampleIs
<1>9. HoldsTraces(b, traces, period)
  BY <1>5, <1>6, <1>7, <1>8 DEF HoldsTraces, SamplesAre, n
<1>10. \A s \in ToSet(base.string_table) : StringAt(b, _string_id(base, s)) = s
  BY <1>3, <1>5, StringStays
<1>11. /\ TypeIs(b, ValueType(base, profile_type, period_unit), profile_type, period_unit)
       /\ TypeIs(b, ValueType(base, "sample", "count"), "sample", "count")
  BY <1>3, <1>10 DEF TypeIs, ValueType
<1>12. Represents(p, traces, profile_type, period_unit, period)
  BY <1>1, <1>9, <1>11 DEF Represents
<1> QED
  BY <1>12 DEF p

\* The traces of the dictionary are made of frames.
DictionaryInv == DOMAIN py_traces \subseteq Seq(PyFrames)

\* PythonTraces enters only traces whose frames it resolved.
LEMMA DictionaryStep ==
  ASSUME TypedInv, DictionaryInv, [Next]_vars
  PROVE  DictionaryInv'
<1> USE DEF DictionaryInv
<1>1. CASE Reset \/ Unhook
  <2>1. py_traces' = EmptyMap
    BY <1>1 DEF Reset, Unhook, NewReport
  <2> QED
    BY <2>1, NothingCounted
<1>2. CASE StoreTrace
  <2>1. py_frames \in Seq(PyFrames)
    BY DEF TypedInv, NamedInv, TraceInv
  <2>2. CASE py_traces' = py_traces
    BY <2>2
  <2>3. CASE py_traces' = Put(py_traces, py_frames, Lookup(py_traces, py_frames) + aggregated[work])
    <3>1. DOMAIN py_traces' = DOMAIN py_traces \cup {py_frames}
      BY <2>3, PutEntry
    <3> QED
      BY <2>1, <3>1
  <2> QED
    BY <1>2, <2>2, <2>3 DEF StoreTrace
<1>3. CASE ~ (Reset \/ Unhook \/ StoreTrace)
  <2>1. py_traces' = py_traces
    BY <1>3 DEF Next, vars, Alloc, CodeDealloc, Hook, Start, Sample, SampleUnknown, Stop,
                NextTrace, ResolveFrame, OutOfMemory, PythonTracesReturns, reportVars
  <2> QED
    BY <2>1
<1> QED
  BY <1>1, <1>2, <1>3

\* The strings of a profile: those of its frames and those of its types.
ProfileStrings ==
  {loc.name : loc \in FuncLocs} \cup {loc.filename : loc \in FuncLocs}
    \cup {EmptyString, "CPU", "nanoseconds", "sample", "count"}

\* A resolved frame is made of the strings and lines of the profile.
LEMMA FramesAreFramed == PyFrames \subseteq Framed(ProfileStrings, PyLines)
<1> SUFFICES ASSUME NEW loc \in FuncLocs, NEW l \in PyLines
             PROVE  PyFrame(loc, l) \in Framed(ProfileStrings, PyLines)
  BY DEF PyFrames
<1>1. loc.name \in ProfileStrings /\ loc.filename \in ProfileStrings
  BY DEF ProfileStrings
<1> QED
  BY <1>1 DEF PyFrame, Framed

(***************************************************************************)
(* Whatever was sampled and freed, the profile that CPUProfiler.profile    *)
(* hands out reads back as the dictionary of the native profiler: every    *)
(* trace with its frames, its count and its value, in whatever order the   *)
(* dictionary yields them, and nothing stored twice (cpu_profiler.py:55-59,*)
(* builder.py:36-142).                                                     *)
(***************************************************************************)
THEOREM ProfilesReadBack == Spec => []ProfileReadsBack
<1>1. Init => TypedInv /\ DictionaryInv
  <2>1. Init => DictionaryInv
    BY NothingCounted DEF Init, DictionaryInv
  <2> QED
    BY <2>1, TypedInit
<1>2. TypedInv /\ DictionaryInv /\ [Next]_vars => TypedInv' /\ DictionaryInv'
  BY TypedStep, DictionaryStep
<1>3. TypedInv /\ DictionaryInv => ProfileReadsBack
  <2> SUFFICES ASSUME TypedInv, DictionaryInv, NEW order \in SetToSeqs(DOMAIN py_traces)
               PROVE  Represents(_build_profile(py_traces, order, 10), py_traces,
                                 "CPU", "nanoseconds", 10000000)
    BY DEF ProfileReadsBack
  <2> DEFINE V == ProfileStrings
             period == 10 * 1000 * 1000
  <2>1. IsFiniteSet(DOMAIN py_traces) /\ \A t \in DOMAIN py_traces : py_traces[t] \in Int
    BY DEF TypedInv, CountedInv, CountsInv, Counts
  <2>2. DOMAIN py_traces \subseteq Seq(Framed(V, PyLines))
    <3>1. Seq(PyFrames) \subseteq Seq(Framed(V, PyLines))
      BY FramesAreFramed
    <3> QED
      BY <3>1 DEF DictionaryInv
  <2>3. "CPU" \in V /\ "nanoseconds" \in V /\ {EmptyString, "sample", "count"} \subseteq V
    BY DEF ProfileStrings
  <2>4. period = 10000000 /\ period \in Int
    OBVIOUS
  <2>5. _build_profile(py_traces, order, 10)
          = populate_profile(py_traces, order, "CPU", "nanoseconds", period)
    BY DEF _build_profile
  <2> HIDE DEF V, period
  <2>6. Represents(populate_profile(py_traces, order, "CPU", "nanoseconds", period),
                   py_traces, "CPU", "nanoseconds", period)
    <3>1. \A t \in DOMAIN py_traces : py_traces[t] \in Int
      BY <2>1
    <3> QED
      BY <2>1, <2>2, <2>3, <2>4, <3>1, BuilderReadsBack
  <2> QED
    BY <2>4, <2>5, <2>6
<1> QED
  BY <1>1, <1>2, <1>3, PTL DEF Spec
=============================================================================
