--------------------------- MODULE GenProto_proofs ---------------------------
(***************************************************************************)
(* Proofs about gen-proto.  First its export filter, whatever the           *)
(* specification and the exports: the loop stops at a set of classes that   *)
(* is closed.  The argument is that of every worklist: what it ends with is *)
(* a fixed point of Round, and only has to hold what it started from.  Then *)
(* subclasses.  The rest is about the numbers of the RPCs: what the two     *)
(* generators select from a class, each in its own order of leaving out and *)
(* counting, are the same parts of the sequence of its methods.             *)
(***************************************************************************)
EXTENDS GenProto, FiniteSetTheorems, SequenceTheorems, TLAPS

\* What FilterClosed needs of wasmify.json: of an exported name the filter
\* reads the last overload only, so an exported function has no others.
NoOverloadedExports ==
  \A a \in Apis :
    /\ DOMAIN a.functions \subseteq Nat
    /\ \A i, j \in DOMAIN a.functions :
         /\ a.functions[i].qual \in a.exportFunctions
         /\ a.functions[j].qual = a.functions[i].qual
         => i = j

\* Where the loop stops: with everything, if nothing is exported, and else
\* with a fixed point that holds what is exported and what functions need.
Settled ==
  pc # "filter" =>
    \A K : K = DOMAIN spec.classes =>
      \/ ExportsAll /\ K = DOMAIN api.classes
      \/ ~ExportsAll /\ Round(K) = K /\ FromFunctions \cup Known(api.exportClasses) \subseteq K

\* What holds of the filter at every step.
FilterInv ==
  /\ api \in Apis
  /\ kept \subseteq DOMAIN api.classes
  /\ Known(api.exportClasses) \subseteq kept
  /\ DOMAIN spec.classes \subseteq DOMAIN api.classes \/ pc = "filter"
  /\ Settled
-----------------------------------------------------------------------------
\* What a turn of the loop adds are classes of the specification.
LEMMA KnownRound ==
  ASSUME NEW S \in SUBSET DOMAIN api.classes
  PROVE  Round(S \cup FromFunctions) \subseteq DOMAIN api.classes
<1>1. FromFunctions \subseteq DOMAIN api.classes
  BY DEF FromFunctions, SignatureTypes, Known
<1>2. ASSUME NEW c PROVE Bases(c) \cup MemberTypes(c) \subseteq DOMAIN api.classes
  <2>1. \A T : Known(T) \subseteq DOMAIN api.classes
    BY DEF Known
  <2>2. \A f : SignatureTypes(f) \subseteq DOMAIN api.classes
    BY <2>1 DEF SignatureTypes
  <2>3. Bases(c) \subseteq DOMAIN api.classes
    BY <2>1 DEF Bases
  <2>4. MemberTypes(c) \subseteq DOMAIN api.classes
    BY <2>1, <2>2 DEF MemberTypes
  <2>5. QED  BY <2>3, <2>4
<1>3. Below(S \cup FromFunctions) \subseteq DOMAIN api.classes
  BY DEF Below
<1>4. QED  BY <1>1, <1>2, <1>3 DEF Round

\* A turn of the loop forgets nothing.
LEMMA RoundGrows == ASSUME NEW S PROVE S \subseteq Round(S)
BY DEF Round

\* What the operators say of the specification stays true while it stays.
LEMMA BelowSame == ASSUME api' = api, NEW S PROVE Below(S)' = Below(S)
<1>1. ASSUME NEW d, NEW a PROVE hasAncestor(d, a)' = hasAncestor(d, a)
  BY DEF hasAncestor, Above, Primary, Bases, Known
<1>2. QED  BY <1>1 DEF Below

\* So do those that depend on it alone.
LEMMA Same ==
  ASSUME api' = api
  PROVE  /\ FromFunctions' = FromFunctions
         /\ Known(api.exportClasses)' = Known(api.exportClasses)
         /\ ExportsAll' = ExportsAll
<1>1. FromFunctions' = FromFunctions
  BY DEF FromFunctions, SignatureTypes, Known, Found, IsExported
<1>2. QED  BY <1>1 DEF Known, ExportsAll

\* And Round.
LEMMA RoundSame == ASSUME api' = api, NEW S PROVE Round(S)' = Round(S)
<1>1. QED BY BelowSame DEF Round, Bases, MemberTypes, SignatureTypes, Known

\* The invariant holds initially,
LEMMA FilterInvInit == Init => FilterInv
BY DEF Init, FilterInv, Settled, Known

\* is kept by every turn of the loop,
LEMMA FilterInvNext == FilterInv /\ [Next]_filterVars => FilterInv'
<1> SUFFICES ASSUME FilterInv, [Next]_filterVars PROVE FilterInv'
  OBVIOUS
<1> USE DEF FilterInv
<1>1. CASE FilterNothing
  <2>1. spec'.classes = api.classes /\ UNCHANGED <<api, kept>>
    BY <1>1 DEF FilterNothing
  <2>2. Settled'
    BY <1>1, <2>1 DEF FilterNothing, Settled, ExportsAll
  <2>3. QED  BY <2>1, <2>2 DEF Known
<1>2. CASE Filter
  <2> PICK S : S = kept \cup FromFunctions
    OBVIOUS
  <2>1. api' = api /\ kept' = Round(S)
    BY <1>2 DEF Filter
  <2>2. Round(S) \subseteq DOMAIN api.classes
    BY KnownRound
  <2>3. S \subseteq Round(S)
    BY RoundGrows
  <2>4. CASE Round(S) = S
    <3>1. spec' = Filtered(S) /\ pc' = "filtered"
      BY <1>2, <2>4 DEF Filter
    <3>2. DOMAIN spec'.classes = S
      BY <3>1 DEF Filtered
    <3>3. Round(S)' = S /\ FromFunctions' \cup Known(api.exportClasses)' \subseteq S
      BY <2>1, <2>4, RoundSame, Same
    <3>4. Settled'
      BY <1>2, <2>1, <3>2, <3>3, Same DEF Settled, Filter
    <3>5. QED  BY <2>1, <2>2, <2>3, <2>4, <3>2, <3>4 DEF Known
  <2>5. CASE Round(S) # S
    <3>1. UNCHANGED <<pc, spec>> /\ pc = "filter"
      BY <1>2, <2>5 DEF Filter
    <3>2. QED  BY <2>1, <2>2, <2>3, <3>1 DEF Settled, Known
  <2>6. QED  BY <2>4, <2>5
<1>3. CASE UNCHANGED filterVars
  <2>1. UNCHANGED <<api, pc, kept, spec>>
    BY <1>3 DEF filterVars
  <2>2. Settled'
    BY <2>1, RoundSame, Same DEF Settled
  <2>3. QED  BY <2>1, <2>2, Same
<1>4. QED  BY <1>1, <1>2, <1>3 DEF Next
-----------------------------------------------------------------------------
\* and so holds always.
LEMMA FilterInvAlways == Spec => []FilterInv
BY FilterInvInit, FilterInvNext, PTL DEF Spec

\* Where the loop stops every class it finds below an abstract one is kept.
LEMMA SettledDescendants == ASSUME FilterInv PROVE DescendantsKept
<1> SUFFICES ASSUME pc # "filter", NEW K, K = DOMAIN spec.classes PROVE Below(K) \subseteq K
  BY DEF DescendantsKept
<1>1. K = DOMAIN api.classes \/ Round(K) = K
  BY DEF FilterInv, Settled
<1> QED BY <1>1 DEF Below, Round

\* Nor is anything else missing: of an exported function, which has
\* no overloads, the filter has seen the types.
LEMMA SettledIsClosed ==
  ASSUME NoOverloadedExports, FilterInv
  PROVE  FilterClosed
<1> SUFFICES ASSUME pc # "filter", NEW K, K = DOMAIN spec.classes
             PROVE  /\ \A c \in K : Bases(c) \cup MemberTypes(c) \subseteq K
                    /\ \A i \in DOMAIN api.functions :
                         Bridged(api.functions[i]) => SignatureTypes(api.functions[i]) \subseteq K
                    /\ Known(api.exportClasses) \subseteq K
  BY DEF FilterClosed
<1>1. CASE ExportsAll /\ K = DOMAIN api.classes
  <2>1. \A T : Known(T) \subseteq K
    BY <1>1 DEF Known
  <2>2. \A f : SignatureTypes(f) \subseteq K
    BY <2>1 DEF SignatureTypes
  <2>3. \A c : Bases(c) \cup MemberTypes(c) \subseteq K
    BY <2>1, <2>2 DEF Bases, MemberTypes
  <2>4. QED  BY <2>1, <2>2, <2>3
<1>2. CASE ~ExportsAll /\ Round(K) = K /\ FromFunctions \cup Known(api.exportClasses) \subseteq K
  <2>1. \A c \in K : Bases(c) \cup MemberTypes(c) \subseteq K
    BY <1>2 DEF Round
  <2>2. ASSUME NEW i \in DOMAIN api.functions, Bridged(api.functions[i])
        PROVE  SignatureTypes(api.functions[i]) \subseteq K
    <3>1. IsExported(api.functions[i])
      BY <1>2, <2>2 DEF Bridged
    <3>2. \A j \in DOMAIN api.functions : api.functions[j].qual = api.functions[i].qual => i = j
      BY <3>1 DEF NoOverloadedExports, FilterInv, IsExported
    <3>3. Found(i)
      <4>1. DOMAIN api.functions \subseteq Nat
        BY DEF NoOverloadedExports, FilterInv
      <4>2. \A j \in DOMAIN api.functions : j > i => j # i
        BY <4>1
      <4>3. QED  BY <3>1, <3>2, <4>2 DEF Found
    <3>4. SignatureTypes(api.functions[i]) \subseteq FromFunctions
      BY <3>3 DEF FromFunctions
    <3>5. QED  BY <3>4, <1>2
  <2>3. QED  BY <2>1, <2>2, <1>2
<1>3. QED  BY <1>1, <1>2 DEF FilterInv, Settled
-----------------------------------------------------------------------------
\* Round is monotone, so what it makes of a part of a fixed point is a part.
LEMMA RoundMonotone == ASSUME NEW T, NEW S \in SUBSET T PROVE Round(S) \subseteq Round(T)
<1>1. Below(S) \subseteq Below(T)
  BY DEF Below
<1>2. QED  BY <1>1 DEF Round

\* So the loop never leaves a closed set that has what it starts with.
LEMMA LeastInit == Init => FilterLeast
BY DEF Init, FilterLeast

\* Nor does a turn.
LEMMA LeastNext == FilterLeast /\ [Next]_filterVars => FilterLeast'
<1> SUFFICES ASSUME FilterLeast, [Next]_filterVars,
                    NEW T \in SUBSET DOMAIN api'.classes,
                    Round(T)' = T, (FromFunctions \cup Known(api.exportClasses))' \subseteq T
             PROVE  kept' \subseteq T
  BY DEF FilterLeast
<1>1. api' = api
  BY DEF Next, FilterNothing, Filter, filterVars
<1>2. T \in SUBSET DOMAIN api.classes /\ Round(T) = T /\ FromFunctions \cup Known(api.exportClasses) \subseteq T
  BY <1>1, RoundSame, Same
<1>3. kept \cup FromFunctions \subseteq T
  BY <1>2 DEF FilterLeast
<1>4. Round(kept \cup FromFunctions) \subseteq T
  BY <1>2, <1>3, RoundMonotone
<1>5. kept' = kept \/ kept' = Round(kept \cup FromFunctions)
  BY DEF Next, FilterNothing, Filter, filterVars
<1>6. QED  BY <1>3, <1>4, <1>5
-----------------------------------------------------------------------------
\* What the export filter leaves of any specification is closed and nothing
\* more than that, if no exported function is overloaded.
THEOREM FilterIsExact == ASSUME NoOverloadedExports PROVE Spec => []FilterExact
<1>1. FilterInv => FilterClosed /\ DescendantsKept
  BY SettledIsClosed, SettledDescendants
<1>2. Spec => []FilterLeast
  BY LeastInit, LeastNext, PTL DEF Spec
<1>3. FilterInv /\ FilterLeast => FilterExact
  BY <1>1 DEF FilterExact
<1>4. QED  BY <1>2, <1>3, FilterInvAlways, PTL
-----------------------------------------------------------------------------
(***************************************************************************)
(* Subclasses.  hasAncestor follows the first base of each class only, and  *)
(* looks at the others of the class it starts from.                         *)
(***************************************************************************)
\* Classes are finitely many, and a base that is not the first of its class
\* is a mixin: it has no bases, and the class is not a base itself.
OnlyMixins ==
  \A a \in Apis :
    LET bases(c) == {a.classes[c].parents[i] : i \in DOMAIN a.classes[c].parents}
                      \cap DOMAIN a.classes
    IN  /\ IsFiniteSet(DOMAIN a.classes)
        /\ \A c \in DOMAIN a.classes :
             /\ a.classes[c].parents \in Seq(Nat)
             /\ \A b \in bases(c) :
                  b # a.classes[c].parents[1] =>
                    bases(b) = {} /\ \A d \in DOMAIN a.classes : c \notin bases(d)

\* The bases of c, all of them or the first.
Up(all, c) == IF all THEN Bases(c) ELSE Primary(c)

\* No class is further up than this.
Depth == Cardinality(DOMAIN api.classes)

\* What is above c at n steps, from what f says is at n - 1.
Higher(all, c, f) ==
  [n \in 0..Depth |->
     IF n = 0 THEN Up(all, c) ELSE f[n - 1] \cup UNION {Up(all, d) : d \in f[n - 1]}]

\* The same over all bases, and over first ones.
HigherBases(c, f) ==
  [n \in 0..Depth |->
     IF n = 0 THEN Bases(c) ELSE f[n - 1] \cup UNION {Bases(d) : d \in f[n - 1]}]
HigherPrimary(c, f) ==
  [n \in 0..Depth |->
     IF n = 0 THEN Primary(c) ELSE f[n - 1] \cup UNION {Primary(d) : d \in f[n - 1]}]

\* A set of natural numbers that contains each number whose predecessors it
\* contains, contains all: finite sets have no infinite chains.
LEMMA Induction ==
  ASSUME NEW S \in SUBSET Nat, \A n \in Nat : 0 .. n-1 \subseteq S => n \in S
  PROVE  Nat \subseteq S
<1> SUFFICES ASSUME NEW m \in Nat \ S PROVE FALSE
  OBVIOUS
<1> DEFINE F == {X \in FiniteSubsetsOf(Nat) : \E n \in Nat \ S : X = 0 .. n-1}
<1>1. ASSUME NEW n \in Nat \ S PROVE 0 .. n-1 \in F
  <2>1. IsFiniteSet(0 .. n-1) /\ 0 .. n-1 \in SUBSET Nat
    BY FS_Interval
  <2> QED BY <2>1 DEF FiniteSubsetsOf
<1>2. PICK X \in F : \A Y \in F : ~ (<<Y, X>> \in StrictSubsetOrdering(Nat))
  <2>1. F \subseteq FiniteSubsetsOf(Nat) /\ F # {}
    BY <1>1
  <2> HIDE DEF F
  <2> QED BY <2>1, FS_StrictSubsetOrderingWellFounded, WFMin
<1>3. PICK n \in Nat \ S : X = 0 .. n-1
  OBVIOUS
<1>4. ASSUME NEW y \in 0 .. n-1, y \notin S PROVE FALSE
  <2>1. 0 .. y-1 \in F
    BY <1>1, <1>4
  <2>2. y \in X /\ y \notin 0 .. y-1
    BY <1>3
  <2>3. 0 .. y-1 \subseteq X /\ 0 .. y-1 # X /\ X \subseteq Nat /\ 0 .. y-1 \subseteq Nat
    BY <1>3, <2>2
  <2>4. <<0 .. y-1, X>> \in StrictSubsetOrdering(Nat)
    BY <2>3 DEF StrictSubsetOrdering
  <2> QED BY <2>1, <2>4, <1>2
<1> QED BY <1>4

\* Above reads off the functions that say so,
LEMMA AboveIs ==
  ASSUME NEW c
  PROVE  /\ Above(c, Bases) = (CHOOSE f : f = HigherBases(c, f))[Depth]
         /\ Above(c, Primary) = (CHOOSE f : f = HigherPrimary(c, f))[Depth]
<1>1. Above(c, Bases) = (CHOOSE f : f = HigherBases(c, f))[Depth]
  BY DEF Above, HigherBases, Depth
<1>2. Above(c, Primary) = (CHOOSE f : f = HigherPrimary(c, f))[Depth]
  BY DEF Above, HigherPrimary, Depth
<1> QED BY <1>1, <1>2

\* and there are such functions.
LEMMA HigherExists ==
  ASSUME NEW all \in BOOLEAN, NEW c, Depth \in Nat
  PROVE  \E f : f = Higher(all, c, f)
<1> DEFINE S == {n \in Nat : \E f : \A m \in 0..Depth : m <= n => f[m] = Higher(all, c, f)[m]}
<1>1. ASSUME NEW n \in Nat, 0 .. n-1 \subseteq S PROVE n \in S
  <2>1. CASE n = 0
    <3> DEFINE f == [m \in 0..Depth |-> Up(all, c)]
    <3>1. \A m \in 0..Depth : m <= n => f[m] = Higher(all, c, f)[m]
      BY <2>1 DEF Higher
    <3> HIDE DEF f
    <3> QED BY <3>1
  <2>2. CASE n > 0
    <3>1. n - 1 \in 0..n-1
      BY <2>2
    <3>2. n - 1 \in S
      BY <3>1, <1>1
    <3>3. PICK f : \A m \in 0..Depth : m <= n - 1 => f[m] = Higher(all, c, f)[m]
      BY <3>2
    <3> DEFINE g == [m \in 0..Depth |-> IF m < n THEN f[m] ELSE Higher(all, c, f)[m]]
    <3>4. ASSUME NEW m \in 0..Depth, m <= n PROVE g[m] = Higher(all, c, g)[m]
      <4>1. g[m] = Higher(all, c, f)[m]
        BY <3>3, <3>4
      <4>2. m = 0 \/ (m - 1 \in 0..Depth /\ g[m - 1] = f[m - 1])
        BY <3>4
      <4> HIDE DEF g
      <4> QED BY <4>1, <4>2 DEF Higher
    <3> HIDE DEF g
    <3> QED BY <3>4
  <2> QED BY <2>1, <2>2
<1>2. Depth \in S
  <2> HIDE DEF S
  <2>1. S \subseteq Nat
    BY DEF S
  <2> QED BY <1>1, <2>1, Induction
<1>3. PICK f : \A m \in 0..Depth : f[m] = Higher(all, c, f)[m]
  BY <1>2
<1> DEFINE g == Higher(all, c, f)
<1>4. \A m \in 0..Depth : g[m] = f[m]
  BY <1>3
<1>5. ASSUME NEW m \in 0..Depth PROVE g[m] = Higher(all, c, g)[m]
  <2>1. m = 0 \/ (m - 1 \in 0..Depth /\ g[m - 1] = f[m - 1])
    BY <1>4
  <2> HIDE DEF g
  <2>2. g[m] = Higher(all, c, f)[m]
    BY <1>3, <1>4
  <2> QED BY <2>1, <2>2 DEF Higher
<1>6. g = [m \in 0..Depth |-> g[m]] /\ Higher(all, c, g) = [m \in 0..Depth |-> Higher(all, c, g)[m]]
  BY DEF Higher
<1> HIDE DEF g
<1> QED BY <1>5, <1>6

\* So Above is what Higher says at the greatest depth.
LEMMA AboveAs ==
  ASSUME NEW c, Depth \in Nat
  PROVE  \E f, g : /\ f = Higher(TRUE, c, f) /\ Above(c, Bases) = f[Depth]
                  /\ g = Higher(FALSE, c, g) /\ Above(c, Primary) = g[Depth]
<1>1. \A f : HigherBases(c, f) = Higher(TRUE, c, f) /\ HigherPrimary(c, f) = Higher(FALSE, c, f)
  BY DEF HigherBases, HigherPrimary, Higher, Up
<1>2. \E f : f = HigherBases(c, f)
  <2>1. \E f : f = Higher(TRUE, c, f)
    BY HigherExists
  <2> QED BY <1>1, <2>1
<1>3. \E f : f = HigherPrimary(c, f)
  <2>1. \E f : f = Higher(FALSE, c, f)
    BY HigherExists
  <2> QED BY <1>1, <2>1
<1> DEFINE F == CHOOSE f : f = HigherBases(c, f)
           G == CHOOSE g : g = HigherPrimary(c, g)
<1>4. F = HigherBases(c, F)
  BY <1>2
<1>5. G = HigherPrimary(c, G)
  BY <1>3
<1>6. Above(c, Bases) = F[Depth] /\ Above(c, Primary) = G[Depth]
  BY AboveIs
<1> HIDE DEF F, G
<1> QED BY <1>1, <1>4, <1>5, <1>6

\* What is a base at all.
Derived == UNION {Bases(c) : c \in DOMAIN api.classes}

\* Mixins, as the operators have it.
LEMMA MixinsAre ==
  ASSUME OnlyMixins, api \in Apis
  PROVE  /\ Depth \in Nat
         /\ \A c \in DOMAIN api.classes :
              /\ Bases(c) \subseteq DOMAIN api.classes /\ Primary(c) \subseteq Bases(c)
              /\ \A b \in Bases(c) : b \in Primary(c) \/ Bases(b) = {}
              /\ c \in Derived => Bases(c) = Primary(c)
<1>1. IsFiniteSet(DOMAIN api.classes)
  BY DEF OnlyMixins
<1>2. Depth \in Nat
  BY <1>1, FS_CardinalityType DEF Depth
<1>3. ASSUME NEW c \in DOMAIN api.classes
      PROVE  /\ Bases(c) \subseteq DOMAIN api.classes /\ Primary(c) \subseteq Bases(c)
             /\ \A b \in Bases(c) : b \in Primary(c) \/ Bases(b) = {}
             /\ c \in Derived => Bases(c) = Primary(c)
  <2>1. Bases(c) \subseteq DOMAIN api.classes
    BY DEF Bases, Known
  <2>2. api.classes[c].parents \in Seq(Nat)
    BY DEF OnlyMixins
  <2>3. api.classes[c].parents # << >> => 1 \in DOMAIN api.classes[c].parents
    BY <2>2
  <2>4. Primary(c) = IF api.classes[c].parents = << >> THEN {}
                     ELSE Bases(c) \cap {api.classes[c].parents[1]}
    BY <2>3 DEF Primary, Bases, Known
  <2>5. ASSUME NEW b \in Bases(c), b \notin Primary(c)
        PROVE  Bases(b) = {} /\ \A d \in DOMAIN api.classes : c \notin Bases(d)
    <3>1. api.classes[c].parents # << >>
      BY <2>2, <2>5 DEF Bases, Known
    <3>2. b # api.classes[c].parents[1]
      BY <2>4, <2>5, <3>1
    <3> QED BY <2>5, <3>2 DEF OnlyMixins, Bases, Known
  <2> QED BY <2>1, <2>4, <2>5 DEF Derived
<1> QED BY <1>2, <1>3

\* All that is above a class is found through its first base and theirs, or
\* is a base of the class itself.
LEMMA AncestorsFound ==
  ASSUME OnlyMixins, api \in Apis, NEW c \in DOMAIN api.classes, NEW a \in Above(c, Bases)
  PROVE  hasAncestor(c, a)
<1>1. PICK f, g : /\ f = Higher(TRUE, c, f) /\ Above(c, Bases) = f[Depth]
                  /\ g = Higher(FALSE, c, g) /\ Above(c, Primary) = g[Depth]
  BY AboveAs, MixinsAre
<1> DEFINE S == {n \in Nat : n <= Depth =>
                   /\ f[n] \subseteq g[n] \cup Bases(c)
                   /\ Primary(c) \subseteq g[n]
                   /\ g[n] \subseteq Derived /\ g[n] \subseteq DOMAIN api.classes}
<1>2. ASSUME NEW n \in 0..Depth
      PROVE  /\ f[n] = IF n = 0 THEN Bases(c) ELSE f[n - 1] \cup UNION {Bases(d) : d \in f[n - 1]}
             /\ g[n] = IF n = 0 THEN Primary(c) ELSE g[n - 1] \cup UNION {Primary(d) : d \in g[n - 1]}
  <2>1. f[n] = Higher(TRUE, c, f)[n] /\ g[n] = Higher(FALSE, c, g)[n]
    BY <1>1
  <2> QED BY <2>1 DEF Higher, Up
<1>3. ASSUME NEW n \in Nat, 0 .. n-1 \subseteq S PROVE n \in S
  <2> SUFFICES ASSUME n <= Depth
               PROVE  /\ f[n] \subseteq g[n] \cup Bases(c)
                      /\ Primary(c) \subseteq g[n]
                      /\ g[n] \subseteq Derived /\ g[n] \subseteq DOMAIN api.classes
    OBVIOUS
  <2>1. Depth \in Nat /\ n \in 0..Depth
    BY MixinsAre
  <2>2. CASE n = 0
    <3>1. f[n] = Bases(c) /\ g[n] = Primary(c)
      BY <1>2, <2>1, <2>2
    <3> QED BY <3>1, MixinsAre DEF Derived
  <2>3. CASE n > 0
    <3>1. n - 1 \in 0..n-1 /\ n - 1 <= Depth
      BY <2>1, <2>3
    <3>2. /\ f[n - 1] \subseteq g[n - 1] \cup Bases(c)
          /\ Primary(c) \subseteq g[n - 1]
          /\ g[n - 1] \subseteq Derived /\ g[n - 1] \subseteq DOMAIN api.classes
      BY <1>3, <3>1
    <3>3. /\ f[n] = f[n - 1] \cup UNION {Bases(d) : d \in f[n - 1]}
          /\ g[n] = g[n - 1] \cup UNION {Primary(d) : d \in g[n - 1]}
      <4>1. n # 0
        BY <2>3
      <4> HIDE DEF S
      <4> QED BY <1>2, <2>1, <4>1
    <3>4. ASSUME NEW d \in f[n - 1], NEW e \in Bases(d) PROVE e \in g[n]
      <4>1. CASE d \in g[n - 1]
        <5>1. Bases(d) = Primary(d)
          BY <3>2, <4>1, MixinsAre
        <5> QED BY <3>3, <3>4, <4>1, <5>1
      <4>2. CASE d \in Bases(c) /\ d \notin g[n - 1]
        BY <3>2, <3>4, <4>2, MixinsAre
      <4> QED BY <3>2, <4>1, <4>2
    <3>5. ASSUME NEW d \in g[n - 1]
          PROVE  Primary(d) \subseteq Derived /\ Primary(d) \subseteq DOMAIN api.classes
      BY <3>2, MixinsAre DEF Derived
    <3> HIDE DEF S
    <3> QED BY <3>2, <3>3, <3>4, <3>5
  <2> QED BY <2>2, <2>3
<1>4. Depth \in S
  <2> HIDE DEF S
  <2>1. S \subseteq Nat
    BY DEF S
  <2> QED BY <1>3, <2>1, Induction, MixinsAre
<1>5. a \in Above(c, Primary) \cup Bases(c)
  BY <1>1, <1>4, MixinsAre
<1> QED BY <1>5 DEF hasAncestor

\* Where the filter stops it has the class of every value.
LEMMA SubclassesFound == ASSUME OnlyMixins, FilterInv PROVE SubclassesKept
<1> SUFFICES ASSUME pc # "filter", NEW a \in DOMAIN spec.classes,
                    NEW d \in DOMAIN api.classes,
                    api.classes[a].abstract, a \in Above(d, Bases)
             PROVE  d \in DOMAIN spec.classes
  BY DEF SubclassesKept
<1>1. hasAncestor(d, a)
  BY AncestorsFound DEF FilterInv
<1>2. d \in Below(DOMAIN spec.classes)
  BY <1>1 DEF Below
<1> QED BY <1>2, SettledDescendants DEF DescendantsKept

\* A value of a kept abstract class has a class that is kept, if bases that
\* are not the first are mixins: its C++ typeid then has a Go type.
THEOREM SubclassesAreKept ==
  ASSUME OnlyMixins
  PROVE  Spec => []SubclassesKept
BY SubclassesFound, FilterInvAlways, PTL
-----------------------------------------------------------------------------
(***************************************************************************)
(* Sets of numbers in their order, and selections from sequences.           *)
(***************************************************************************)
\* What of S comes before i.
Less(S, i) == {j \in S : j < i}

\* S has as many numbers before the n-th as there are places before n.
LEMMA LessCounts ==
  ASSUME NEW S \in SUBSET Nat, IsFiniteSet(S), NEW i \in S
  PROVE  /\ Cardinality(S) \in Nat /\ Cardinality(Less(S, i)) \in 0..(Cardinality(S) - 1)
         /\ \A j \in S : j < i => Cardinality(Less(S, j)) < Cardinality(Less(S, i))
<1>1. ASSUME NEW T, IsFiniteSet(T), NEW R \in SUBSET T, NEW t \in T, t \notin R
      PROVE  Cardinality(R) \in Nat /\ Cardinality(T) \in Nat /\ Cardinality(R) < Cardinality(T)
  <2>1. IsFiniteSet(R) /\ Cardinality(R) <= Cardinality(T) /\ (Cardinality(T) = Cardinality(R) => T = R)
    BY <1>1, FS_Subset
  <2>2. Cardinality(R) \in Nat /\ Cardinality(T) \in Nat
    BY <1>1, <2>1, FS_CardinalityType
  <2> QED BY <1>1, <2>1, <2>2
<1>2. Less(S, i) \in SUBSET S /\ i \notin Less(S, i)
  BY DEF Less
<1>3. Cardinality(Less(S, i)) \in Nat /\ Cardinality(S) \in Nat /\ Cardinality(Less(S, i)) < Cardinality(S)
  BY <1>1, <1>2
<1>4. IsFiniteSet(Less(S, i))
  BY <1>2, FS_Subset
<1>5. ASSUME NEW j \in S, j < i PROVE Cardinality(Less(S, j)) < Cardinality(Less(S, i))
  <2>1. Less(S, j) \in SUBSET Less(S, i) /\ j \in Less(S, i) /\ j \notin Less(S, j)
    <3>1. i \in Nat /\ j \in Nat
      OBVIOUS
    <3>2. \A k \in S : k < j => k < i
      BY <1>5, <3>1
    <3>3. Less(S, j) \subseteq Less(S, i)
      BY <3>2 DEF Less
    <3>4. j \in Less(S, i)
      BY <1>5 DEF Less
    <3>5. j \notin Less(S, j)
      BY <3>1 DEF Less
    <3> QED BY <3>3, <3>4, <3>5
  <2> QED BY <2>1, <1>1, <1>4
<1> QED BY <1>3, <1>5

\* So there is an n-th number for each place, and only one.
LEMMA NthExists ==
  ASSUME NEW S \in SUBSET Nat, IsFiniteSet(S), NEW n \in 1..Cardinality(S)
  PROVE  \E i \in S : Cardinality(Less(S, i)) = n - 1
<1> DEFINE N == 0..(Cardinality(S) - 1)
           f == [i \in S |-> Cardinality(Less(S, i))]
<1>1. Cardinality(S) \in Nat
  BY FS_CardinalityType
<1>2. IsFiniteSet(N) /\ Cardinality(N) = Cardinality(S)
  <2>1. \A k \in Nat : IsFiniteSet(0..(k - 1)) /\ Cardinality(0..(k - 1)) = k
    <3> SUFFICES ASSUME NEW k \in Nat PROVE IsFiniteSet(0..(k - 1)) /\ Cardinality(0..(k - 1)) = k
      OBVIOUS
    <3>1. k - 1 \in Int /\ (IF 0 > k - 1 THEN 0 ELSE k - 1 - 0 + 1) = k
      OBVIOUS
    <3> QED BY <3>1, FS_Interval
  <2> QED BY <1>1, <2>1
<1>3. f \in [S -> N]
  BY LessCounts
<1>4. ASSUME NEW i \in S, NEW j \in S, f[i] = f[j] PROVE i = j
  <2>1. ~(i < j) /\ ~(j < i)
    BY <1>4, LessCounts
  <2> QED BY <2>1
<1>5. f \in Injection(S, N)
  BY <1>3, <1>4 DEF Injection, IsInjective
<1>6. f \in Surjection(S, N)
  BY <1>2, <1>5, FS_Injection
<1>7. n - 1 \in N
  BY <1>1
<1>8. PICK i \in S : f[i] = n - 1
  BY <1>6, <1>7 DEF Surjection
<1> QED BY <1>8

\* InOrder is increasing, and has each number of S once.
LEMMA OrderOf ==
  ASSUME NEW S \in SUBSET Nat, IsFiniteSet(S)
  PROVE  /\ Cardinality(S) \in Nat
         /\ InOrder(S) \in [1..Cardinality(S) -> S]
         /\ \A m, n \in 1..Cardinality(S) : m < n => InOrder(S)[m] < InOrder(S)[n]
         /\ \A i \in S : \E n \in 1..Cardinality(S) : InOrder(S)[n] = i
         /\ \A n \in 1..Cardinality(S) : Cardinality(Less(S, InOrder(S)[n])) = n - 1
<1>1. Cardinality(S) \in Nat
  BY FS_CardinalityType
<1>2. InOrder(S) = [n \in 1..Cardinality(S) |-> CHOOSE i \in S : Cardinality(Less(S, i)) = n - 1]
  BY DEF InOrder, Less
<1>3. ASSUME NEW n \in 1..Cardinality(S)
      PROVE  InOrder(S)[n] \in S /\ Cardinality(Less(S, InOrder(S)[n])) = n - 1
  <2>1. \E i \in S : Cardinality(Less(S, i)) = n - 1
    BY NthExists
  <2> QED BY <1>2, <2>1
<1>4. ASSUME NEW m \in 1..Cardinality(S), NEW n \in 1..Cardinality(S), m < n
      PROVE  InOrder(S)[m] < InOrder(S)[n]
  <2> DEFINE i == InOrder(S)[m]
             j == InOrder(S)[n]
  <2>1. i \in S /\ j \in S /\ Cardinality(Less(S, i)) = m - 1 /\ Cardinality(Less(S, j)) = n - 1
    BY <1>3
  <2> HIDE DEF i, j
  <2>2. ~(j < i) /\ i # j
    BY <1>4, <2>1, LessCounts
  <2>3. i < j
    BY <2>1, <2>2
  <2> QED BY <2>3 DEF i, j
<1>5. ASSUME NEW i \in S PROVE \E n \in 1..Cardinality(S) : InOrder(S)[n] = i
  <2> DEFINE n == Cardinality(Less(S, i)) + 1
             j == InOrder(S)[n]
  <2>1. n \in 1..Cardinality(S)
    BY LessCounts, <1>1
  <2>2. j \in S /\ Cardinality(Less(S, j)) = Cardinality(Less(S, i))
    <3>1. Cardinality(Less(S, i)) \in Nat
      BY LessCounts
    <3>2. j \in S /\ Cardinality(Less(S, j)) = n - 1
      BY <2>1, <1>3
    <3> QED BY <3>1, <3>2
  <2> HIDE DEF j
  <2>3. ~(j < i) /\ ~(i < j)
    BY <2>2, LessCounts
  <2>4. i = j
    BY <2>2, <2>3
  <2> QED BY <2>1, <2>4 DEF j
<1>6. InOrder(S) \in [1..Cardinality(S) -> S]
  BY <1>2, <1>3
<1> QED BY <1>1, <1>3, <1>4, <1>5, <1>6

\* It is the only such sequence.
LEMMA OrderIs ==
  ASSUME NEW S \in SUBSET Nat, NEW k \in Nat, NEW f \in [1..k -> S],
         \A m, n \in 1..k : m < n => f[m] < f[n],
         \A i \in S : \E n \in 1..k : f[n] = i
  PROVE  IsFiniteSet(S) /\ Cardinality(S) = k /\ InOrder(S) = f
<1>1. \A m, n \in 1..k : f[m] \in Nat /\ f[n] \in Nat /\ (f[m] = f[n] => m = n)
  <2> SUFFICES ASSUME NEW m \in 1..k, NEW n \in 1..k
               PROVE  f[m] \in Nat /\ f[n] \in Nat /\ (f[m] = f[n] => m = n)
    OBVIOUS
  <2>1. f[m] \in Nat /\ f[n] \in Nat
    OBVIOUS
  <2>2. m < n \/ n < m \/ m = n
    OBVIOUS
  <2> QED BY <2>1, <2>2
<1>2. f \in Bijection(1..k, S)
  BY <1>1 DEF Bijection, Injection, Surjection, IsInjective
<1>3. IsFiniteSet(1..k) /\ Cardinality(1..k) = k
  BY FS_Interval
<1>4. IsFiniteSet(S) /\ Cardinality(S) = k
  BY <1>2, <1>3, FS_Bijection DEF ExistsBijection
<1>5. ASSUME NEW n \in 1..k PROVE Cardinality(Less(S, f[n])) = n - 1
  <2> DEFINE L == Less(S, f[n])
             g == [m \in 1..(n - 1) |-> f[m]]
  <2>1. \A m \in 1..(n - 1) : m \in 1..k /\ f[m] \in L
    BY DEF Less
  <2>2. \A i \in L : \E m \in 1..(n - 1) : f[m] = i
    <3> SUFFICES ASSUME NEW i \in L PROVE \E m \in 1..(n - 1) : f[m] = i
      OBVIOUS
    <3>1. i \in S /\ i < f[n]
      BY DEF Less
    <3>2. PICK m \in 1..k : f[m] = i
      BY <3>1
    <3>3. ~(n < m) /\ n # m
      BY <3>1, <3>2, <1>1
    <3> QED BY <3>2, <3>3
  <2>3. \A l, m \in 1..(n - 1) : f[l] = f[m] => l = m
    BY <1>1, <2>1
  <2> HIDE DEF L
  <2>4. g \in Bijection(1..(n - 1), L)
    BY <2>1, <2>2, <2>3 DEF Bijection, Injection, Surjection, IsInjective
  <2>5. IsFiniteSet(1..(n - 1)) /\ Cardinality(1..(n - 1)) = n - 1
    BY FS_Interval
  <2> HIDE DEF g
  <2>6. Cardinality(L) = n - 1
    BY <2>4, <2>5, FS_Bijection DEF ExistsBijection
  <2> QED BY <2>6 DEF L
<1>6. ASSUME NEW n \in 1..k PROVE InOrder(S)[n] = f[n]
  <2> DEFINE i == InOrder(S)[n]
             j == f[n]
  <2>1. i \in S /\ Cardinality(Less(S, i)) = n - 1
    BY <1>4, OrderOf
  <2>2. j \in S /\ Cardinality(Less(S, j)) = n - 1
    BY <1>5
  <2> HIDE DEF i, j
  <2>3. ~(i < j) /\ ~(j < i)
    BY <1>4, <2>1, <2>2, LessCounts
  <2>4. i = j
    BY <2>1, <2>2, <2>3
  <2> QED BY <2>4 DEF i, j
<1>7. InOrder(S) \in [1..k -> S]
  BY <1>4, OrderOf
<1> QED BY <1>4, <1>6, <1>7
-----------------------------------------------------------------------------
\* The places of a sequence are finitely many.
LEMMA Segment ==
  ASSUME NEW n \in Nat
  PROVE  IsFiniteSet(1..n) /\ Cardinality(1..n) = n
<1>1. (IF 1 > n THEN 0 ELSE n - 1 + 1) = n /\ 1 \in Int /\ n \in Int
  OBVIOUS
<1> QED BY <1>1, FS_Interval

\* Sequences of whatever.
List(q) == \E T : q \in Seq(T)

\* A function on 1..n is one,
LEMMA ListOf ==
  ASSUME NEW n \in Nat, NEW q, q = [i \in 1..n |-> q[i]]
  PROVE  List(q) /\ Len(q) = n /\ DOMAIN q = 1..n
<1>1. q \in Seq({q[i] : i \in 1..n})
  OBVIOUS
<1>2. Len(q) = n
  BY <1>1
<1> QED BY <1>1, <1>2 DEF List

\* and there are no others.
LEMMA ListIs ==
  ASSUME NEW q, List(q)
  PROVE  /\ Len(q) \in Nat /\ DOMAIN q = 1..Len(q) /\ q = [i \in 1..Len(q) |-> q[i]]
         /\ DOMAIN q \in SUBSET Nat /\ IsFiniteSet(DOMAIN q)
<1>1. PICK T : q \in Seq(T)
  BY DEF List
<1>2. Len(q) \in Nat /\ DOMAIN q = 1..Len(q) /\ q = [i \in 1..Len(q) |-> q[i]]
  BY <1>1
<1>3. IsFiniteSet(1..Len(q))
  BY <1>2, FS_Interval
<1> QED BY <1>2, <1>3

\* A part of a sequence, place by place.
LEMMA ChosenIs ==
  ASSUME NEW S \in SUBSET Nat, IsFiniteSet(S), NEW q
  PROVE  /\ Chosen(q, S) = [n \in 1..Cardinality(S) |-> q[InOrder(S)[n]]]
         /\ List(Chosen(q, S)) /\ Len(Chosen(q, S)) = Cardinality(S)
         /\ DOMAIN Chosen(q, S) = 1..Cardinality(S)
<1>1. Cardinality(S) \in Nat
  BY FS_CardinalityType
<1>2. Chosen(q, S) = [n \in 1..Cardinality(S) |-> q[InOrder(S)[n]]]
  <2>1. DOMAIN InOrder(S) = 1..Cardinality(S)
    BY DEF InOrder
  <2> QED BY <2>1 DEF Chosen
<1> QED BY <1>1, <1>2, ListOf

\* A part of a part is the part at the places of the places.
LEMMA ChosenTwice ==
  ASSUME NEW S \in SUBSET Nat, IsFiniteSet(S), NEW J \in SUBSET (1..Cardinality(S)), NEW q
  PROVE  LET K == {InOrder(S)[j] : j \in J}
         IN  K \in SUBSET S /\ IsFiniteSet(K) /\ Chosen(Chosen(q, S), J) = Chosen(q, K)
<1> DEFINE K == {InOrder(S)[j] : j \in J}
           k == Cardinality(J)
           f == [n \in 1..k |-> InOrder(S)[InOrder(J)[n]]]
<1>1. Cardinality(S) \in Nat /\ InOrder(S) \in [1..Cardinality(S) -> S]
  BY OrderOf
<1>2. J \in SUBSET Nat /\ IsFiniteSet(J)
  <2>1. IsFiniteSet(1..Cardinality(S))
    BY <1>1, FS_Interval
  <2>2. IsFiniteSet(J)
    BY <2>1, FS_Subset
  <2> QED BY <1>1, <2>2
<1>3. k \in Nat /\ InOrder(J) \in [1..k -> J]
  BY <1>2, OrderOf
<1>4. K \in SUBSET S
  BY <1>1
<1>5. f \in [1..k -> K]
  BY <1>3
<1>6. ASSUME NEW m \in 1..k, NEW n \in 1..k, m < n PROVE f[m] < f[n]
  <2> DEFINE a == InOrder(J)[m]
             b == InOrder(J)[n]
  <2>1. a \in J /\ b \in J /\ a < b
    BY <1>2, <1>3, <1>6, OrderOf
  <2> HIDE DEF a, b
  <2>2. InOrder(S)[a] < InOrder(S)[b]
    BY <2>1, OrderOf
  <2> QED BY <2>2 DEF a, b
<1>7. ASSUME NEW i \in K PROVE \E n \in 1..k : f[n] = i
  <2>1. PICK j \in J : i = InOrder(S)[j]
    OBVIOUS
  <2>2. PICK n \in 1..k : InOrder(J)[n] = j
    BY <1>2, OrderOf
  <2> QED BY <2>1, <2>2
<1> HIDE DEF f, K
<1>8. K \in SUBSET Nat
  BY <1>4
<1>9. IsFiniteSet(K) /\ Cardinality(K) = k /\ InOrder(K) = f
  BY <1>3, <1>5, <1>6, <1>7, <1>8, OrderIs
<1>10. Chosen(Chosen(q, S), J) = [n \in 1..k |-> Chosen(q, S)[InOrder(J)[n]]]
  BY <1>2, ChosenIs
<1>11. ASSUME NEW n \in 1..k PROVE Chosen(q, S)[InOrder(J)[n]] = q[f[n]]
  <2>1. InOrder(J)[n] \in 1..Cardinality(S)
    BY <1>3
  <2> QED BY <2>1, ChosenIs DEF f
<1>12. Chosen(q, K) = [n \in 1..k |-> q[f[n]]]
  BY <1>8, <1>9, ChosenIs
<1>13. Chosen(Chosen(q, S), J) = Chosen(q, K)
  BY <1>10, <1>11, <1>12
<1> QED BY <1>4, <1>9, <1>13 DEF K

\* All of a sequence is the sequence.
LEMMA ChosenAll ==
  ASSUME NEW q, List(q)
  PROVE  Chosen(q, DOMAIN q) = q
<1> DEFINE n == Len(q)
           f == [i \in 1..n |-> i]
<1>1. n \in Nat /\ DOMAIN q = 1..n /\ q = [i \in 1..n |-> q[i]]
  BY ListIs
<1> HIDE DEF n
<1>2. 1..n \in SUBSET Nat /\ f \in [1..n -> 1..n]
  BY <1>1
<1>3. IsFiniteSet(1..n) /\ Cardinality(1..n) = n /\ InOrder(1..n) = f
  BY <1>1, <1>2, OrderIs
<1>4. Chosen(q, 1..n) = [i \in 1..n |-> q[f[i]]]
  <2>1. Chosen(q, 1..n) = [i \in 1..Cardinality(1..n) |-> q[InOrder(1..n)[i]]]
    BY <1>2, <1>3, ChosenIs
  <2> HIDE DEF f
  <2> QED BY <1>3, <2>1
<1>5. [i \in 1..n |-> q[f[i]]] = [i \in 1..n |-> q[i]]
  OBVIOUS
<1> QED BY <1>1, <1>4, <1>5
-----------------------------------------------------------------------------
\* What DispatchAgrees compares: the kind and the member at each place.
Brief(q) == [i \in DOMAIN q |-> <<q[i].kind, q[i].member>>]

\* Of a part it is a part,
LEMMA BriefChosen ==
  ASSUME NEW q, NEW S \in SUBSET DOMAIN q, S \in SUBSET Nat, IsFiniteSet(S)
  PROVE  Brief(Chosen(q, S)) = Chosen(Brief(q), S)
<1> DEFINE k == Cardinality(S)
<1>1. k \in Nat /\ InOrder(S) \in [1..k -> S]
  BY OrderOf
<1>2. Chosen(q, S) = [n \in 1..k |-> q[InOrder(S)[n]]] /\ Chosen(Brief(q), S) = [n \in 1..k |-> Brief(q)[InOrder(S)[n]]]
  BY ChosenIs
<1>3. \A n \in 1..k : InOrder(S)[n] \in DOMAIN q
  BY <1>1
<1> HIDE DEF k
<1> QED BY <1>2, <1>3 DEF Brief

\* and of two sequences on end it is both.
LEMMA BriefConcat ==
  ASSUME NEW p, NEW q, List(p), List(q)
  PROVE  List(p \o q) /\ Brief(p \o q) = Brief(p) \o Brief(q) /\ List(Brief(p))
<1>1. PICK T : p \in Seq(T)
  BY DEF List
<1>2. PICK U : q \in Seq(U)
  BY DEF List
<1>3. p \in Seq(T \cup U) /\ q \in Seq(T \cup U)
  BY <1>1, <1>2
<1>4. p \o q \in Seq(T \cup U) /\ Len(p \o q) = Len(p) + Len(q)
  BY <1>3
<1> DEFINE V == {<<x.kind, x.member>> : x \in T \cup U}
<1>5. Brief(p) \in Seq(V) /\ Brief(q) \in Seq(V) /\ Len(Brief(p)) = Len(p) /\ Len(Brief(q)) = Len(q)
  BY <1>3 DEF Brief
<1>6. Brief(p \o q) \in Seq(V) /\ Len(Brief(p \o q)) = Len(p) + Len(q)
  BY <1>4 DEF Brief
<1>7. ASSUME NEW i \in 1..(Len(p) + Len(q)) PROVE Brief(p \o q)[i] = (Brief(p) \o Brief(q))[i]
  <2>1. (p \o q)[i] = IF i <= Len(p) THEN p[i] ELSE q[i - Len(p)]
    BY <1>3
  <2>2. (Brief(p) \o Brief(q))[i] = IF i <= Len(p) THEN Brief(p)[i] ELSE Brief(q)[i - Len(p)]
    BY <1>5
  <2>3. i \in DOMAIN (p \o q) /\ (i <= Len(p) => i \in DOMAIN p) /\ (~(i <= Len(p)) => i - Len(p) \in DOMAIN q)
    BY <1>3, <1>4
  <2> QED BY <2>1, <2>2, <2>3 DEF Brief
<1> HIDE DEF V
<1>8. Brief(p) \o Brief(q) \in Seq(V) /\ Len(Brief(p) \o Brief(q)) = Len(p) + Len(q)
  BY <1>5
<1>9. Brief(p \o q) = Brief(p) \o Brief(q)
  <2> DEFINE a == Brief(p \o q)
             b == Brief(p) \o Brief(q)
             n == Len(p) + Len(q)
  <2>1. \A i \in 1..n : a[i] = b[i]
    BY <1>7
  <2>2. a \in Seq(V) /\ b \in Seq(V) /\ Len(a) = n /\ Len(b) = n
    BY <1>6, <1>8
  <2> HIDE DEF a, b, n
  <2>3. a = [i \in 1..n |-> a[i]] /\ b = [i \in 1..n |-> b[i]]
    BY <2>2
  <2> QED BY <2>1, <2>3 DEF a, b
<1> QED BY <1>4, <1>5, <1>9 DEF List
-----------------------------------------------------------------------------
\* Choosing among what is chosen, by what is at the places.
LEMMA ChosenWhere ==
  ASSUME NEW S \in SUBSET Nat, IsFiniteSet(S), NEW J \in SUBSET (1..Cardinality(S)), NEW K \in SUBSET S,
         \A n \in 1..Cardinality(S) : n \in J <=> InOrder(S)[n] \in K, NEW q
  PROVE  Chosen(Chosen(q, S), J) = Chosen(q, K)
<1>1. {InOrder(S)[j] : j \in J} = K
  <2>1. \A i \in K : \E n \in 1..Cardinality(S) : InOrder(S)[n] = i
    BY OrderOf
  <2> QED BY <2>1
<1> QED BY <1>1, ChosenTwice

\* Renaming overloads leaves all but the names alone.
LEMMA Disambiguated ==
  ASSUME NEW ms \in Seq(FunctionDecl)
  PROVE  /\ List(disambiguate(ms)) /\ DOMAIN disambiguate(ms) = DOMAIN ms
         /\ Brief(disambiguate(ms)) = Brief(ms)
         /\ \A i \in DOMAIN ms :
              LET m == disambiguate(ms)[i] IN
              /\ m.kind = ms[i].kind /\ m.member = ms[i].member /\ m.name = ms[i].name
              /\ m.signature = ms[i].signature /\ m.ret = ms[i].ret /\ m.params = ms[i].params
              /\ m.public = ms[i].public /\ m.virtual = ms[i].virtual /\ m.pure = ms[i].pure
              /\ m.called = [ms[i].called EXCEPT !.words = Suffixed(@, Rank(ms, i))]
<1>1. DOMAIN disambiguate(ms) = DOMAIN ms
  BY DEF disambiguate
<1>2. ASSUME NEW i \in DOMAIN ms
      PROVE  LET m == disambiguate(ms)[i] IN
             /\ m.kind = ms[i].kind /\ m.member = ms[i].member /\ m.name = ms[i].name
             /\ m.signature = ms[i].signature /\ m.ret = ms[i].ret /\ m.params = ms[i].params
             /\ m.public = ms[i].public /\ m.virtual = ms[i].virtual /\ m.pure = ms[i].pure
             /\ m.called = [ms[i].called EXCEPT !.words = Suffixed(@, Rank(ms, i))]
  <2>1. PICK m : m = disambiguate(ms)[i]
    OBVIOUS
  <2>2. m = [ms[i] EXCEPT !.called.words = Suffixed(@, Rank(ms, i))] /\ ms[i] \in FunctionDecl
    BY <2>1 DEF disambiguate
  <2> QED BY <2>1, <2>2 DEF FunctionDecl
<1>3. List(disambiguate(ms))
  <2>1. List(ms)
    BY DEF List
  <2>2. disambiguate(ms) = [i \in 1..Len(ms) |-> disambiguate(ms)[i]] /\ Len(ms) \in Nat
    BY <2>1, ListIs DEF disambiguate
  <2> QED BY <2>2, ListOf
<1>4. Brief(disambiguate(ms)) = Brief(ms)
  BY <1>1, <1>2 DEF Brief
<1> QED BY <1>1, <1>2, <1>3, <1>4

\* A number of an overload is one of its class.
LEMMA RankIs ==
  ASSUME NEW ms \in Seq(FunctionDecl), NEW i \in DOMAIN ms
  PROVE  /\ Rank(ms, i) \in DOMAIN ms
         /\ (\A j \in DOMAIN ms : ms[j].name = ms[i].name => j = i) => Rank(ms, i) = 1
<1> DEFINE R == {j \in DOMAIN ms :
                   /\ ms[j].name = ms[i].name
                   /\ \/ ms[j].signature < ms[i].signature
                      \/ ms[j].signature = ms[i].signature /\ j < i}
<1>1. Len(ms) \in Nat /\ DOMAIN ms = 1..Len(ms) /\ IsFiniteSet(DOMAIN ms) /\ Cardinality(DOMAIN ms) = Len(ms)
  <2>1. List(ms)
    BY DEF List
  <2>2. Len(ms) \in Nat /\ DOMAIN ms = 1..Len(ms)
    BY <2>1, ListIs
  <2> QED BY <2>2, Segment
<1>2. i \notin R
  <2>1. ms[i].signature \in Nat /\ i \in Nat
    <3>1. ms[i] \in FunctionDecl
      OBVIOUS
    <3> QED BY <3>1, <1>1 DEF FunctionDecl
  <2> QED BY <2>1
<1>3. R \in SUBSET DOMAIN ms /\ R # DOMAIN ms
  BY <1>2
<1>4. Rank(ms, i) = 1 + Cardinality(R)
  BY DEF Rank
<1> HIDE DEF R
<1>5. IsFiniteSet(R) /\ Cardinality(R) <= Len(ms) /\ Cardinality(R) # Len(ms)
  BY <1>1, <1>3, FS_Subset
<1>6. Cardinality(R) \in Nat
  BY <1>5, FS_CardinalityType
<1>7. Rank(ms, i) \in DOMAIN ms
  BY <1>1, <1>4, <1>5, <1>6
<1>8. ASSUME \A j \in DOMAIN ms : ms[j].name = ms[i].name => j = i PROVE Rank(ms, i) = 1
  <2>1. R = {}
    BY <1>2, <1>8 DEF R
  <2> QED BY <2>1, <1>4, FS_EmptySet
<1> QED BY <1>7, <1>8
-----------------------------------------------------------------------------
(***************************************************************************)
(* What a handle class has, whoever numbers it.                             *)
(***************************************************************************)
\* A class the generators can agree on, in the specification at hand.
Sound(c) ==
  /\ Class(c).methods \in Seq(FunctionDecl)
  /\ Class(c).fields \in Seq(FieldDecl)
  /\ \A i \in DOMAIN Class(c).fields :
       Class(c).fields[i].public /\ isUsableType(Class(c).fields[i].type)
  /\ \A i, j \in DOMAIN Class(c).methods :
       i # j /\ Class(c).methods[i].kind = "static" /\ Class(c).methods[j].name = Class(c).methods[i].name =>
         \A n \in DOMAIN Class(c).methods :
           [Class(c).methods[i].called EXCEPT !.words = Suffixed(@, n)] \notin api.skipStaticMethods

\* The places of its methods of a kind that both generators admit.
Admits(c, kind) ==
  {i \in DOMAIN Class(c).methods :
     Class(c).methods[i].kind = kind /\ IsBridged(c, disambiguate(Class(c).methods)[i])}

\* SkipStaticMethods has a static method by all the names it may be given, or
\* by none: ms is some part of the class's methods.
LEMMA SkippedAlike ==
  ASSUME NEW c, Sound(c), NEW S \in SUBSET DOMAIN Class(c).methods, NEW n \in 1..Cardinality(S),
         NEW i, i = InOrder(S)[n], Class(c).methods[i].kind = "static"
  PROVE  LET all == Class(c).methods
             part == Chosen(all, S)
         IN  /\ part \in Seq(FunctionDecl) /\ DOMAIN part = 1..Cardinality(S) /\ part[n] = all[i]
             /\ all[i].called \in api.skipStaticMethods
                  <=> disambiguate(all)[i].called \in api.skipStaticMethods
             /\ disambiguate(part)[n].called \in api.skipStaticMethods
                  <=> disambiguate(all)[i].called \in api.skipStaticMethods
<1> DEFINE all == Class(c).methods
           part == Chosen(all, S)
           Tag(m, k) == [m.called EXCEPT !.words = Suffixed(@, k)]
<1>1. all \in Seq(FunctionDecl) /\ List(all) /\ Len(all) \in Nat /\ DOMAIN all = 1..Len(all)
      /\ DOMAIN all \in SUBSET Nat /\ IsFiniteSet(DOMAIN all)
  <2>1. all \in Seq(FunctionDecl) /\ List(all)
    BY DEF Sound, List
  <2> QED BY <2>1, ListIs
<1>2. S \in SUBSET Nat /\ IsFiniteSet(S)
  <2>1. IsFiniteSet(S)
    BY <1>1, FS_Subset
  <2> QED BY <2>1, <1>1
<1>3. Cardinality(S) \in Nat /\ InOrder(S) \in [1..Cardinality(S) -> S]
      /\ \A k, l \in 1..Cardinality(S) : k < l => InOrder(S)[k] < InOrder(S)[l]
  BY <1>2, OrderOf
<1>4. part = [k \in 1..Cardinality(S) |-> all[InOrder(S)[k]]] /\ DOMAIN part = 1..Cardinality(S)
  BY <1>2, ChosenIs
<1> HIDE DEF part, all
<1>5. part \in Seq(FunctionDecl) /\ part[n] = all[i] /\ i \in DOMAIN all /\ i \in S
  <2>1. \A k \in 1..Cardinality(S) : all[InOrder(S)[k]] \in FunctionDecl
    BY <1>1, <1>3 DEF all
  <2>2. part \in [1..Cardinality(S) -> FunctionDecl]
    BY <2>1, <1>4
  <2>3. i \in S /\ i \in DOMAIN all /\ part[n] = all[i]
    BY <1>3, <1>4 DEF all
  <2> QED BY <2>2, <2>3, <1>3
<1>6. disambiguate(all)[i].called = Tag(all[i], Rank(all, i))
  BY <1>1, <1>5, Disambiguated
<1>7. disambiguate(part)[n].called = Tag(all[i], Rank(part, n))
  BY <1>4, <1>5, Disambiguated
<1>8. Rank(all, i) \in DOMAIN all /\ Rank(part, n) \in DOMAIN all
  <2>1. Rank(all, i) \in DOMAIN all /\ Rank(part, n) \in 1..Cardinality(S)
    BY <1>1, <1>4, <1>5, RankIs
  <2>2. Cardinality(S) <= Cardinality(DOMAIN all)
    BY <1>1, FS_Subset DEF all
  <2>3. Cardinality(DOMAIN all) = Len(all)
    BY <1>1, FS_Interval
  <2> QED BY <2>1, <2>2, <2>3, <1>1, <1>3
<1>9. Tag(all[i], 1) = all[i].called
  <2>1. all[i].called \in Identifier
    <3>1. all[i] \in FunctionDecl
      BY <1>1, <1>5
    <3> QED BY <3>1 DEF FunctionDecl
  <2> QED BY <2>1 DEF Suffixed, Identifier
<1>10. CASE \A j \in DOMAIN all : all[j].name = all[i].name => j = i
  <2>1. Rank(all, i) = 1
    BY <1>1, <1>5, <1>10, RankIs
  <2>2. ASSUME NEW k \in DOMAIN part, part[k].name = part[n].name PROVE k = n
    <3>1. InOrder(S)[k] = i
      BY <1>3, <1>4, <1>5, <1>10, <2>2 DEF all
    <3>2. ~(k < n) /\ ~(n < k) /\ i \in Nat
      BY <1>2, <1>3, <1>4, <1>5, <3>1
    <3> QED BY <3>2, <1>4
  <2>3. Rank(part, n) = 1
    BY <1>4, <1>5, <2>2, RankIs
  <2> QED BY <1>4, <1>5, <1>6, <1>7, <1>9, <2>1, <2>3 DEF all, part
<1>11. CASE ~ \A j \in DOMAIN all : all[j].name = all[i].name => j = i
  <2>1. PICK j \in DOMAIN all : all[j].name = all[i].name /\ j # i
    BY <1>11
  <2>2. \A k \in DOMAIN all : Tag(all[i], k) \notin api.skipStaticMethods
    BY <1>5, <2>1 DEF Sound, all
  <2>3. 1 \in DOMAIN all
    BY <1>1, <1>5
  <2>4. disambiguate(all)[i].called \notin api.skipStaticMethods
    BY <1>6, <1>8, <2>2
  <2>5. disambiguate(part)[n].called \notin api.skipStaticMethods
    BY <1>7, <1>8, <2>2
  <2>6. all[i].called \notin api.skipStaticMethods
    BY <1>9, <2>2, <2>3
  <2> QED BY <1>4, <1>5, <2>4, <2>5, <2>6 DEF all, part
<1> QED BY <1>10, <1>11
-----------------------------------------------------------------------------
\* Of a sequence that is a part of q, those of a kind are a part of q.
LEMMA OfKindIs ==
  ASSUME NEW q, List(q), NEW S \in SUBSET DOMAIN q, NEW r, List(r), Brief(r) = Chosen(Brief(q), S), NEW k
  PROVE  /\ List(OfKind(r, k)) /\ Brief(OfKind(r, k)) = Chosen(Brief(q), {i \in S : q[i].kind = k})
         /\ \A n \in DOMAIN OfKind(r, k) : OfKind(r, k)[n].kind = k
<1> DEFINE J == {n \in DOMAIN r : r[n].kind = k}
           K == {i \in S : q[i].kind = k}
<1>1. S \in SUBSET Nat /\ IsFiniteSet(S) /\ DOMAIN r \in SUBSET Nat /\ IsFiniteSet(DOMAIN r)
  <2>1. DOMAIN q \in SUBSET Nat /\ IsFiniteSet(DOMAIN q) /\ DOMAIN r \in SUBSET Nat /\ IsFiniteSet(DOMAIN r)
    BY ListIs
  <2>2. IsFiniteSet(S)
    BY <2>1, FS_Subset
  <2> QED BY <2>1, <2>2
<1>2. DOMAIN r = 1..Cardinality(S)
  <2>1. DOMAIN Brief(r) = 1..Cardinality(S)
    BY <1>1, ChosenIs
  <2> QED BY <2>1 DEF Brief
<1>3. InOrder(S) \in [1..Cardinality(S) -> S]
  BY <1>1, OrderOf
<1>4. ASSUME NEW n \in 1..Cardinality(S) PROVE r[n].kind = q[InOrder(S)[n]].kind
  <2>1. Brief(r)[n] = Brief(q)[InOrder(S)[n]]
    BY <1>1, ChosenIs
  <2>2. InOrder(S)[n] \in DOMAIN q
    BY <1>3
  <2> QED BY <1>2, <2>1, <2>2 DEF Brief
<1>5. J \in SUBSET DOMAIN r /\ J \in SUBSET Nat /\ IsFiniteSet(J)
  <2>1. IsFiniteSet(J)
    BY <1>1, FS_Subset
  <2> QED BY <2>1, <1>1
<1>6. OfKind(r, k) = Chosen(r, J)
  BY DEF OfKind
<1>7. Brief(Chosen(r, J)) = Chosen(Brief(r), J)
  BY <1>5, BriefChosen
<1>8. Chosen(Chosen(Brief(q), S), J) = Chosen(Brief(q), K)
  <2>1. K \in SUBSET S /\ J \in SUBSET (1..Cardinality(S))
    BY <1>2
  <2>2. \A n \in 1..Cardinality(S) : n \in J <=> InOrder(S)[n] \in K
    BY <1>2, <1>3, <1>4
  <2> HIDE DEF J, K
  <2> QED BY <1>1, <2>1, <2>2, ChosenWhere
<1>9. ASSUME NEW n \in DOMAIN OfKind(r, k) PROVE OfKind(r, k)[n].kind = k
  <2>1. n \in 1..Cardinality(J) /\ OfKind(r, k)[n] = r[InOrder(J)[n]]
    BY <1>5, <1>6, ChosenIs
  <2>2. InOrder(J)[n] \in J
    BY <1>5, <2>1, OrderOf
  <2> QED BY <2>1, <2>2
<1>10. List(OfKind(r, k))
  BY <1>5, <1>6, ChosenIs
<1> QED BY <1>6, <1>7, <1>8, <1>9, <1>10

\* A class's methods are sequences of declarations.
LEMMA MethodsAre ==
  ASSUME NEW c, Sound(c)
  PROVE  LET all == Class(c).methods
         IN  /\ all \in Seq(FunctionDecl) /\ List(all) /\ DOMAIN all \in SUBSET Nat /\ IsFiniteSet(DOMAIN all)
             /\ \A S \in SUBSET DOMAIN all : S \in SUBSET Nat /\ IsFiniteSet(S)
             /\ \A k : Admits(c, k) \in SUBSET DOMAIN all
<1> DEFINE all == Class(c).methods
<1>1. all \in Seq(FunctionDecl) /\ List(all)
  BY DEF Sound, List
<1>2. DOMAIN all \in SUBSET Nat /\ IsFiniteSet(DOMAIN all)
  BY <1>1, ListIs
<1>3. ASSUME NEW S \in SUBSET DOMAIN all PROVE S \in SUBSET Nat /\ IsFiniteSet(S)
  <2>1. IsFiniteSet(S)
    BY <1>2, FS_Subset
  <2> QED BY <2>1, <1>2
<1>4. \A k : Admits(c, k) \in SUBSET DOMAIN all
  BY DEF Admits
<1> QED BY <1>1, <1>2, <1>3, <1>4

\* A method is bridged by its first name or by the counted one.
LEMMA BridgedAlike ==
  ASSUME NEW c, Sound(c), NEW i \in DOMAIN Class(c).methods
  PROVE  LET all == Class(c).methods
         IN  IsBridged(c, all[i]) <=> IsBridged(c, disambiguate(all)[i])
<1> DEFINE all == Class(c).methods
<1>1. all \in Seq(FunctionDecl) /\ DOMAIN all \in SUBSET Nat /\ IsFiniteSet(DOMAIN all)
  BY MethodsAre
<1>2. PICK m : m = disambiguate(all)[i]
  OBVIOUS
<1>3. /\ m.kind = all[i].kind /\ m.ret = all[i].ret /\ m.params = all[i].params /\ m.public = all[i].public
  BY <1>1, <1>2, Disambiguated
<1>4. all[i].kind = "static" => (all[i].called \in api.skipStaticMethods <=> m.called \in api.skipStaticMethods)
  <2>1. PICK n \in 1..Cardinality(DOMAIN all) : InOrder(DOMAIN all)[n] = i
    BY <1>1, OrderOf
  <2> QED BY <1>2, <2>1, SkippedAlike
<1> HIDE DEF all
<1>5. isStaticFactory(c, all[i]) <=> isStaticFactory(c, m)
  BY <1>3, <1>4 DEF isStaticFactory
<1>6. IsBridged(c, all[i]) <=> IsBridged(c, m)
  BY <1>3, <1>5 DEF IsBridged
<1> QED BY <1>2, <1>6 DEF all

\* What the bridge puts behind the methods of a class, kind by kind.
LEMMA BridgeHas ==
  ASSUME NEW c, Sound(c), NEW k
  PROVE  /\ List(OfKind(BridgeMethods(c), k))
         /\ Brief(OfKind(BridgeMethods(c), k)) = Chosen(Brief(Class(c).methods), Admits(c, k))
         /\ \A n \in DOMAIN OfKind(BridgeMethods(c), k) : OfKind(BridgeMethods(c), k)[n].kind = k
<1> DEFINE all == Class(c).methods
           D == disambiguate(all)
           Q == {i \in DOMAIN D : IsBridged(c, D[i])}
<1>1. all \in Seq(FunctionDecl) /\ List(all)
  BY MethodsAre
<1>2. List(D) /\ DOMAIN D = DOMAIN all /\ Brief(D) = Brief(all)
  BY <1>1, Disambiguated
<1>3. Q \in SUBSET DOMAIN all /\ Q \in SUBSET Nat /\ IsFiniteSet(Q) /\ Q \in SUBSET DOMAIN D
  <2>1. Q \in SUBSET DOMAIN all
    BY <1>2
  <2> QED BY <2>1, <1>2, MethodsAre
<1>4. BridgeMethods(c) = Chosen(D, Q)
  BY DEF BridgeMethods, filterBridgeMethods
<1>5. {i \in Q : all[i].kind = k} = Admits(c, k)
  BY <1>2 DEF Admits
<1> HIDE DEF Q, D
<1>6. List(BridgeMethods(c)) /\ Brief(BridgeMethods(c)) = Chosen(Brief(all), Q)
  BY <1>2, <1>3, <1>4, ChosenIs, BriefChosen
<1> HIDE DEF all
<1>7. /\ List(OfKind(BridgeMethods(c), k))
      /\ Brief(OfKind(BridgeMethods(c), k)) = Chosen(Brief(all), {i \in Q : all[i].kind = k})
      /\ \A n \in DOMAIN OfKind(BridgeMethods(c), k) : OfKind(BridgeMethods(c), k)[n].kind = k
  <2>1. List(all) /\ Q \in SUBSET DOMAIN all
    BY <1>1, <1>3
  <2> QED BY <2>1, <1>6, OfKindIs
<1> QED BY <1>5, <1>7 DEF all

\* What the proto generator counts, before it leaves out what is no factory.
LEMMA ProtoHas ==
  ASSUME NEW c, Sound(c)
  PROVE  LET all == Class(c).methods
             P == {i \in DOMAIN all : IsBridged(c, all[i])}
         IN  /\ P \in SUBSET DOMAIN all
             /\ List(ProtoMethods(c)) /\ Brief(ProtoMethods(c)) = Chosen(Brief(all), P)
             /\ \A n \in 1..Cardinality(P) : \A i \in P : i = InOrder(P)[n] =>
                  /\ ProtoMethods(c)[n].kind = all[i].kind
                  /\ isStaticFactory(c, ProtoMethods(c)[n]) <=> isStaticFactory(c, disambiguate(all)[i])
<1> DEFINE all == Class(c).methods
           P == {i \in DOMAIN all : IsBridged(c, all[i])}
           part == Chosen(all, P)
<1>1. all \in Seq(FunctionDecl) /\ List(all)
  BY MethodsAre
<1>2. P \in SUBSET DOMAIN all /\ P \in SUBSET Nat /\ IsFiniteSet(P)
  <2>1. P \in SUBSET DOMAIN all
    OBVIOUS
  <2> QED BY <2>1, MethodsAre
<1>3. ProtoMethods(c) = disambiguate(part)
  BY DEF ProtoMethods, filterBridgeMethods
<1>4. InOrder(P) \in [1..Cardinality(P) -> P] /\ Cardinality(P) \in Nat
  BY <1>2, OrderOf
<1> HIDE DEF P
<1>5. part = [n \in 1..Cardinality(P) |-> all[InOrder(P)[n]]]
  BY <1>2, ChosenIs
<1>6. part \in Seq(FunctionDecl) /\ DOMAIN part = 1..Cardinality(P)
  <2>1. \A n \in 1..Cardinality(P) : all[InOrder(P)[n]] \in FunctionDecl
    <3> HIDE DEF all
    <3> QED BY <1>1, <1>2, <1>4
  <2> HIDE DEF part, all
  <2>2. part \in [1..Cardinality(P) -> FunctionDecl]
    BY <1>5, <2>1
  <2> QED BY <2>2, <1>4
<1>7. Brief(part) = Chosen(Brief(all), P)
  BY <1>2, BriefChosen
<1>8. List(ProtoMethods(c)) /\ Brief(ProtoMethods(c)) = Chosen(Brief(all), P)
  BY <1>3, <1>6, <1>7, Disambiguated
<1>9. ASSUME NEW n \in 1..Cardinality(P), NEW i \in P, i = InOrder(P)[n]
      PROVE  /\ ProtoMethods(c)[n].kind = all[i].kind
             /\ isStaticFactory(c, ProtoMethods(c)[n]) <=> isStaticFactory(c, disambiguate(all)[i])
  <2>1. PICK m : m = ProtoMethods(c)[n]
    OBVIOUS
  <2>2. PICK d : d = disambiguate(all)[i]
    OBVIOUS
  <2>3. part[n] = all[i]
    BY <1>5, <1>9
  <2>4. m.kind = all[i].kind /\ m.ret = all[i].ret /\ m.params = all[i].params
    <3>1. n \in DOMAIN part
      BY <1>6
    <3> HIDE DEF part, all
    <3>2. /\ disambiguate(part)[n].kind = part[n].kind /\ disambiguate(part)[n].ret = part[n].ret
          /\ disambiguate(part)[n].params = part[n].params
      BY <3>1, <1>6, Disambiguated
    <3> QED BY <2>1, <2>3, <3>2, <1>3
  <2>5. d.kind = all[i].kind /\ d.ret = all[i].ret /\ d.params = all[i].params
    BY <2>2, <1>1, <1>2, Disambiguated
  <2>6. all[i].kind = "static" => (m.called \in api.skipStaticMethods <=> d.called \in api.skipStaticMethods)
    <3>1. all[i].kind = "static" =>
            (disambiguate(part)[n].called \in api.skipStaticMethods
               <=> disambiguate(all)[i].called \in api.skipStaticMethods)
      BY <1>2, <1>9, SkippedAlike
    <3> QED BY <1>3, <2>1, <2>2, <3>1
  <2> HIDE DEF all, part
  <2>7. isStaticFactory(c, m) <=> isStaticFactory(c, d)
    BY <2>4, <2>5, <2>6 DEF isStaticFactory
  <2> QED BY <2>1, <2>2, <2>4, <2>7
<1> QED BY <1>2, <1>8, <1>9 DEF P
-----------------------------------------------------------------------------
\* What is made of a sequence place by place, with its kinds and members.
LEMMA SameBrief ==
  ASSUME NEW q, List(q), NEW r, r = [i \in DOMAIN q |-> r[i]],
         \A i \in DOMAIN q : r[i].kind = q[i].kind /\ r[i].member = q[i].member
  PROVE  List(r) /\ Brief(r) = Brief(q)
<1>1. Len(q) \in Nat /\ DOMAIN q = 1..Len(q)
  BY ListIs
<1>2. DOMAIN r = DOMAIN q
  OBVIOUS
<1>3. List(r)
  BY <1>1, <1>2, ListOf
<1>4. Brief(r) = Brief(q)
  BY <1>2 DEF Brief
<1> QED BY <1>3, <1>4

\* The constructors, which abstract classes have none of.
Made(c) == IF Class(c).abstract THEN <<>> ELSE Chosen(Brief(Class(c).methods), Admits(c, "constructor"))

\* The empty sequence is one.
LEMMA NothingIsList == List(<<>>) /\ Brief(<<>>) = <<>>
BY DEF List, Brief

\* Of a part that the .proto has chosen, those of a kind.
LEMMA ProtoPart ==
  ASSUME NEW c, Sound(c), NEW kind
  PROVE  /\ List(OfKind(ProtoMethods(c), kind))
         /\ Brief(OfKind(ProtoMethods(c), kind)) = Chosen(Brief(Class(c).methods), Admits(c, kind))
         /\ \A n \in DOMAIN OfKind(ProtoMethods(c), kind) : OfKind(ProtoMethods(c), kind)[n].kind = kind
<1> DEFINE all == Class(c).methods
           P == {i \in DOMAIN all : IsBridged(c, all[i])}
<1>1. List(all)
  BY MethodsAre
<1>2. P \in SUBSET DOMAIN all /\ List(ProtoMethods(c)) /\ Brief(ProtoMethods(c)) = Chosen(Brief(all), P)
  BY ProtoHas
<1>3. {i \in P : all[i].kind = kind} = Admits(c, kind)
  BY BridgedAlike DEF Admits
<1> HIDE DEF all, P
<1>4. /\ List(OfKind(ProtoMethods(c), kind))
      /\ Brief(OfKind(ProtoMethods(c), kind)) = Chosen(Brief(all), {i \in P : all[i].kind = kind})
      /\ \A n \in DOMAIN OfKind(ProtoMethods(c), kind) : OfKind(ProtoMethods(c), kind)[n].kind = kind
  BY <1>1, <1>2, OfKindIs
<1> QED BY <1>3, <1>4 DEF all

\* Constructors are the same in the .proto and in the bridge.
LEMMA ConstructorsAgree ==
  ASSUME NEW c, Sound(c)
  PROVE  /\ List(ConstructorRpcs(c)) /\ Brief(ConstructorRpcs(c)) = Made(c)
         /\ List(Constructors(c, BridgeMethods(c))) /\ Brief(Constructors(c, BridgeMethods(c))) = Made(c)
<1> DEFINE ctors == Constructors(c, ProtoMethods(c))
<1>1. /\ List(Constructors(c, BridgeMethods(c))) /\ Brief(Constructors(c, BridgeMethods(c))) = Made(c)
  BY BridgeHas, NothingIsList DEF Constructors, Made
<1>2. /\ List(ctors) /\ Brief(ctors) = Made(c)
      /\ \A n \in DOMAIN ctors : ctors[n].kind = "constructor"
  BY ProtoPart, NothingIsList DEF Constructors, Made
<1>3. DOMAIN ConstructorRpcs(c) = DOMAIN ctors /\ ConstructorRpcs(c) = [i \in DOMAIN ctors |-> ConstructorRpcs(c)[i]]
  BY DEF ConstructorRpcs
<1>4. ASSUME NEW i \in DOMAIN ctors
      PROVE  ConstructorRpcs(c)[i].kind = "constructor" /\ ConstructorRpcs(c)[i].member = ctors[i].member
  BY DEF ConstructorRpcs, Rpc
<1> HIDE DEF ctors
<1>5. List(ConstructorRpcs(c)) /\ Brief(ConstructorRpcs(c)) = Brief(ctors)
  BY <1>2, <1>3, <1>4, SameBrief
<1> QED BY <1>1, <1>2, <1>5

\* Methods and factories: what their names are does not matter.
LEMMA MethodsAgree ==
  ASSUME NEW c, Sound(c), NEW used, NEW kind, kind \in {"static", "method"}
  PROVE  /\ List(OfKind(MethodRpcs(c, used), kind))
         /\ Brief(OfKind(MethodRpcs(c, used), kind)) = Chosen(Brief(Class(c).methods), Admits(c, kind))
<1> DEFINE all == Class(c).methods
           PM == ProtoMethods(c)
           P == {i \in DOMAIN all : IsBridged(c, all[i])}
           J == {n \in DOMAIN PM : PM[n].kind = "method" \/ isStaticFactory(c, PM[n])}
           K == {i \in P : all[i].kind = "method" \/ isStaticFactory(c, disambiguate(all)[i])}
           ms == Chosen(PM, J)
           R == MethodRpcs(c, used)
<1>1. List(all) /\ \A S \in SUBSET DOMAIN all : S \in SUBSET Nat /\ IsFiniteSet(S)
  BY MethodsAre
<1>2. P \in SUBSET DOMAIN all /\ List(PM) /\ Brief(PM) = Chosen(Brief(all), P)
  BY ProtoHas
<1>3. \A n \in 1..Cardinality(P) : \A i \in P : i = InOrder(P)[n] =>
        /\ PM[n].kind = all[i].kind
        /\ isStaticFactory(c, PM[n]) <=> isStaticFactory(c, disambiguate(all)[i])
  BY ProtoHas
<1>4. P \in SUBSET Nat /\ IsFiniteSet(P)
  BY <1>1, <1>2
<1>5. DOMAIN PM = 1..Cardinality(P)
  <2>1. DOMAIN Brief(PM) = 1..Cardinality(P)
    BY <1>2, <1>4, ChosenIs
  <2> QED BY <2>1 DEF Brief
<1>6. J \in SUBSET DOMAIN PM /\ J \in SUBSET Nat /\ IsFiniteSet(J)
  <2>1. DOMAIN PM \in SUBSET Nat /\ IsFiniteSet(DOMAIN PM)
    BY <1>2, ListIs
  <2>2. IsFiniteSet(J)
    BY <2>1, FS_Subset
  <2> QED BY <2>1, <2>2
<1>7. DOMAIN R = DOMAIN ms /\ R = [i \in DOMAIN ms |-> R[i]]
  BY DEF MethodRpcs, RpcsOfMethods, CallableMethods, RpcsOfMethods, CallableMethods
<1>8. ASSUME NEW i \in DOMAIN ms PROVE R[i].kind = ms[i].kind /\ R[i].member = ms[i].member
  BY DEF MethodRpcs, RpcsOfMethods, CallableMethods, Rpc
<1>9. K \in SUBSET P /\ \A n \in 1..Cardinality(P) : n \in J <=> InOrder(P)[n] \in K
  <2>1. \A n \in 1..Cardinality(P) : InOrder(P)[n] \in P
    BY <1>4, OrderOf
  <2> HIDE DEF PM, P
  <2> QED BY <1>3, <1>5, <2>1
<1>10. {i \in K : all[i].kind = kind} = Admits(c, kind)
  <2>1. \A i \in DOMAIN all : IsBridged(c, all[i]) <=> IsBridged(c, disambiguate(all)[i])
    BY BridgedAlike
  <2>2. \A i \in DOMAIN all : disambiguate(all)[i].kind = all[i].kind
    <3>1. all \in Seq(FunctionDecl)
      BY MethodsAre
    <3> HIDE DEF all
    <3> QED BY <3>1, Disambiguated
  <2>3. \A i \in DOMAIN all : IsBridged(c, disambiguate(all)[i]) /\ all[i].kind = "static"
                                => isStaticFactory(c, disambiguate(all)[i])
    BY <2>2 DEF IsBridged
  <2>4. \A i \in DOMAIN all : isStaticFactory(c, disambiguate(all)[i]) => all[i].kind = "static"
    BY <2>2 DEF isStaticFactory
  <2> HIDE DEF all
  <2> QED BY <2>1, <2>3, <2>4 DEF Admits, all
<1> HIDE DEF all, PM, P, J, K, R
<1>11. List(ms) /\ Brief(ms) = Chosen(Brief(PM), J)
  BY <1>6, ChosenIs, BriefChosen
<1>12. Chosen(Chosen(Brief(all), P), J) = Chosen(Brief(all), K)
  <2>1. J \in SUBSET (1..Cardinality(P))
    BY <1>5, <1>6
  <2> QED BY <1>4, <1>9, <2>1, ChosenWhere
<1> HIDE DEF ms
<1>13. List(R) /\ Brief(R) = Chosen(Brief(all), K)
  <2>1. List(R) /\ Brief(R) = Brief(ms)
    BY <1>7, <1>8, <1>11, SameBrief
  <2> QED BY <2>1, <1>2, <1>11, <1>12
<1>14. K \in SUBSET DOMAIN all
  BY <1>2, <1>9
<1>15. List(OfKind(R, kind)) /\ Brief(OfKind(R, kind)) = Chosen(Brief(all), {i \in K : all[i].kind = kind})
  BY <1>1, <1>13, <1>14, OfKindIs
<1> QED BY <1>10, <1>15 DEF R, all

\* What both generators make of the fields: a getter for each.
Getters(c) == [i \in DOMAIN Class(c).fields |-> <<"getter", Class(c).fields[i].member>>]

\* Fields,
LEMMA GettersAgree ==
  ASSUME NEW c, Sound(c), NEW used
  PROVE  /\ List(GetterRpcs(c, used)) /\ Brief(GetterRpcs(c, used)) = Getters(c)
         /\ filterBridgeFields(c) = Class(c).fields /\ List(Class(c).fields)
<1> DEFINE fs == Class(c).fields
           R == GetterRpcs(c, used)
<1>1. List(fs)
  BY DEF Sound, List
<1>2. DOMAIN R = DOMAIN fs /\ R = [i \in DOMAIN fs |-> R[i]]
  BY DEF GetterRpcs
<1>3. ASSUME NEW i \in DOMAIN fs PROVE R[i].kind = "getter" /\ R[i].member = fs[i].member
  BY DEF GetterRpcs, Rpc
<1>4. {i \in DOMAIN fs : fs[i].public /\ isUsableType(fs[i].type)} = DOMAIN fs
  BY DEF Sound
<1>5. filterBridgeFields(c) = fs
  BY <1>1, <1>4, ChosenAll DEF filterBridgeFields
<1> HIDE DEF R
<1>6. List(R)
  BY <1>1, <1>2, ListIs, ListOf
<1>7. Brief(R) = Getters(c)
  BY <1>2, <1>3 DEF Brief, Getters
<1> QED BY <1>1, <1>5, <1>6, <1>7 DEF R

\* And of what Go implementations are made with.
Factories(c) == [i \in DOMAIN FromCallbackParams(c) |-> <<"callback_factory", i>>]

\* and what makes objects for Go implementations.
LEMMA FactoriesAgree ==
  ASSUME NEW c, Sound(c), NEW used
  PROVE  /\ List(FromCallbackParams(c))
         /\ List(FromCallbackRpcs(c, used)) /\ Brief(FromCallbackRpcs(c, used)) = Factories(c)
<1> DEFINE all == Class(c).methods
           D == disambiguate(all)
           ms == OfKind(D, "constructor")
           S == {i \in DOMAIN ms : ms[i].public /\ Usable(ms[i].params)}
           ctors == collectTrampolineCtors(c)
           F == FromCallbackParams(c)
           R == FromCallbackRpcs(c, used)
<1>1. List(D)
  BY MethodsAre, Disambiguated
<1>2. List(Brief(D)) /\ DOMAIN Brief(D) = DOMAIN D
  BY <1>1, BriefConcat DEF Brief
<1>3. Brief(D) = Chosen(Brief(D), DOMAIN D)
  BY <1>2, ChosenAll
<1>4. List(ms)
  <2> HIDE DEF D
  <2> QED BY <1>1, <1>3, OfKindIs
<1>5. S \in SUBSET Nat /\ IsFiniteSet(S)
  <2> HIDE DEF ms
  <2>1. DOMAIN ms \in SUBSET Nat /\ IsFiniteSet(DOMAIN ms)
    BY <1>4, ListIs
  <2>2. IsFiniteSet(S)
    BY <2>1, FS_Subset
  <2> QED BY <2>1, <2>2
<1>6. List(ctors)
  <2>1. ctors = Chosen(ms, S)
    BY DEF collectTrampolineCtors, Forwardable
  <2> HIDE DEF ctors, S, ms
  <2> QED BY <2>1, <1>5, ChosenIs
<1>7. List(F)
  <2>1. F = <<>> \/ F = << <<>> >> \/ F = [i \in DOMAIN ctors |-> ctors[i].params]
    BY DEF FromCallbackParams, Variants
  <2>2. List(<< <<>> >>)
    <3>1. << <<>> >> \in Seq({<<>>})
      OBVIOUS
    <3> QED BY <3>1 DEF List
  <2>3. List([i \in DOMAIN ctors |-> ctors[i].params])
    <3> HIDE DEF ctors
    <3>1. Len(ctors) \in Nat /\ DOMAIN ctors = 1..Len(ctors)
      BY <1>6, ListIs
    <3> QED BY <3>1, ListOf
  <2> HIDE DEF F, ctors
  <2> QED BY <2>1, <2>2, <2>3, NothingIsList
<1>8. DOMAIN R = DOMAIN F /\ R = [i \in DOMAIN F |-> R[i]]
  BY DEF FromCallbackRpcs
<1>9. ASSUME NEW i \in DOMAIN F PROVE R[i].kind = "callback_factory" /\ R[i].member = i
  BY DEF FromCallbackRpcs, Rpc
<1> HIDE DEF R, F
<1>10. List(R)
  BY <1>7, <1>8, ListIs, ListOf
<1>11. Brief(R) = Factories(c)
  BY <1>8, <1>9 DEF Brief, Factories, F
<1> QED BY <1>7, <1>10, <1>11 DEF R, F
-----------------------------------------------------------------------------
\* The destructor.
Freed(c) == IF Class(c).dtor THEN << <<"free", 0>> >> ELSE <<>>

\* What the service of a class has, in its order.
Members(c) ==
  LET B == Brief(Class(c).methods)
  IN Made(c) \o (Chosen(B, Admits(c, "static")) \o Chosen(B, Admits(c, "method")))
       \o Getters(c) \o Factories(c) \o Freed(c)

\* One entry is a sequence.
LEMMA OneIsList == ASSUME NEW x PROVE List(<<x>>) /\ Brief(<<x>>) = << <<x.kind, x.member>> >>
<1> DEFINE q == <<x>>
           b == << <<x.kind, x.member>> >>
<1>1. q \in Seq({x}) /\ DOMAIN q = 1..1 /\ q[1] = x
  OBVIOUS
<1>2. b = [i \in 1..1 |-> <<x.kind, x.member>>]
  OBVIOUS
<1> HIDE DEF q, b
<1>3. Brief(q) = [i \in 1..1 |-> <<x.kind, x.member>>]
  BY <1>1 DEF Brief
<1>4. List(q)
  BY <1>1 DEF List
<1> QED BY <1>2, <1>3, <1>4 DEF q, b

\* The destructor is one RPC at most, whatever name is left for it.
LEMMA FreeAgrees ==
  ASSUME NEW c, NEW used
  PROVE  List(FreeRpc(c, used)) /\ Brief(FreeRpc(c, used)) = Freed(c)
<1>1. CASE ~Class(c).dtor
  <2>1. FreeRpc(c, used) = <<>> /\ Freed(c) = <<>>
    BY <1>1 DEF FreeRpc, Freed
  <2> QED BY <2>1, NothingIsList
<1>2. CASE Class(c).dtor
  <2>1. PICK x : FreeRpc(c, used) = <<x>> /\ x.kind = "free" /\ x.member = 0
    BY <1>2 DEF FreeRpc, Rpc
  <2>2. List(<<x>>) /\ Brief(<<x>>) = << <<x.kind, x.member>> >>
    BY OneIsList
  <2>3. Freed(c) = << <<"free", 0>> >>
    BY <1>2 DEF Freed
  <2> QED BY <2>1, <2>2, <2>3
<1> QED BY <1>1, <1>2

\* The .proto numbers the members of a class so,
LEMMA HandleRpcsAgree ==
  ASSUME NEW c, Sound(c)
  PROVE  List(HandleRpcs(c)) /\ Brief(HandleRpcs(c)) = Members(c)
<1> DEFINE B == Brief(Class(c).methods)
           made == ConstructorRpcs(c)
           M == MethodRpcs(c, Names(made))
           S == OfKind(M, "static")
           T == OfKind(M, "method")
           called == made \o StaticsFirst(M)
           G == GetterRpcs(c, Names(called))
           got == called \o G
           F == FromCallbackRpcs(c, Names(got))
           backed == got \o F
           E == FreeRpc(c, Names(backed))
<1>1. HandleRpcs(c) = backed \o E /\ StaticsFirst(M) = S \o T
  BY DEF HandleRpcs, WithMethods, WithGetters, WithFactories, WithFree, StaticsFirst
<1>2. List(made) /\ Brief(made) = Made(c)
  BY ConstructorsAgree
<1>3. /\ List(S) /\ Brief(S) = Chosen(B, Admits(c, "static"))
      /\ List(T) /\ Brief(T) = Chosen(B, Admits(c, "method"))
  BY MethodsAgree
<1>4. List(G) /\ Brief(G) = Getters(c)
  BY GettersAgree
<1>5. List(F) /\ Brief(F) = Factories(c)
  BY FactoriesAgree
<1>6. List(E) /\ Brief(E) = Freed(c)
  BY FreeAgrees
<1> HIDE DEF B, made, M, S, T, G, F, E
<1>7. List(S \o T) /\ Brief(S \o T) = Chosen(B, Admits(c, "static")) \o Chosen(B, Admits(c, "method"))
  BY <1>3, BriefConcat
<1>8. List(called) /\ Brief(called) = Made(c) \o (Chosen(B, Admits(c, "static")) \o Chosen(B, Admits(c, "method")))
  <2> DEFINE both == S \o T
  <2>1. called = made \o both
    BY <1>1
  <2> HIDE DEF both, called
  <2>2. List(both) /\ Brief(both) = Chosen(B, Admits(c, "static")) \o Chosen(B, Admits(c, "method"))
    BY <1>7 DEF both
  <2> QED BY <1>2, <2>1, <2>2, BriefConcat
<1> HIDE DEF called
<1>9. List(got) /\ Brief(got) = Brief(called) \o Getters(c)
  BY <1>4, <1>8, BriefConcat
<1> HIDE DEF got
<1>10. List(backed) /\ Brief(backed) = Brief(got) \o Factories(c)
  BY <1>5, <1>9, BriefConcat
<1> HIDE DEF backed
<1>11. List(backed \o E) /\ Brief(backed \o E) = Brief(backed) \o Freed(c)
  BY <1>6, <1>10, BriefConcat
<1> QED BY <1>1, <1>8, <1>9, <1>10, <1>11 DEF Members, B

\* and the bridge puts them behind the exports so.
LEMMA HandleDispatchAgrees ==
  ASSUME NEW c, Sound(c)
  PROVE  List(writeHandleDispatch(c)) /\ Brief(writeHandleDispatch(c)) = Members(c)
<1> DEFINE B == Brief(Class(c).methods)
           ms == BridgeMethods(c)
           ctors == Constructors(c, ms)
           statics == OfKind(ms, "static")
           methods == OfKind(ms, "method")
           fields == filterBridgeFields(c)
           A1 == [i \in DOMAIN ctors |-> MakeExport(ctors[i])]
           A2 == [i \in DOMAIN statics |-> MakeExport(statics[i])]
           A3 == [i \in DOMAIN methods |-> CallExport(c, methods[i])]
           A4 == [i \in DOMAIN fields |-> Export("getter", fields[i].member, Pointer, Numbered(<<fields[i].type>>, 1))]
           A5 == [i \in DOMAIN FromCallbackParams(c) |-> ImplExport(c, i)]
           A6 == IF Class(c).dtor THEN <<Export("free", 0, Pointer, <<>>)>> ELSE <<>>
<1>1. writeHandleDispatch(c) = A1 \o A2 \o A3 \o A4 \o A5 \o A6
  BY DEF writeHandleDispatch
<1>2. List(A1) /\ Brief(A1) = Made(c)
  <2>1. List(ctors) /\ Brief(ctors) = Made(c)
    BY ConstructorsAgree
  <2>2. \A i \in DOMAIN ctors : A1[i].kind = ctors[i].kind /\ A1[i].member = ctors[i].member
    BY DEF MakeExport, Export
  <2>3. A1 = [i \in DOMAIN ctors |-> A1[i]]
    OBVIOUS
  <2> HIDE DEF A1, ctors
  <2> QED BY <2>1, <2>2, <2>3, SameBrief
<1>3. List(A2) /\ Brief(A2) = Chosen(B, Admits(c, "static"))
  <2>1. List(statics) /\ Brief(statics) = Chosen(B, Admits(c, "static"))
    BY BridgeHas
  <2>2. \A i \in DOMAIN statics : A2[i].kind = statics[i].kind /\ A2[i].member = statics[i].member
    BY DEF MakeExport, Export
  <2>3. A2 = [i \in DOMAIN statics |-> A2[i]]
    OBVIOUS
  <2> HIDE DEF A2, statics
  <2> QED BY <2>1, <2>2, <2>3, SameBrief
<1>4. List(A3) /\ Brief(A3) = Chosen(B, Admits(c, "method"))
  <2>1. List(methods) /\ Brief(methods) = Chosen(B, Admits(c, "method"))
    BY BridgeHas
  <2>2. \A i \in DOMAIN methods : A3[i].kind = methods[i].kind /\ A3[i].member = methods[i].member
    BY DEF CallExport, Export
  <2>3. A3 = [i \in DOMAIN methods |-> A3[i]]
    OBVIOUS
  <2> HIDE DEF A3, methods
  <2> QED BY <2>1, <2>2, <2>3, SameBrief
<1>5. List(A4) /\ Brief(A4) = Getters(c)
  <2>1. fields = Class(c).fields /\ List(fields)
    BY GettersAgree
  <2>2. \A i \in DOMAIN fields : A4[i].kind = "getter" /\ A4[i].member = fields[i].member
    BY DEF Export
  <2>3. A4 = [i \in DOMAIN fields |-> A4[i]]
    OBVIOUS
  <2> HIDE DEF A4, fields
  <2>4. List(A4)
    BY <2>1, <2>3, ListIs, ListOf
  <2>5. Brief(A4) = Getters(c)
    BY <2>1, <2>2, <2>3 DEF Brief, Getters
  <2> QED BY <2>4, <2>5
<1>6. List(A5) /\ Brief(A5) = Factories(c)
  <2>1. List(FromCallbackParams(c))
    BY FactoriesAgree
  <2>2. \A i \in DOMAIN FromCallbackParams(c) : A5[i].kind = "callback_factory" /\ A5[i].member = i
    BY DEF ImplExport, Export
  <2>3. A5 = [i \in DOMAIN FromCallbackParams(c) |-> A5[i]]
    OBVIOUS
  <2> HIDE DEF A5
  <2>4. List(A5)
    BY <2>1, <2>3, ListIs, ListOf
  <2>5. Brief(A5) = Factories(c)
    BY <2>2, <2>3 DEF Brief, Factories
  <2> QED BY <2>4, <2>5
<1>7. List(A6) /\ Brief(A6) = Freed(c)
  <2>1. CASE ~Class(c).dtor
    <3>1. A6 = <<>> /\ Freed(c) = <<>>
      BY <2>1 DEF Freed
    <3> QED BY <3>1, NothingIsList
  <2>2. CASE Class(c).dtor
    <3>1. PICK x : A6 = <<x>> /\ x.kind = "free" /\ x.member = 0
      BY <2>2 DEF Export
    <3>2. List(<<x>>) /\ Brief(<<x>>) = << <<x.kind, x.member>> >>
      BY OneIsList
    <3>3. Freed(c) = << <<"free", 0>> >>
      BY <2>2 DEF Freed
    <3> QED BY <3>1, <3>2, <3>3
  <2> QED BY <2>1, <2>2
<1> HIDE DEF B, A1, A2, A3, A4, A5, A6
<1> DEFINE P == Chosen(B, Admits(c, "static"))
           Q == Chosen(B, Admits(c, "method"))
<1>8. List(A1 \o A2) /\ Brief(A1 \o A2) = Made(c) \o P /\ List(Made(c)) /\ List(P)
  BY <1>2, <1>3, BriefConcat
<1>9. List(A1 \o A2 \o A3) /\ Brief(A1 \o A2 \o A3) = Made(c) \o P \o Q /\ List(Q)
  BY <1>4, <1>8, BriefConcat
<1>10. Made(c) \o P \o Q = Made(c) \o (P \o Q)
  <2>1. PICK R1 : Made(c) \in Seq(R1)
    BY <1>8 DEF List
  <2>2. PICK R2 : P \in Seq(R2)
    BY <1>8 DEF List
  <2>3. PICK R3 : Q \in Seq(R3)
    BY <1>9 DEF List
  <2> HIDE DEF P, Q
  <2>4. Made(c) \in Seq(R1 \cup R2 \cup R3) /\ P \in Seq(R1 \cup R2 \cup R3) /\ Q \in Seq(R1 \cup R2 \cup R3)
    BY <2>1, <2>2, <2>3
  <2> QED BY <2>4, ConcatAssociative
<1> DEFINE L3 == A1 \o A2 \o A3
           L4 == L3 \o A4
           L5 == L4 \o A5
<1> HIDE DEF P, Q, L3
<1>11. List(L3) /\ Brief(L3) = Made(c) \o (P \o Q)
  BY <1>9, <1>10 DEF L3
<1>12. List(L4) /\ Brief(L4) = Brief(L3) \o Getters(c)
  BY <1>5, <1>11, BriefConcat
<1> HIDE DEF L4
<1>13. List(L5) /\ Brief(L5) = Brief(L4) \o Factories(c)
  BY <1>6, <1>12, BriefConcat
<1> HIDE DEF L5
<1>14. List(L5 \o A6) /\ Brief(L5 \o A6) = Brief(L5) \o Freed(c)
  BY <1>7, <1>13, BriefConcat
<1>15. writeHandleDispatch(c) = L5 \o A6
  BY <1>1 DEF L3, L4, L5
<1> QED BY <1>11, <1>12, <1>13, <1>14, <1>15 DEF Members, B, P, Q
-----------------------------------------------------------------------------
\* What the parser makes of functions.
FunctionsTyped ==
  spec.functions \in Seq(FunctionDecl) /\ \A i \in DOMAIN spec.functions : spec.functions[i].kind = "function"

\* What is behind the exports of the free functions.
FunctionExports == [i \in DOMAIN FreeFunctions |-> CallExport(0, FreeFunctions[i])]

\* Free functions are the same in the .proto and in the bridge.
LEMMA FunctionsAgree ==
  ASSUME FunctionsTyped
  PROVE  /\ List(FunctionRpcs) /\ Brief(FunctionRpcs) = Brief(FreeFunctions)
         /\ List(FunctionExports) /\ Brief(FunctionExports) = Brief(FreeFunctions)
         /\ FunctionExports = <<>> <=> FreeFunctions = <<>>
<1> DEFINE D == disambiguate(spec.functions)
           S == {i \in DOMAIN D : isReturnableType(D[i].ret) /\ Usable(D[i].params)}
           R == FunctionRpcs
           X == FunctionExports
           fs == FreeFunctions
<1>1. spec.functions \in Seq(FunctionDecl) /\ List(D) /\ DOMAIN D = DOMAIN spec.functions
      /\ \A i \in DOMAIN D : D[i].kind = "function"
  <2>1. spec.functions \in Seq(FunctionDecl) /\ \A i \in DOMAIN spec.functions : spec.functions[i].kind = "function"
    BY DEF FunctionsTyped
  <2>2. /\ List(D) /\ DOMAIN D = DOMAIN spec.functions
        /\ \A i \in DOMAIN spec.functions : D[i].kind = spec.functions[i].kind
    BY <2>1, Disambiguated
  <2> HIDE DEF D
  <2> QED BY <2>1, <2>2
<1>2. S \in SUBSET Nat /\ IsFiniteSet(S) /\ S \in SUBSET DOMAIN D
  <2>1. DOMAIN D \in SUBSET Nat /\ IsFiniteSet(DOMAIN D)
    BY <1>1, ListIs
  <2> HIDE DEF D
  <2>2. IsFiniteSet(S)
    BY <2>1, FS_Subset
  <2> QED BY <2>1, <2>2
<1>3. fs = Chosen(D, S)
  BY DEF FreeFunctions, filterBridgeFunctions
<1> HIDE DEF D, S, fs
<1>4. List(fs) /\ \A i \in DOMAIN fs : fs[i].kind = "function"
  <2>1. List(fs) /\ fs = [n \in 1..Cardinality(S) |-> D[InOrder(S)[n]]]
    BY <1>2, <1>3, ChosenIs
  <2>2. InOrder(S) \in [1..Cardinality(S) -> S]
    BY <1>2, OrderOf
  <2> QED BY <1>1, <1>2, <2>1, <2>2
<1>5. /\ R = [i \in DOMAIN fs |-> R[i]]
      /\ \A i \in DOMAIN fs : R[i].kind = "function" /\ R[i].member = fs[i].member
  BY DEF FunctionRpcs, Rpc, fs
<1>6. /\ X = [i \in DOMAIN fs |-> X[i]]
      /\ \A i \in DOMAIN fs : X[i].kind = fs[i].kind /\ X[i].member = fs[i].member
  BY DEF FunctionExports, CallExport, Export, fs
<1> HIDE DEF R, X
<1>7. List(R) /\ Brief(R) = Brief(fs)
  BY <1>4, <1>5, SameBrief
<1>8. List(X) /\ Brief(X) = Brief(fs)
  BY <1>4, <1>6, SameBrief
<1>9. X = <<>> <=> fs = <<>>
  <2>1. DOMAIN X = DOMAIN fs
    BY <1>6
  <2>2. \A q : List(q) => (q = <<>> <=> DOMAIN q = {})
    <3> SUFFICES ASSUME NEW q, List(q) PROVE q = <<>> <=> DOMAIN q = {}
      OBVIOUS
    <3>1. PICK T : q \in Seq(T)
      BY DEF List
    <3> QED BY <3>1
  <2> QED BY <1>4, <1>8, <2>1, <2>2
<1> QED BY <1>7, <1>8, <1>9 DEF R, X, fs
-----------------------------------------------------------------------------
(***************************************************************************)
(* Functions defined by recursion on places.                                *)
(***************************************************************************)
\* A sequence of values that starts with v and goes on by step.
Stepped(f, v, step, k) == f[0] = v /\ \A m \in 1..k : f[m] = step[<<m, f[m - 1]>>]

\* There is one,
LEMMA StepsExist ==
  ASSUME NEW V, NEW v \in V, NEW step \in [Nat \X V -> V], NEW k \in Nat
  PROVE  \E f \in [0..k -> V] : Stepped(f, v, step, k)
<1> DEFINE P(n) == \E f \in [0..n -> V] : f[0] = v /\ \A m \in 1..n : f[m] = step[<<m, f[m - 1]>>]
           S == {n \in Nat : P(n)}
<1>1. ASSUME NEW n \in Nat, 0 .. n-1 \subseteq S PROVE n \in S
  <2>1. CASE n = 0
    <3> DEFINE f == [m \in 0..0 |-> v]
    <3>1. f \in [0..n -> V] /\ f[0] = v /\ \A m \in 1..n : f[m] = step[<<m, f[m - 1]>>]
      BY <2>1
    <3> HIDE DEF f
    <3> QED BY <3>1
  <2>2. CASE n > 0
    <3>1. n - 1 \in S
      BY <2>2, <1>1
    <3>2. PICK f \in [0..n-1 -> V] : f[0] = v /\ \A m \in 1..n-1 : f[m] = step[<<m, f[m - 1]>>]
      BY <3>1
    <3> DEFINE x == step[<<n, f[n - 1]>>]
               g == [m \in 0..n |-> IF m < n THEN f[m] ELSE x]
    <3>3. x \in V
      BY <2>2
    <3> HIDE DEF x
    <3>4. g \in [0..n -> V] /\ g[0] = v
      BY <2>2, <3>2, <3>3
    <3>5. ASSUME NEW m \in 1..n PROVE g[m] = step[<<m, g[m - 1]>>]
      <4>1. m - 1 \in 0..n /\ m - 1 < n /\ g[m - 1] = f[m - 1]
        OBVIOUS
      <4>2. CASE m < n
        <5>1. m \in 1..n-1 /\ g[m] = f[m]
          BY <4>2
        <5> HIDE DEF g
        <5> QED BY <3>2, <4>1, <5>1
      <4>3. CASE m = n
        <5>1. g[m] = x
          BY <4>3
        <5> QED BY <4>1, <4>3, <5>1 DEF x
      <4> QED BY <4>2, <4>3
    <3> HIDE DEF g
    <3> QED BY <3>4, <3>5
  <2> HIDE DEF P
  <2> QED BY <2>1, <2>2 DEF P
<1>2. k \in S
  <2> HIDE DEF S
  <2>1. S \subseteq Nat
    BY DEF S
  <2> QED BY <1>1, <2>1, Induction
<1> QED BY <1>2 DEF Stepped

\* and whatever does so stays in any set that its steps stay in.
LEMMA StepsStay ==
  ASSUME NEW V, NEW k \in Nat, NEW f, f[0] \in V, \A n \in 1..k : f[n - 1] \in V => f[n] \in V
  PROVE  \A n \in 0..k : f[n] \in V
<1> DEFINE S == {n \in Nat : n <= k => f[n] \in V}
<1>1. ASSUME NEW n \in Nat, 0 .. n-1 \subseteq S PROVE n \in S
  <2>1. CASE n = 0
    BY <2>1
  <2>2. CASE n > 0 /\ n <= k
    <3>1. n - 1 \in S /\ n \in 1..k
      BY <1>1, <2>2
    <3> QED BY <3>1
  <2> QED BY <2>1, <2>2
<1>2. Nat \subseteq S
  <2> HIDE DEF S
  <2>1. S \subseteq Nat
    BY DEF S
  <2> QED BY <1>1, <2>1, Induction
<1> QED BY <1>2
-----------------------------------------------------------------------------
\* What FlattenSeq reads off.
Flattened(qs, f) == [i \in 1..Len(qs) |-> IF i = 1 THEN qs[i] ELSE f[i - 1] \o qs[i]]

\* Flattening sequences of T gives a sequence of T.
LEMMA FlattenIs ==
  ASSUME NEW T, NEW qs \in Seq(Seq(T))
  PROVE  FlattenSeq(qs) \in Seq(T)
<1> DEFINE k == Len(qs) - 1
           F == CHOOSE f : f = Flattened(qs, f)
<1>1. CASE Len(qs) = 0
  <2>1. FlattenSeq(qs) = <<>>
    BY <1>1 DEF FlattenSeq
  <2> QED BY <2>1
<1>2. CASE Len(qs) # 0
  <2>1. k \in Nat /\ Len(qs) \in Nat
    BY <1>2
  <2>2. FlattenSeq(qs) = F[Len(qs)]
    BY <1>2 DEF FlattenSeq, Flattened
  <2> DEFINE step == [p \in Nat \X Seq(T) |-> IF p[1] \in 1..k THEN p[2] \o qs[p[1] + 1] ELSE p[2]]
  <2>3. step \in [Nat \X Seq(T) -> Seq(T)]
    <3>1. ASSUME NEW n \in Nat, NEW s \in Seq(T), n \in 1..k PROVE s \o qs[n + 1] \in Seq(T)
      <4>1. qs[n + 1] \in Seq(T)
        BY <2>1, <3>1
      <4> QED BY <4>1
    <3> QED BY <3>1
  <2>4. ASSUME NEW m \in 1..k, NEW s \in Seq(T) PROVE step[<<m, s>>] = s \o qs[m + 1]
    <3>1. <<m, s>> \in Nat \X Seq(T) /\ <<m, s>>[1] = m /\ <<m, s>>[2] = s
      BY <2>1
    <3> QED BY <3>1
  <2>5. qs[1] \in Seq(T)
    BY <1>2
  <2> HIDE DEF step
  <2>6. PICK e \in [0..k -> Seq(T)] : e[0] = qs[1] /\ \A m \in 1..k : e[m] = step[<<m, e[m - 1]>>]
    <3> DEFINE U == Seq(T)
               w == qs[1]
    <3>1. k \in Nat /\ w \in U /\ step \in [Nat \X U -> U]
      BY <2>1, <2>3, <2>5
    <3> HIDE DEF k, U, w
    <3>2. \E e \in [0..k -> U] : Stepped(e, w, step, k)
      BY <3>1, StepsExist
    <3> QED BY <3>2 DEF U, w, Stepped
  <2> DEFINE g == [i \in 1..Len(qs) |-> e[i - 1]]
  <2>7. ASSUME NEW i \in 1..Len(qs) PROVE g[i] = Flattened(qs, g)[i]
    <3>1. CASE i = 1
      BY <2>6, <3>1 DEF Flattened
    <3>2. CASE i # 1
      <4>1. i - 1 \in 1..k /\ i - 1 \in 1..Len(qs) /\ i - 1 - 1 \in 0..k
        BY <2>1, <3>2
      <4>2. e[i - 1] = e[i - 1 - 1] \o qs[i - 1 + 1]
        <5>1. e[i - 1 - 1] \in Seq(T)
          BY <2>6, <4>1
        <5> QED BY <2>4, <2>6, <4>1, <5>1
      <4>3. i - 1 + 1 = i
        OBVIOUS
      <4>4. g[i] = e[i - 1] /\ g[i - 1] = e[i - 1 - 1]
        BY <4>1
      <4> HIDE DEF g, k
      <4> QED BY <3>2, <4>2, <4>3, <4>4 DEF Flattened
    <3> QED BY <3>1, <3>2
  <2>8. g = Flattened(qs, g)
    <3>1. g = [i \in 1..Len(qs) |-> g[i]] /\ Flattened(qs, g) = [i \in 1..Len(qs) |-> Flattened(qs, g)[i]]
      BY DEF Flattened
    <3> HIDE DEF g
    <3> QED BY <2>7, <3>1
  <2> HIDE DEF g
  <2>9. F = Flattened(qs, F)
    BY <2>8
  <2> HIDE DEF F
  <2>10. \A i \in 1..Len(qs) : F[i] = IF i = 1 THEN qs[i] ELSE F[i - 1] \o qs[i]
    BY <2>9 DEF Flattened
  <2> DEFINE h == [n \in 0..k |-> F[n + 1]]
  <2>11. h[0] \in Seq(T)
    BY <1>2, <2>1, <2>5, <2>10
  <2>12. ASSUME NEW n \in 1..k, h[n - 1] \in Seq(T) PROVE h[n] \in Seq(T)
    <3>1. n + 1 \in 1..Len(qs) /\ n + 1 # 1 /\ n + 1 - 1 = n /\ n \in 0..k /\ n - 1 \in 0..k /\ n - 1 + 1 = n
      BY <2>1
    <3>2. h[n] = F[n + 1] /\ h[n - 1] = F[n]
      BY <3>1
    <3>3. F[n + 1] = F[n] \o qs[n + 1]
      <4>1. \A i \in 1..Len(qs) : i # 1 => F[i] = F[i - 1] \o qs[i]
        BY <2>10
      <4>2. PICK i \in 1..Len(qs) : i = n + 1
        BY <3>1
      <4>3. i # 1 /\ i - 1 = n
        BY <3>1, <4>2
      <4> HIDE DEF h, k
      <4> QED BY <4>1, <4>2, <4>3
    <3>4. qs[n + 1] \in Seq(T)
      BY <3>1
    <3> HIDE DEF h, k
    <3> QED BY <2>12, <3>2, <3>3, <3>4
  <2>13. \A n \in 0..k : h[n] \in Seq(T)
    <3> HIDE DEF h, k
    <3> QED BY <2>1, <2>11, <2>12, StepsStay
  <2>14. h[k] = F[Len(qs)] /\ k \in 0..k
    BY <2>1
  <2> HIDE DEF h, k
  <2> QED BY <2>2, <2>13, <2>14
<1> QED BY <1>1, <1>2
-----------------------------------------------------------------------------
(***************************************************************************)
(* Callback classes: a class has finitely many virtuals, from itself and    *)
(* its family.                                                              *)
(***************************************************************************)
\* The parents that Lineage goes up to,
KnownParents(d) ==
  LET parents == Class(d).parents
  IN Chosen(parents, {i \in DOMAIN parents : parents[i] \in DOMAIN spec.classes})

\* how far it goes at most,
Height == Cardinality(DOMAIN spec.classes)

\* and what is n levels up, from what is n - 1 levels up.
Step(g) ==
  [d \in DOMAIN spec.classes |-> <<d>> \o FlattenSeq([i \in DOMAIN KnownParents(d) |-> g[KnownParents(d)[i]]])]
Ups(f) ==
  [n \in 0..Height |->
     [d \in DOMAIN spec.classes |->
        IF n = 0 THEN <<d>> ELSE <<d>> \o FlattenSeq([i \in DOMAIN KnownParents(d) |-> f[n - 1][KnownParents(d)[i]]])]]

\* Parents are numbers of classes, known or not.
ParentsTyped ==
  IsFiniteSet(DOMAIN spec.classes) /\ \A d \in DOMAIN spec.classes : Class(d).parents \in Seq(Nat)

\* T has with a class the bases it has in the specification.
ClosedUpwards(T) ==
  \A d \in T : \A i \in DOMAIN Class(d).parents :
    Class(d).parents[i] \in DOMAIN spec.classes => Class(d).parents[i] \in T

\* Lineage is what Ups says of all levels.
LEMMA LineageIs == ASSUME NEW c PROVE Lineage(c) = (CHOOSE f : f = Ups(f))[Height][c]
BY DEF Lineage, Ups, Height, KnownParents

\* It goes up to classes of T from classes of T.
LEMMA ParentsIn ==
  ASSUME ParentsTyped, NEW T \in SUBSET DOMAIN spec.classes, ClosedUpwards(T), NEW d \in T
  PROVE  KnownParents(d) \in Seq(T)
<1> DEFINE parents == Class(d).parents
           S == {i \in DOMAIN parents : parents[i] \in DOMAIN spec.classes}
<1>1. parents \in Seq(Nat) /\ List(parents)
  BY DEF ParentsTyped, List
<1>2. S \in SUBSET Nat /\ IsFiniteSet(S)
  <2>1. DOMAIN parents \in SUBSET Nat /\ IsFiniteSet(DOMAIN parents)
    BY <1>1, ListIs
  <2> HIDE DEF parents
  <2>2. IsFiniteSet(S)
    BY <2>1, FS_Subset
  <2> QED BY <2>1, <2>2
<1>3. \A i \in S : parents[i] \in T
  BY DEF ClosedUpwards
<1>4. KnownParents(d) = Chosen(parents, S)
  BY DEF KnownParents
<1> HIDE DEF parents, S
<1>5. InOrder(S) \in [1..Cardinality(S) -> S] /\ Cardinality(S) \in Nat
  BY <1>2, OrderOf
<1>6. Chosen(parents, S) = [n \in 1..Cardinality(S) |-> parents[InOrder(S)[n]]]
  BY <1>2, ChosenIs
<1>7. Chosen(parents, S) \in [1..Cardinality(S) -> T]
  BY <1>3, <1>5, <1>6
<1> QED BY <1>4, <1>5, <1>7

\* So do its steps.
LEMMA StepStays ==
  ASSUME ParentsTyped, NEW T \in SUBSET DOMAIN spec.classes, ClosedUpwards(T),
         NEW g, \A d \in T : g[d] \in Seq(T)
  PROVE  \A d \in T : Step(g)[d] \in Seq(T)
<1> SUFFICES ASSUME NEW d \in T PROVE Step(g)[d] \in Seq(T)
  OBVIOUS
<1> DEFINE ps == KnownParents(d)
           qs == [i \in DOMAIN ps |-> g[ps[i]]]
<1>1. ps \in Seq(T)
  BY ParentsIn
<1> HIDE DEF ps
<1>2. qs \in Seq(Seq(T))
  <2>1. DOMAIN ps = 1..Len(ps) /\ Len(ps) \in Nat /\ \A i \in 1..Len(ps) : ps[i] \in T
    BY <1>1
  <2>2. \A i \in 1..Len(ps) : g[ps[i]] \in Seq(T)
    BY <2>1
  <2>3. qs \in [1..Len(ps) -> Seq(T)]
    BY <2>1, <2>2
  <2> HIDE DEF qs
  <2> QED BY <2>1, <2>3
<1> HIDE DEF qs
<1>3. FlattenSeq(qs) \in Seq(T)
  BY <1>2, FlattenIs
<1>4. Step(g)[d] = <<d>> \o FlattenSeq(qs)
  BY DEF Step, qs, ps
<1> QED BY <1>3, <1>4

\* All classes are such a T.
LEMMA AllClosed == ClosedUpwards(DOMAIN spec.classes)
BY DEF ClosedUpwards

\* So what Ups asks for exists,
LEMMA UpsExist ==
  ASSUME ParentsTyped
  PROVE  Height \in Nat /\ \E f : f = Ups(f)
<1> DEFINE D == DOMAIN spec.classes
           V == [D -> Seq(D)]
           v == [d \in D |-> <<d>>]
           step == [p \in Nat \X V |-> Step(p[2])]
<1>1. Height \in Nat
  BY FS_CardinalityType DEF ParentsTyped, Height
<1>2. v \in V
  <2> HIDE DEF D
  <2>1. ASSUME NEW d \in D PROVE <<d>> \in Seq(D)
    OBVIOUS
  <2> QED BY <2>1
<1>3. step \in [Nat \X V -> V] /\ \A n \in Nat : \A g \in V : step[<<n, g>>] = Step(g)
  <2>1. ASSUME NEW g \in V PROVE Step(g) \in V
    <3>1. \A d \in D : Step(g)[d] \in Seq(D)
      <4>1. \A d \in D : g[d] \in Seq(D)
        OBVIOUS
      <4> QED BY <4>1, AllClosed, StepStays
    <3>2. Step(g) = [d \in D |-> Step(g)[d]]
      BY DEF Step
    <3> QED BY <3>1, <3>2
  <2> HIDE DEF V
  <2> QED BY <2>1
<1> HIDE DEF V, v, step
<1>4. PICK f \in [0..Height -> V] : Stepped(f, v, step, Height)
  BY <1>1, <1>2, <1>3, StepsExist
<1>5. ASSUME NEW n \in 0..Height PROVE f[n] = Ups(f)[n]
  <2>1. CASE n = 0
    <3>1. f[n] = v
      BY <1>4, <2>1 DEF Stepped
    <3>2. Ups(f)[n] = [d \in D |-> <<d>>]
      BY <2>1 DEF Ups
    <3> QED BY <3>1, <3>2 DEF v
  <2>2. CASE n # 0
    <3>1. n \in 1..Height /\ n - 1 \in 0..Height /\ n \in Nat
      BY <1>1, <2>2
    <3>2. f[n] = step[<<n, f[n - 1]>>] /\ f[n - 1] \in V
      BY <1>4, <3>1 DEF Stepped
    <3>3. f[n] = Step(f[n - 1])
      BY <1>3, <3>1, <3>2
    <3>4. Ups(f)[n] = Step(f[n - 1])
      BY <2>2 DEF Ups, Step
    <3> QED BY <3>3, <3>4
  <2> QED BY <2>1, <2>2
<1>6. f = [n \in 0..Height |-> f[n]] /\ Ups(f) = [n \in 0..Height |-> Ups(f)[n]]
  BY DEF Ups
<1> QED BY <1>1, <1>5, <1>6

\* and whoever is above a class of T in Lineage is in T.
LEMMA LineageStays ==
  ASSUME ParentsTyped, NEW T \in SUBSET DOMAIN spec.classes, ClosedUpwards(T), NEW c \in T
  PROVE  Lineage(c) \in Seq(T)
<1> DEFINE F == CHOOSE f : f = Ups(f)
           V == {F[n] : n \in 0..Height}
           W == {g \in V : \A d \in T : g[d] \in Seq(T)}
<1>1. F = Ups(F) /\ Height \in Nat
  BY UpsExist
<1>2. Lineage(c) = F[Height][c]
  BY LineageIs
<1> HIDE DEF F
<1>3. F[0] \in W
  <2>1. 0 \in 0..Height
    BY <1>1
  <2>2. \A d \in T : F[0][d] \in Seq(T)
    <3> SUFFICES ASSUME NEW d \in T PROVE F[0][d] \in Seq(T)
      OBVIOUS
    <3>1. F[0][d] = <<d>>
      BY <1>1, <2>1 DEF Ups
    <3> QED BY <3>1
  <2> QED BY <2>1, <2>2
<1>4. ASSUME NEW n \in 1..Height, F[n - 1] \in W PROVE F[n] \in W
  <2>1. n \in 0..Height /\ n # 0
    BY <1>1
  <2>2. F[n] = Step(F[n - 1])
    <3>1. Ups(F)[n] = Step(F[n - 1])
      BY <2>1 DEF Ups, Step
    <3> QED BY <1>1, <3>1
  <2>3. \A d \in T : F[n - 1][d] \in Seq(T)
    BY <1>4
  <2>4. \A d \in T : Step(F[n - 1])[d] \in Seq(T)
    BY <2>3, StepStays
  <2> QED BY <2>1, <2>2, <2>4
<1>5. F[Height] \in W
  <2> HIDE DEF W
  <2>1. \A n \in 0..Height : F[n] \in W
    BY <1>1, <1>3, <1>4, StepsStay
  <2> QED BY <1>1, <2>1
<1> QED BY <1>2, <1>5
-----------------------------------------------------------------------------
\* The virtuals of the classes in T.
VirtualsIn(T) ==
  UNION {{disambiguate(Class(d).methods)[i] :
            i \in {j \in DOMAIN Class(d).methods : /\ disambiguate(Class(d).methods)[j].virtual
                                                   /\ disambiguate(Class(d).methods)[j].public}} : d \in T}

\* Methods are what the parser makes.
MethodsTyped == \A d \in DOMAIN spec.classes : Class(d).methods \in Seq(FunctionDecl)

\* Each slot is taken once.
LEMMA InheritedAre ==
  ASSUME NEW c, NEW p
  PROVE  LET all == AllVirtuals(Lineage(c), p)
         IN  collectInheritedVirtuals(c, p) =
               {all[i] : i \in {j \in DOMAIN all : \A k \in 1..(j - 1) : Slot(all[k]) # Slot(all[j])}}
BY DEF collectInheritedVirtuals, MostDerived

\* The virtuals of a class are finitely many and come from its family, and
\* no two of them have a slot in common.
LEMMA VirtualsAre ==
  ASSUME ParentsTyped, MethodsTyped, NEW T \in SUBSET DOMAIN spec.classes, ClosedUpwards(T), NEW c \in T,
         NEW p \in BOOLEAN
  PROVE  LET ms == collectInheritedVirtuals(c, p)
         IN  /\ IsFiniteSet(ms) /\ ms \subseteq VirtualsIn(T)
             /\ \A m \in ms : \A n \in ms : Slot(m) = Slot(n) => m = n
<1> DEFINE all == AllVirtuals(Lineage(c), p)
           L == Lineage(c)
           Own(d) == OwnVirtuals(disambiguate(Class(d).methods), p)
           vs == [i \in DOMAIN L |-> Own(L[i])]
           I == {j \in DOMAIN all : \A k \in 1..(j - 1) : Slot(all[k]) # Slot(all[j])}
           ms == {all[i] : i \in I}
<1>1. L \in Seq(T)
  BY LineageStays
<1>2. ASSUME NEW d \in T PROVE Own(d) \in Seq(VirtualsIn(T))
  <2> DEFINE named == disambiguate(Class(d).methods)
             S == {i \in DOMAIN named : named[i].virtual /\ named[i].public /\ (p => named[i].pure)}
  <2>1. List(named) /\ DOMAIN named = DOMAIN Class(d).methods
    BY Disambiguated DEF MethodsTyped
  <2>2. S \in SUBSET Nat /\ IsFiniteSet(S)
    <3>1. DOMAIN named \in SUBSET Nat /\ IsFiniteSet(DOMAIN named)
      BY <2>1, ListIs
    <3> HIDE DEF named
    <3>2. IsFiniteSet(S)
      BY <3>1, FS_Subset
    <3> QED BY <3>1, <3>2
  <2>3. \A i \in S : named[i] \in VirtualsIn(T)
    BY <2>1 DEF VirtualsIn
  <2>4. Own(d) = Chosen(named, S)
    BY DEF OwnVirtuals
  <2> HIDE DEF named, S
  <2>5. Cardinality(S) \in Nat /\ InOrder(S) \in [1..Cardinality(S) -> S]
    BY <2>2, OrderOf
  <2>6. Chosen(named, S) = [n \in 1..Cardinality(S) |-> named[InOrder(S)[n]]]
    BY <2>2, ChosenIs
  <2>7. Chosen(named, S) \in [1..Cardinality(S) -> VirtualsIn(T)]
    BY <2>3, <2>5, <2>6
  <2> QED BY <2>4, <2>5, <2>7
<1>3. all = FlattenSeq(vs)
  BY DEF AllVirtuals
<1> HIDE DEF L, all, Own
<1>4. vs \in Seq(Seq(VirtualsIn(T)))
  <2>1. DOMAIN L = 1..Len(L) /\ Len(L) \in Nat /\ \A i \in 1..Len(L) : L[i] \in T
    BY <1>1
  <2>2. \A i \in 1..Len(L) : Own(L[i]) \in Seq(VirtualsIn(T))
    BY <1>2, <2>1
  <2>3. vs \in [1..Len(L) -> Seq(VirtualsIn(T))]
    BY <2>1, <2>2
  <2> HIDE DEF vs
  <2> QED BY <2>1, <2>3
<1>5. all \in Seq(VirtualsIn(T))
  <2> HIDE DEF vs
  <2> QED BY <1>3, <1>4, FlattenIs
<1>6. DOMAIN all \in SUBSET Nat /\ IsFiniteSet(DOMAIN all) /\ DOMAIN all = 1..Len(all)
  <2>1. List(all)
    BY <1>5 DEF List
  <2> QED BY <2>1, ListIs
<1>7. IsFiniteSet(ms)
  <2>1. IsFiniteSet(I)
    BY <1>6, FS_Subset
  <2> DEFINE f == [i \in I |-> all[i]]
  <2> HIDE DEF I
  <2>2. f \in Surjection(I, ms)
    BY DEF Surjection
  <2> HIDE DEF ms, f
  <2> QED BY <2>1, <2>2, FS_Surjection DEF ExistsSurjection
<1>8. ms \subseteq VirtualsIn(T)
  BY <1>5, <1>6
<1>9. ASSUME NEW m \in ms, NEW n \in ms, Slot(m) = Slot(n) PROVE m = n
  <2>1. PICK i \in I : m = all[i]
    OBVIOUS
  <2>2. PICK j \in I : n = all[j]
    OBVIOUS
  <2>3. i \in Nat /\ j \in Nat /\ i > 0 /\ j > 0
    BY <1>6
  <2>4. ~(i < j) /\ ~(j < i)
    BY <1>9, <2>1, <2>2, <2>3
  <2>5. i = j
    BY <2>3, <2>4
  <2> QED BY <2>1, <2>2, <2>5
<1>10. collectInheritedVirtuals(c, p) = ms
  BY InheritedAre DEF all
<1> QED BY <1>7, <1>8, <1>9, <1>10
-----------------------------------------------------------------------------
\* The members that stand for the callback ids of a class.
Overridden(c) == [i \in DOMAIN collectTrampolineMethods(c) |-> collectTrampolineMethods(c)[i].member]

\* What the methods that override each other are called.
SlotsNamedAlike(T) ==
  \A m, n \in VirtualsIn(T) : m.name = n.name /\ m.signature = n.signature => m.called = n.called

\* Both generators number them so.
LEMMA CallbacksAgree ==
  ASSUME NEW c
  PROVE  /\ [i \in DOMAIN Trampoline(c) |-> Trampoline(c)[i].member] = Overridden(c)
         /\ [i \in DOMAIN CallbackService(c).rpcs |-> CallbackService(c).rpcs[i].member] = Overridden(c)
<1> DEFINE ms == collectTrampolineMethods(c)
           t == Trampoline(c)
           r == CallbackService(c).rpcs
<1>1. DOMAIN t = DOMAIN ms /\ \A i \in DOMAIN ms : t[i].member = ms[i].member
  BY DEF Trampoline, Overrides
<1>2. DOMAIN r = DOMAIN ms /\ \A i \in DOMAIN ms : r[i].member = ms[i].member
  BY DEF CallbackService, CallbackRpcs, Rpc
<1> HIDE DEF t, r
<1> QED BY <1>1, <1>2 DEF Overridden, t, r

\* A sequence without repetitions.
LEMMA DistinctIs ==
  ASSUME NEW k \in Nat, NEW q, q = [i \in 1..k |-> q[i]], \A i, j \in 1..k : q[i] = q[j] => i = j
  PROVE  Distinct(q)
<1>1. DOMAIN q = 1..k /\ Len(q) = k
  BY ListOf
<1>2. q \in Bijection(1..k, ToSet(q))
  BY <1>1 DEF Bijection, Injection, Surjection, IsInjective, ToSet
<1>3. IsFiniteSet(1..k) /\ Cardinality(1..k) = k
  BY Segment
<1>4. Cardinality(ToSet(q)) = k
  BY <1>2, <1>3, FS_Bijection DEF ExistsBijection
<1> QED BY <1>1, <1>4 DEF Distinct

\* No trampoline overrides a slot twice.
LEMMA SlotsDistinct ==
  ASSUME ParentsTyped, MethodsTyped, NEW T \in SUBSET DOMAIN spec.classes, ClosedUpwards(T), NEW c \in T,
         SlotsNamedAlike(T)
  PROVE  Distinct([i \in DOMAIN Trampoline(c) |-> Trampoline(c)[i].slot])
<1> DEFINE all == collectInheritedVirtuals(c, FALSE)
           ms == {m \in all : m.pure \/ trampolineSignatureDeclarable(m)}
           M == {m.member : m \in ms}
           cs == collectTrampolineMethods(c)
           t == Trampoline(c)
           q == [i \in DOMAIN t |-> t[i].slot]
<1>1. IsFiniteSet(all) /\ all \subseteq VirtualsIn(T) /\ \A m \in all : \A n \in all : Slot(m) = Slot(n) => m = n
  BY VirtualsAre
<1>2. \A m \in VirtualsIn(T) : m.member \in Nat
  <2> SUFFICES ASSUME NEW d \in T, NEW i \in DOMAIN Class(d).methods
               PROVE  disambiguate(Class(d).methods)[i].member \in Nat
    BY DEF VirtualsIn
  <2>1. Class(d).methods \in Seq(FunctionDecl)
    BY DEF MethodsTyped
  <2>2. disambiguate(Class(d).methods)[i].member = Class(d).methods[i].member
    BY <2>1, Disambiguated
  <2>3. Class(d).methods[i] \in FunctionDecl
    BY <2>1
  <2> QED BY <2>2, <2>3 DEF FunctionDecl
<1> HIDE DEF all
<1>3. ms \subseteq all /\ IsFiniteSet(ms)
  BY <1>1, FS_Subset
<1> HIDE DEF ms
<1>4. IsFiniteSet(M) /\ M \in SUBSET Nat
  <2> DEFINE f == [m \in ms |-> m.member]
  <2>1. f \in Surjection(ms, M)
    BY DEF Surjection
  <2>2. M \in SUBSET Nat
    BY <1>1, <1>2, <1>3
  <2> HIDE DEF f, M
  <2> QED BY <1>3, <2>1, <2>2, FS_Surjection DEF ExistsSurjection
<1>5. cs = [i \in DOMAIN InOrder(M) |-> CHOOSE m \in ms : m.member = InOrder(M)[i]]
  BY DEF collectTrampolineMethods, Sorted, ms, all
<1>6. ASSUME NEW n \in M PROVE \E m \in ms : m.member = n
  OBVIOUS
<1> HIDE DEF M, cs
<1>7. /\ Cardinality(M) \in Nat /\ InOrder(M) \in [1..Cardinality(M) -> M]
      /\ \A i, j \in 1..Cardinality(M) : i < j => InOrder(M)[i] < InOrder(M)[j]
  BY <1>4, OrderOf
<1>8. DOMAIN cs = 1..Cardinality(M)
  BY <1>5, <1>7
<1>9. ASSUME NEW i \in 1..Cardinality(M) PROVE cs[i] \in ms /\ cs[i].member = InOrder(M)[i]
  <2>1. InOrder(M)[i] \in M /\ i \in DOMAIN InOrder(M)
    BY <1>7
  <2>2. \E m \in ms : m.member = InOrder(M)[i]
    BY <1>6, <2>1
  <2> QED BY <1>5, <2>1, <2>2
<1>10. DOMAIN t = DOMAIN cs /\ \A i \in DOMAIN cs : t[i].slot = <<cs[i].name, cs[i].signature>>
  BY DEF Trampoline, Overrides, cs
<1> HIDE DEF t
<1>11. ASSUME NEW i \in 1..Cardinality(M), NEW j \in 1..Cardinality(M), q[i] = q[j] PROVE i = j
  <2>1. cs[i].name = cs[j].name /\ cs[i].signature = cs[j].signature
    BY <1>8, <1>10, <1>11
  <2>2. cs[i] \in all /\ cs[j] \in all /\ cs[i] \in VirtualsIn(T) /\ cs[j] \in VirtualsIn(T)
    BY <1>1, <1>3, <1>9
  <2>3. Slot(cs[i]) = Slot(cs[j])
    BY <2>1, <2>2 DEF SlotsNamedAlike, Slot
  <2>4. cs[i] = cs[j]
    BY <1>1, <2>2, <2>3
  <2>5. InOrder(M)[i] = InOrder(M)[j] /\ InOrder(M)[i] \in Nat /\ InOrder(M)[j] \in Nat
    BY <1>4, <1>7, <1>9, <2>4
  <2>6. ~(i < j) /\ ~(j < i) /\ i \in Nat /\ j \in Nat
    BY <1>7, <2>5
  <2> QED BY <2>6
<1>12. q = [i \in 1..Cardinality(M) |-> q[i]]
  BY <1>8, <1>10
<1> HIDE DEF q
<1>13. Distinct(q)
  BY <1>7, <1>11, <1>12, DistinctIs
<1> QED BY <1>13 DEF q, t
-----------------------------------------------------------------------------
(***************************************************************************)
(* What is read off the specification stays as it is when that does.        *)
(***************************************************************************)
Held == api' = api /\ spec' = spec

\* Classes and the types that can be bridged,
LEMMA TypesHeld ==
  ASSUME Held
  PROVE  /\ \A c : Class(c)' = Class(c)
         /\ ExternalTypes' = ExternalTypes
         /\ \A t : isUsableType(t)' = isUsableType(t)
         /\ \A t : isReturnableType(t)' = isReturnableType(t)
         /\ \A ps : Usable(ps)' = Usable(ps)
<1> USE DEF Held
<1>1. \A c : Class(c)' = Class(c)
  BY DEF Class
<1>2. ExternalTypes' = ExternalTypes
  BY DEF ExternalTypes, Above, Bases, Known, Class
<1>3. ASSUME NEW t PROVE isUsableType(t)' = isUsableType(t)
  BY <1>1, <1>2 DEF isUsableType, Admitted
<1>4. ASSUME NEW t PROVE isReturnableType(t)' = isReturnableType(t)
  BY <1>3 DEF isReturnableType
<1>5. ASSUME NEW ps PROVE Usable(ps)' = Usable(ps)
  BY <1>3 DEF Usable
<1> QED BY <1>1, <1>2, <1>3, <1>4, <1>5

\* methods,
LEMMA MethodsHeld ==
  ASSUME Held
  PROVE  /\ \A c, m : isStaticFactory(c, m)' = isStaticFactory(c, m)
         /\ \A c, m : IsBridged(c, m)' = IsBridged(c, m)
         /\ \A c, k : Admits(c, k)' = Admits(c, k)
         /\ FreeFunctions' = FreeFunctions
<1> USE DEF Held
<1>1. ASSUME NEW c, NEW m PROVE isStaticFactory(c, m)' = isStaticFactory(c, m)
  BY TypesHeld DEF isStaticFactory
<1>2. ASSUME NEW c, NEW m PROVE IsBridged(c, m)' = IsBridged(c, m)
  BY <1>1, TypesHeld DEF IsBridged
<1>3. ASSUME NEW c, NEW k PROVE Admits(c, k)' = Admits(c, k)
  BY <1>2, TypesHeld DEF Admits
<1>4. FreeFunctions' = FreeFunctions
  BY TypesHeld DEF FreeFunctions, filterBridgeFunctions
<1> QED BY <1>1, <1>2, <1>3, <1>4

\* The methods a trampoline has.
Declared(c) == {m \in collectInheritedVirtuals(c, FALSE) : m.pure \/ trampolineSignatureDeclarable(m)}

\* lineages and callback classes,
LEMMA CallbacksHeld ==
  ASSUME Held
  PROVE  /\ \A c : Overridden(c)' = Overridden(c)
         /\ \A c : isCallbackCandidate(c)' = isCallbackCandidate(c)
         /\ \A c : FromCallbackParams(c)' = FromCallbackParams(c)
<1> USE DEF Held
<1>1. ASSUME NEW c PROVE Lineage(c)' = Lineage(c)
  BY DEF Lineage, Class
<1>2. ASSUME NEW c, NEW p PROVE collectInheritedVirtuals(c, p)' = collectInheritedVirtuals(c, p)
  BY <1>1 DEF collectInheritedVirtuals, AllVirtuals, OwnVirtuals, MostDerived, Class
<1>3. ASSUME NEW c PROVE isCallbackCandidate(c)' = isCallbackCandidate(c)
  BY <1>2 DEF isCallbackCandidate, PuresDeclarable, trampolineSignatureDeclarable, IsHandleType, Class
<1>4. ASSUME NEW c PROVE collectTrampolineMethods(c)' = collectTrampolineMethods(c)
  <2>1. Declared(c)' = Declared(c)
    BY <1>2 DEF Declared, trampolineSignatureDeclarable, IsHandleType, Class
  <2>2. collectTrampolineMethods(c) = Sorted(Declared(c))
    BY DEF collectTrampolineMethods, Declared
  <2>3. collectTrampolineMethods(c)' = Sorted(Declared(c))'
    BY DEF collectTrampolineMethods, Declared
  <2> QED BY <2>1, <2>2, <2>3
<1>5. ASSUME NEW c PROVE collectTrampolineCtors(c)' = collectTrampolineCtors(c)
  BY TypesHeld DEF collectTrampolineCtors, Forwardable, Usable, isUsableType, Admitted, Class
<1>6. ASSUME NEW c PROVE FromCallbackParams(c)' = FromCallbackParams(c)
  BY <1>3, <1>5 DEF FromCallbackParams
<1>7. ASSUME NEW c PROVE Overridden(c)' = Overridden(c)
  BY <1>4 DEF Overridden
<1> QED BY <1>3, <1>6, <1>7

\* which classes have services, and what is in them.
LEMMA MembersHeld ==
  ASSUME Held
  PROVE  /\ HandleClasses(ExternalTypes)' = HandleClasses(ExternalTypes)
         /\ \A c : Members(c)' = Members(c)
<1> USE DEF Held
<1>1. HandleClasses(ExternalTypes)' = HandleClasses(ExternalTypes)
  BY TypesHeld DEF HandleClasses, isBridgeableClass, Admitted
<1>2. ASSUME NEW c PROVE Members(c)' = Members(c)
  <2> DEFINE B == Brief(Class(c).methods)
  <2>1. B' = B
    BY TypesHeld
  <2>2. \A k : Admits(c, k)' = Admits(c, k)
    BY MethodsHeld
  <2>3. Made(c)' = Made(c)
    BY TypesHeld, <2>1, <2>2 DEF Made
  <2>4. /\ Chosen(B, Admits(c, "static"))' = Chosen(B, Admits(c, "static"))
        /\ Chosen(B, Admits(c, "method"))' = Chosen(B, Admits(c, "method"))
    BY <2>1, <2>2
  <2>5. Getters(c)' = Getters(c) /\ Freed(c)' = Freed(c)
    BY TypesHeld DEF Getters, Freed
  <2>6. Factories(c)' = Factories(c)
    BY CallbacksHeld DEF Factories
  <2> QED BY <2>3, <2>4, <2>5, <2>6 DEF Members
<1> QED BY <1>1, <1>2
-----------------------------------------------------------------------------
(***************************************************************************)
(* What the filter leaves is good enough for the generators to agree on.    *)
(***************************************************************************)
\* A class keeps its members and bases; it may become a handle.
SpecIsPart ==
  pc # "filter" =>
    /\ \A c \in DOMAIN spec.classes :
         /\ Class(c).parents = api.classes[c].parents /\ Class(c).methods = api.classes[c].methods
         /\ Class(c).fields = api.classes[c].fields /\ Class(c).external = api.classes[c].external
         /\ Class(c).handle => api.classes[c].handle \/ c \in api.exportClasses
    /\ FunctionsTyped

\* What holds of the specification at every step.
SpecInv == FilterInv /\ SpecIsPart

\* Nothing is filtered yet,
LEMMA SpecInvInit == InitGenProto => SpecInv
<1> SUFFICES ASSUME InitGenProto PROVE SpecInv
  OBVIOUS
<1>1. Init /\ pc = "filter"
  BY DEF InitGenProto, Init
<1> QED BY <1>1, FilterInvInit DEF SpecInv, SpecIsPart

\* the filter takes what it takes from the specification,
LEMMA SpecInvFilter == ASSUME SpecInv, FilterNothing \/ Filter PROVE SpecInv'
<1>1. FilterInv'
  BY FilterInvNext DEF SpecInv, Next
<1>2. api' = api /\ api \in Apis
  BY DEF SpecInv, FilterInv, FilterNothing, Filter
<1>3. /\ api.functions \in Seq(FunctionDecl)
      /\ \A i \in DOMAIN api.functions : api.functions[i].kind = "function"
      /\ \A c \in DOMAIN api.classes : api.classes[c] \in ClassDecl
  BY <1>2, ApisTyped
<1>4. CASE FilterNothing
  <2>1. spec'.classes = api.classes /\ spec'.functions = api.functions
    BY <1>4 DEF FilterNothing
  <2>2. FunctionsTyped'
    BY <1>3, <2>1 DEF FunctionsTyped
  <2> QED BY <1>1, <1>2, <2>1, <2>2 DEF SpecInv, SpecIsPart, Class
<1>5. CASE Filter
  <2> DEFINE S == kept \cup FromFunctions
             E == {i \in DOMAIN api.functions : IsExported(api.functions[i])}
  <2>1. CASE Round(S) # S
    <3>1. pc' = "filter"
      BY <1>5, <2>1 DEF Filter
    <3> QED BY <1>1, <3>1 DEF SpecInv, SpecIsPart
  <2>2. CASE Round(S) = S
    <3>1. spec' = Filtered(S)
      BY <1>5, <2>2 DEF Filter
    <3>2. S \subseteq DOMAIN api.classes
      BY <2>2, KnownRound DEF SpecInv, FilterInv
    <3>3. spec'.classes = [c \in S |-> Promoted(c)] /\ spec'.functions = Chosen(api.functions, E)
      BY <3>1 DEF Filtered
    <3>4. ASSUME NEW c \in S
          PROVE  /\ Promoted(c).parents = api.classes[c].parents /\ Promoted(c).methods = api.classes[c].methods
                 /\ Promoted(c).fields = api.classes[c].fields /\ Promoted(c).external = api.classes[c].external
                 /\ Promoted(c).handle => api.classes[c].handle \/ c \in api.exportClasses
      <4>1. PICK x : x = api.classes[c]
        OBVIOUS
      <4>2. x \in ClassDecl
        BY <1>3, <3>2, <4>1
      <4>3. Promoted(c) = [x EXCEPT !.handle = @ \/ c \in api.exportClasses]
        BY <4>1 DEF Promoted
      <4> HIDE DEF S
      <4> QED BY <4>1, <4>2, <4>3 DEF ClassDecl
    <3>5. FunctionsTyped'
      <4>1. List(api.functions)
        BY <1>3 DEF List
      <4>2. E \in SUBSET Nat /\ IsFiniteSet(E) /\ E \in SUBSET DOMAIN api.functions
        <5>1. DOMAIN api.functions \in SUBSET Nat /\ IsFiniteSet(DOMAIN api.functions)
          BY <4>1, ListIs
        <5>2. IsFiniteSet(E)
          BY <5>1, FS_Subset
        <5> QED BY <5>1, <5>2
      <4> HIDE DEF E
      <4>3. /\ Cardinality(E) \in Nat /\ InOrder(E) \in [1..Cardinality(E) -> E]
            /\ Chosen(api.functions, E) = [n \in 1..Cardinality(E) |-> api.functions[InOrder(E)[n]]]
        BY <4>2, OrderOf, ChosenIs
      <4>4. \A n \in 1..Cardinality(E) : InOrder(E)[n] \in DOMAIN api.functions
        BY <4>2, <4>3
      <4> DEFINE q == Chosen(api.functions, E)
      <4>5. q \in [1..Cardinality(E) -> FunctionDecl] /\ \A n \in 1..Cardinality(E) : q[n].kind = "function"
        BY <1>3, <4>3, <4>4
      <4> HIDE DEF q
      <4>6. q \in Seq(FunctionDecl) /\ \A n \in DOMAIN q : q[n].kind = "function"
        BY <4>3, <4>5
      <4>7. spec'.functions = q
        BY <3>3 DEF q
      <4> QED BY <4>6, <4>7 DEF FunctionsTyped
    <3> HIDE DEF S
    <3> QED BY <1>1, <1>2, <3>3, <3>4, <3>5 DEF SpecInv, SpecIsPart, Class
  <2> QED BY <2>1, <2>2
<1> QED BY <1>4, <1>5

\* and later all stays as it is.
LEMMA SpecInvLater ==
  ASSUME SpecInv, Held, kept' = kept, pc' = pc \/ (pc # "filter" /\ pc' # "filter")
  PROVE  SpecInv'
<1>1. Settled'
  BY RoundSame, Same DEF Settled, SpecInv, FilterInv, Held
<1>2. FilterInv'
  BY <1>1, Same DEF FilterInv, SpecInv, Held
<1>3. SpecIsPart'
  BY DEF SpecInv, SpecIsPart, Held, Class, FunctionsTyped
<1> QED BY <1>2, <1>3 DEF SpecInv

\* After the filter a step of gen-proto only writes.
LEMMA LaterSteps ==
  ASSUME [NextGenProto]_vars, ~(FilterNothing \/ Filter)
  PROVE  Held /\ kept' = kept /\ (pc' = pc \/ (pc # "filter" /\ pc' # "filter"))
<1> USE DEF Held, filterVars
<1>1. CASE WriteFunctions
  BY <1>1 DEF WriteFunctions
<1>2. CASE WriteHandleService
  BY <1>2 DEF WriteHandleService, Write
<1>3. CASE CollectCallbacks
  BY <1>3 DEF CollectCallbacks
<1>4. CASE WriteCallbackService
  BY <1>4 DEF WriteCallbackService, Write
<1>5. CASE ValidateProto
  BY <1>5 DEF ValidateProto
<1>6. CASE GenerateBridge
  BY <1>6 DEF GenerateBridge
<1>7. CASE GenerateGo
  BY <1>7 DEF GenerateGo
<1>8. CASE UNCHANGED vars
  BY <1>8 DEF vars
<1>9. ~ApplyExportFilter
  BY DEF ApplyExportFilter
<1> QED BY <1>1, <1>2, <1>3, <1>4, <1>5, <1>6, <1>7, <1>8, <1>9 DEF NextGenProto

\* So at every step.
LEMMA SpecInvNext == ASSUME SpecInv, [NextGenProto]_vars PROVE SpecInv'
BY SpecInvFilter, SpecInvLater, LaterSteps

\* Nor is a class kept later that is not needed.
LEMMA LeastLater == ASSUME FilterLeast, [NextGenProto]_vars PROVE FilterLeast'
<1>1. CASE FilterNothing \/ Filter
  BY <1>1, LeastNext DEF Next
<1>2. CASE ~(FilterNothing \/ Filter)
  <2>1. api' = api /\ kept' = kept
    BY <1>2, LaterSteps DEF Held
  <2> QED BY <2>1, RoundSame, Same DEF FilterLeast
<1> QED BY <1>1, <1>2

\* What the filter leaves is what the whole of gen-proto works on: it is exact
\* to the end, under what FilterIsExact assumes of exported functions,
THEOREM FilteredToTheEnd ==
  ASSUME NoOverloadedExports
  PROVE  SpecGenProto => []FilterExact
<1>1. InitGenProto => SpecInv /\ FilterLeast
  BY SpecInvInit, LeastInit DEF InitGenProto
<1>2. SpecInv /\ FilterLeast /\ [NextGenProto]_vars => (SpecInv /\ FilterLeast)'
  BY SpecInvNext, LeastLater
<1>3. SpecInv /\ FilterLeast => FilterExact
  BY SettledIsClosed, SettledDescendants DEF SpecInv, FilterExact
<1> QED BY <1>1, <1>2, <1>3, PTL DEF SpecGenProto

\* and has the subclasses, under what SubclassesAreKept assumes of bases.
THEOREM SubclassesToTheEnd ==
  ASSUME OnlyMixins
  PROVE  SpecGenProto => []SubclassesKept
<1>1. InitGenProto => SpecInv
  BY SpecInvInit
<1>2. SpecInv /\ [NextGenProto]_vars => SpecInv'
  BY SpecInvNext
<1>3. SpecInv => SubclassesKept
  BY SubclassesFound DEF SpecInv
<1> QED BY <1>1, <1>2, <1>3, PTL DEF SpecGenProto
-----------------------------------------------------------------------------
\* Classes are typed.
LEMMA SpecTyped ==
  ASSUME SpecInv, pc # "filter"
  PROVE  /\ ParentsTyped /\ MethodsTyped /\ FunctionsTyped
         /\ DOMAIN spec.classes \subseteq DOMAIN api.classes /\ DOMAIN spec.classes \in SUBSET Nat
         /\ \A c \in DOMAIN spec.classes : Class(c).fields \in Seq(FieldDecl)
<1>1. /\ DOMAIN spec.classes \subseteq DOMAIN api.classes /\ api \in Apis
      /\ \A c \in DOMAIN spec.classes :
           /\ Class(c).parents = api.classes[c].parents /\ Class(c).methods = api.classes[c].methods
           /\ Class(c).fields = api.classes[c].fields
      /\ FunctionsTyped
  BY DEF SpecInv, FilterInv, SpecIsPart
<1>2. /\ DOMAIN api.classes \in SUBSET Nat /\ IsFiniteSet(DOMAIN api.classes)
      /\ \A c \in DOMAIN api.classes : api.classes[c] \in ClassDecl
  BY <1>1, ApisTyped
<1>3. IsFiniteSet(DOMAIN spec.classes)
  BY <1>1, <1>2, FS_Subset
<1>4. ASSUME NEW c \in DOMAIN spec.classes
      PROVE  /\ Class(c).parents \in Seq(Nat) /\ Class(c).methods \in Seq(FunctionDecl)
             /\ Class(c).fields \in Seq(FieldDecl)
  <2>1. PICK x : x = api.classes[c] /\ x \in ClassDecl
    BY <1>1, <1>2
  <2>2. x.parents \in Seq(Nat) /\ x.methods \in Seq(FunctionDecl) /\ x.fields \in Seq(FieldDecl)
    BY <2>1 DEF ClassDecl
  <2> QED BY <1>1, <2>1, <2>2
<1> QED BY <1>1, <1>2, <1>3, <1>4 DEF ParentsTyped, MethodsTyped

\* Types of members that the bridge can take are there.
LEMMA FieldsSound ==
  ASSUME NumberedAlike, SpecInv, pc # "filter", NEW c \in HandleClasses(ExternalTypes),
         NEW i \in DOMAIN Class(c).fields
  PROVE  Class(c).fields[i].public /\ isUsableType(Class(c).fields[i].type)
<1> DEFINE f == Class(c).fields[i]
           n == f.type.of
<1>1. c \in DOMAIN spec.classes /\ Class(c).handle /\ c \notin api.skipClasses
  BY DEF HandleClasses, isBridgeableClass
<1>2. /\ DOMAIN spec.classes \subseteq DOMAIN api.classes /\ api \in Apis
      /\ \A d \in DOMAIN spec.classes :
           /\ Class(d).fields = api.classes[d].fields /\ Class(d).external = api.classes[d].external
           /\ Class(d).handle => api.classes[d].handle \/ d \in api.exportClasses
  BY DEF SpecInv, FilterInv, SpecIsPart
<1>3. f = api.classes[c].fields[i] /\ i \in DOMAIN api.classes[c].fields /\ c \in DOMAIN api.classes \ api.skipClasses
  BY <1>1, <1>2
<1>4. FieldsBridged(api)
  BY <1>2 DEF NumberedAlike
<1>5. /\ f.public /\ f.type.kind # "opaque"
      /\ n # 0 => n \in DOMAIN api.classes /\ (api.classes[n].external => n \in api.externalTypes)
  <2>1. api.classes[c].handle \/ c \in api.exportClasses
    BY <1>1, <1>2
  <2> HIDE DEF f
  <2> QED BY <1>3, <1>4, <2>1 DEF FieldsBridged
<1>6. n # 0 => n \in DOMAIN spec.classes
  <2> SUFFICES ASSUME n # 0 PROVE n \in DOMAIN spec.classes
    OBVIOUS
  <2>1. n \in MemberTypes(c)
    <3>1. n \in Known({api.classes[c].fields[j].type.of : j \in DOMAIN api.classes[c].fields})
      BY <1>3, <1>5 DEF Known
    <3> QED BY <3>1 DEF MemberTypes
  <2>2. PICK K : K = DOMAIN spec.classes
    OBVIOUS
  <2>3. K = DOMAIN api.classes \/ Round(K) = K
    BY <2>2 DEF SpecInv, FilterInv, Settled
  <2>4. CASE Round(K) = K
    BY <1>1, <2>1, <2>2, <2>4 DEF Round
  <2> HIDE DEF n
  <2> QED BY <1>5, <2>2, <2>3, <2>4
<1>7. n # 0 => Admitted(n, ExternalTypes)
  <2> SUFFICES ASSUME n # 0, Class(n).external PROVE n \in ExternalTypes
    BY DEF Admitted
  <2>1. n \in api.externalTypes \cap DOMAIN spec.classes
    BY <1>2, <1>5, <1>6
  <2> HIDE DEF n
  <2> QED BY <2>1 DEF ExternalTypes
<1> QED BY <1>5, <1>6, <1>7 DEF isUsableType

\* So all handle classes are such as the generators agree on.
LEMMA HandlesSound ==
  ASSUME NumberedAlike, SpecInv, pc # "filter", NEW c \in HandleClasses(ExternalTypes)
  PROVE  Sound(c)
<1>1. c \in DOMAIN spec.classes
  BY DEF HandleClasses
<1>2. c \in DOMAIN api.classes /\ Class(c).methods = api.classes[c].methods /\ api \in Apis
  BY <1>1 DEF SpecInv, FilterInv, SpecIsPart
<1>3. SkipsNoOverload(api)
  BY <1>2 DEF NumberedAlike
<1>4. \A i, j \in DOMAIN Class(c).methods :
       i # j /\ Class(c).methods[i].kind = "static" /\ Class(c).methods[j].name = Class(c).methods[i].name =>
         \A n \in DOMAIN Class(c).methods :
           [Class(c).methods[i].called EXCEPT !.words = Suffixed(@, n)] \notin api.skipStaticMethods
  BY <1>2, <1>3 DEF SkipsNoOverload
<1>5. Class(c).methods \in Seq(FunctionDecl) /\ Class(c).fields \in Seq(FieldDecl)
  BY <1>1, SpecTyped DEF MethodsTyped
<1> QED BY <1>4, <1>5, FieldsSound DEF Sound

\* In a family what overrides is called like what it overrides.
LEMMA FamilyAlike ==
  ASSUME NumberedAlike, SpecInv, pc # "filter", NEW c \in DOMAIN spec.classes
  PROVE  \E T \in SUBSET DOMAIN spec.classes : ClosedUpwards(T) /\ c \in T /\ SlotsNamedAlike(T)
<1> DEFINE T == Family(api, c) \cap DOMAIN spec.classes
<1>1. /\ DOMAIN spec.classes \subseteq DOMAIN api.classes /\ api \in Apis
      /\ \A d \in DOMAIN spec.classes :
           Class(d).parents = api.classes[d].parents /\ Class(d).methods = api.classes[d].methods
  BY DEF SpecInv, FilterInv, SpecIsPart
<1>2. c \in T
  BY <1>1 DEF Family
<1>3. ClosedUpwards(T)
  <2> SUFFICES ASSUME NEW d \in T, NEW i \in DOMAIN Class(d).parents,
                      Class(d).parents[i] \in DOMAIN spec.classes
               PROVE  Class(d).parents[i] \in Family(api, c)
    BY DEF ClosedUpwards
  <2>1. PICK p : p = Class(d).parents[i] /\ p = api.classes[d].parents[i] /\ i \in DOMAIN api.classes[d].parents
                 /\ p \in DOMAIN api.classes
    BY <1>1
  <2> QED BY <2>1 DEF Family
<1>4. SlotsNamedAlike(T)
  <2> SUFFICES ASSUME NEW m \in VirtualsIn(T), NEW n \in VirtualsIn(T), m.name = n.name, m.signature = n.signature
               PROVE  m.called = n.called
    BY DEF SlotsNamedAlike
  <2>1. PICK d \in T : \E i \in DOMAIN Class(d).methods :
               m = disambiguate(Class(d).methods)[i] /\ m.virtual /\ m.public
    BY DEF VirtualsIn
  <2>2. PICK e \in T : \E i \in DOMAIN Class(e).methods :
               n = disambiguate(Class(e).methods)[i] /\ n.virtual /\ n.public
    BY DEF VirtualsIn
  <2>3. PICK i \in DOMAIN Class(d).methods : m = disambiguate(Class(d).methods)[i] /\ m.virtual /\ m.public
    BY <2>1
  <2>4. PICK j \in DOMAIN Class(e).methods : n = disambiguate(Class(e).methods)[j] /\ n.virtual /\ n.public
    BY <2>2
  <2>5. d \in Family(api, c) /\ e \in Family(api, c) /\ c \in DOMAIN api.classes
    BY <1>1
  <2>6. OverridesNamedAlike(api)
    BY <1>1 DEF NumberedAlike
  <2> DEFINE ms == disambiguate(api.classes[d].methods)
             ns == disambiguate(api.classes[e].methods)
  <2>7. i \in DOMAIN ms /\ j \in DOMAIN ns /\ m = ms[i] /\ n = ns[j]
    BY <1>1, <2>3, <2>4 DEF disambiguate
  <2>8. ms[i].virtual /\ ms[i].public /\ ns[j].virtual /\ ns[j].public
        /\ ms[i].name = ns[j].name /\ ms[i].signature = ns[j].signature => ms[i].called = ns[j].called
    BY <2>5, <2>6, <2>7 DEF OverridesNamedAlike
  <2> HIDE DEF ms, ns
  <2> QED BY <2>3, <2>4, <2>7, <2>8
<1> QED BY <1>2, <1>3, <1>4
-----------------------------------------------------------------------------
(***************************************************************************)
(* The services as they are written, one at a time.                         *)
(***************************************************************************)
\* The classes that have a service, in its order,
Handles == InOrder(HandleClasses(ExternalTypes))

\* and those that have a callback service.
Callbacks == InOrder({c \in HandleClasses(ExternalTypes) : isCallbackCandidate(c)})

\* What is left of q after k places.
Rest(q, k) == [n \in 1..(Len(q) - k) |-> q[k + n]]

\* The functions come first, if there are any.
First == IF FreeFunctions = <<>> THEN 0 ELSE 1

\* A service of RPCs with these kinds and members,
Serves(s, brief) == ~s.callback /\ List(s.rpcs) /\ Brief(s.rpcs) = brief

\* or of what a Go implementation of c answers to.
Backs(s, c) ==
  s.callback /\ s.class = c /\ [i \in DOMAIN s.rpcs |-> s.rpcs[i].member] = Overridden(c)

\* After the functions the first k handle classes, then l callback classes.
ServicesAre(k, l) ==
  /\ List(services) /\ Len(services) = First + k + l
  /\ First = 1 => Serves(services[1], Brief(FreeFunctions))
  /\ \A n \in 1..k : Serves(services[First + n], Members(Handles[n]))
  /\ \A n \in 1..l : Backs(services[First + k + n], Callbacks[n])

\* How far the two passes over the classes have come.
Progress ==
  /\ pc = "handles" => \E k \in 0..Len(Handles) : ServicesAre(k, 0) /\ todo = Rest(Handles, k)
  /\ pc = "callbacks" => \E l \in 0..Len(Callbacks) : ServicesAre(Len(Handles), l) /\ todo = Rest(Callbacks, l)
  /\ pc = "bridge" => ServicesAre(Len(Handles), Len(Callbacks))

\* The inductive invariant.
ProtoInv == SpecInv /\ Progress /\ DispatchAgrees

\* The places of Handles and of Callbacks.
LEMMA OrdersAre ==
  ASSUME SpecInv, pc # "filter"
  PROVE  LET H == HandleClasses(ExternalTypes)
             B == {c \in H : isCallbackCandidate(c)}
         IN  /\ IsFiniteSet(H) /\ H \in SUBSET Nat /\ H \subseteq DOMAIN spec.classes
             /\ Handles \in Seq(H) /\ DOMAIN Handles = 1..Len(Handles) /\ ToSet(Handles) = H
             /\ Callbacks \in Seq(B) /\ DOMAIN Callbacks = 1..Len(Callbacks) /\ ToSet(Callbacks) = B
<1> DEFINE H == HandleClasses(ExternalTypes)
           B == {c \in H : isCallbackCandidate(c)}
<1>1. H \subseteq DOMAIN spec.classes
  BY DEF HandleClasses
<1>2. H \in SUBSET Nat /\ IsFiniteSet(H)
  <2>1. DOMAIN spec.classes \in SUBSET Nat /\ IsFiniteSet(DOMAIN spec.classes)
    BY SpecTyped DEF ParentsTyped
  <2> HIDE DEF H
  <2>2. IsFiniteSet(H)
    BY <1>1, <2>1, FS_Subset
  <2> QED BY <1>1, <2>1, <2>2
<1> HIDE DEF H
<1>3. B \in SUBSET Nat /\ IsFiniteSet(B)
  <2>1. IsFiniteSet(B)
    BY <1>2, FS_Subset
  <2> QED BY <1>2, <2>1
<1>4. ASSUME NEW S \in SUBSET Nat, IsFiniteSet(S)
      PROVE  InOrder(S) \in Seq(S) /\ DOMAIN InOrder(S) = 1..Len(InOrder(S)) /\ ToSet(InOrder(S)) = S
  <2>1. /\ Cardinality(S) \in Nat /\ InOrder(S) \in [1..Cardinality(S) -> S]
        /\ \A i \in S : \E n \in 1..Cardinality(S) : InOrder(S)[n] = i
    BY <1>4, OrderOf
  <2>2. InOrder(S) \in Seq(S) /\ DOMAIN InOrder(S) = 1..Len(InOrder(S)) /\ DOMAIN InOrder(S) = 1..Cardinality(S)
    BY <2>1
  <2>3. ToSet(InOrder(S)) = S
    BY <2>1, <2>2 DEF ToSet
  <2> QED BY <2>2, <2>3
<1> HIDE DEF B
<1>5. Handles = InOrder(H) /\ Callbacks = InOrder(B)
  BY DEF Handles, Callbacks, H, B
<1>6. Handles \in Seq(H) /\ DOMAIN Handles = 1..Len(Handles) /\ ToSet(Handles) = H
  BY <1>2, <1>4, <1>5
<1>7. Callbacks \in Seq(B) /\ DOMAIN Callbacks = 1..Len(Callbacks) /\ ToSet(Callbacks) = B
  BY <1>3, <1>4, <1>5
<1> QED BY <1>1, <1>2, <1>6, <1>7 DEF H, B

\* What is left of a sequence, taken from the front.
LEMMA RestIs ==
  ASSUME NEW T, NEW q \in Seq(T), NEW k \in 0..Len(q)
  PROVE  /\ Rest(q, k) = <<>> <=> k = Len(q)
         /\ k # Len(q) => /\ k + 1 \in 1..Len(q) /\ Head(Rest(q, k)) = q[k + 1]
                          /\ Tail(Rest(q, k)) = Rest(q, k + 1)
         /\ Rest(q, 0) = q
<1> DEFINE m == Len(q) - k
           r == Rest(q, k)
<1>1. Len(q) \in Nat /\ m \in Nat /\ DOMAIN q = 1..Len(q)
  OBVIOUS
<1>2. r = [n \in 1..m |-> q[k + n]] /\ \A n \in 1..m : q[k + n] \in T
  BY DEF Rest
<1>3. r \in Seq(T) /\ Len(r) = m
  <2>1. r \in [1..m -> T]
    BY <1>2
  <2> HIDE DEF r, m
  <2> QED BY <1>1, <2>1
<1>4. r = <<>> <=> k = Len(q)
  <2>1. r = <<>> <=> m = 0
    <3> HIDE DEF r, m
    <3> QED BY <1>3, EmptySeq
  <2>2. m = 0 <=> k = Len(q)
    BY <1>1
  <2> QED BY <2>1, <2>2
<1>5. ASSUME k # Len(q) PROVE k + 1 \in 1..Len(q) /\ Head(r) = q[k + 1] /\ Tail(r) = Rest(q, k + 1)
  <2>1. k + 1 \in 1..Len(q) /\ m > 0 /\ m - 1 \in Nat
    <3>1. PICK n : n = Len(q)
      OBVIOUS
    <3>2. n \in Nat /\ k \in 0..n /\ k # n
      BY <1>1, <1>5, <3>1
    <3>3. k + 1 \in 1..n /\ n - k > 0 /\ n - k - 1 \in Nat
      BY <3>2
    <3> QED BY <3>1, <3>3
  <2>2. Head(r) = q[k + 1]
    <3>1. Head(r) = r[1] /\ 1 \in 1..m
      BY <1>3, <2>1
    <3> HIDE DEF r, m
    <3> QED BY <1>2, <3>1
  <2>3. Tail(r) = [n \in 1..(m - 1) |-> r[n + 1]]
    <3> HIDE DEF r, m
    <3>1. r # <<>>
      BY <1>3, <2>1
    <3>2. \A n \in 1..(m - 1) : Tail(r)[n] = r[n + 1]
      BY <1>3, <2>1, <3>1, HeadTailProperties
    <3>3. Tail(r) \in [1..(m - 1) -> T]
      <4>1. Tail(r) \in Seq(T) /\ Len(Tail(r)) = m - 1
        BY <1>3, <3>1, HeadTailProperties
      <4> QED BY <4>1, LenProperties
    <3> QED BY <3>2, <3>3
  <2>4. \A n \in 1..(m - 1) : r[n + 1] = q[k + 1 + n]
    <3> SUFFICES ASSUME NEW n \in 1..(m - 1) PROVE r[n + 1] = q[k + 1 + n]
      OBVIOUS
    <3>1. n + 1 \in 1..m /\ k + (n + 1) = k + 1 + n
      BY <1>1, <2>1
    <3>2. r[n + 1] = q[k + (n + 1)]
      <4> HIDE DEF r, m
      <4> QED BY <1>2, <3>1
    <3> QED BY <3>1, <3>2
  <2>5. Rest(q, k + 1) = [n \in 1..(m - 1) |-> q[k + 1 + n]]
    <3>1. Len(q) - (k + 1) = m - 1
      BY <1>1
    <3> HIDE DEF m
    <3> QED BY <3>1 DEF Rest
  <2> HIDE DEF r, m
  <2> QED BY <2>1, <2>2, <2>3, <2>4, <2>5
<1>6. Rest(q, 0) = q
  <2>1. Len(q) - 0 = Len(q) /\ \A n \in 1..Len(q) : q[0 + n] = q[n]
    BY <1>1
  <2>2. Rest(q, 0) = [n \in 1..Len(q) |-> q[n]]
    BY <2>1 DEF Rest
  <2> QED BY <2>2
<1> QED BY <1>4, <1>5, <1>6
-----------------------------------------------------------------------------
\* One more at the end.
LEMMA AppendIs ==
  ASSUME NEW q, List(q), NEW x
  PROVE  /\ List(Append(q, x)) /\ Len(Append(q, x)) = Len(q) + 1 /\ Len(q) \in Nat
         /\ \A i \in 1..Len(q) : Append(q, x)[i] = q[i]
         /\ Append(q, x)[Len(q) + 1] = x
<1>1. PICK T : q \in Seq(T)
  BY DEF List
<1>2. q \in Seq(T \cup {x}) /\ x \in T \cup {x}
  BY <1>1
<1>3. Append(q, x) \in Seq(T \cup {x})
  BY <1>2
<1>4. Len(Append(q, x)) = Len(q) + 1 /\ Len(q) \in Nat
  BY <1>2
<1>5. /\ \A i \in 1..Len(q) : Append(q, x)[i] = q[i]
      /\ Append(q, x)[Len(q) + 1] = x
  BY <1>2, AppendProperties
<1> QED BY <1>3, <1>4, <1>5 DEF List

\* The orders and what is written stay as they are.
LEMMA OrdersHeld ==
  ASSUME Held
  PROVE  /\ Handles' = Handles /\ Callbacks' = Callbacks /\ First' = First
         /\ \A s, b : Serves(s, b)' = Serves(s, b)
         /\ \A s, c : Backs(s, c)' = Backs(s, c)
         /\ Brief(FreeFunctions)' = Brief(FreeFunctions)
<1>1. Handles' = Handles
  BY MembersHeld DEF Handles
<1>2. Callbacks' = Callbacks
  BY MembersHeld, CallbacksHeld DEF Callbacks
<1>3. FreeFunctions' = FreeFunctions
  BY MethodsHeld
<1>4. First' = First /\ Brief(FreeFunctions)' = Brief(FreeFunctions)
  BY <1>3 DEF First
<1>5. ASSUME NEW s, NEW b PROVE Serves(s, b)' = Serves(s, b)
  BY DEF Serves
<1>6. ASSUME NEW s, NEW c PROVE Backs(s, c)' = Backs(s, c)
  BY CallbacksHeld DEF Backs
<1> QED BY <1>1, <1>2, <1>4, <1>5, <1>6

\* What the services have to be, whichever they are.
Are(q, k, l) ==
  /\ List(q) /\ Len(q) = First + k + l
  /\ First = 1 => Serves(q[1], Brief(FreeFunctions))
  /\ \A n \in 1..k : Serves(q[First + n], Members(Handles[n]))
  /\ \A n \in 1..l : Backs(q[First + k + n], Callbacks[n])

\* They are that of the old specification if they are of the new one.
LEMMA ServicesHeld ==
  ASSUME Held, NEW k, NEW l, NEW q, q = services', Are(q, k, l)
  PROVE  ServicesAre(k, l)'
<1>1. \A c : Members(c)' = Members(c)
  BY MembersHeld
<1>2. PICK h : h = Handles /\ h = Handles'
  BY OrdersHeld
<1>3. PICK b : b = Callbacks /\ b = Callbacks'
  BY OrdersHeld
<1>4. PICK f : f = First /\ f = First'
  BY OrdersHeld
<1>5. PICK r : r = Brief(FreeFunctions) /\ r = Brief(FreeFunctions)'
  BY OrdersHeld
<1>6. /\ List(q) /\ Len(q) = f + k + l
      /\ f = 1 => Serves(q[1], r)
      /\ \A n \in 1..k : Serves(q[f + n], Members(h[n]))
      /\ \A n \in 1..l : Backs(q[f + k + n], b[n])
  BY <1>2, <1>3, <1>4, <1>5 DEF Are
<1>7. /\ f = 1 => Serves(q[1], r)'
      /\ \A n \in 1..k : Serves(q[f + n], Members(h[n]))'
      /\ \A n \in 1..l : Backs(q[f + k + n], b[n])'
  <2>1. f = 1 => Serves(q[1], r)'
    BY <1>6, OrdersHeld
  <2>2. ASSUME NEW n \in 1..k PROVE Serves(q[f + n], Members(h[n]))'
    <3>1. PICK m : m = Members(h[n]) /\ m = Members(h[n])'
      BY <1>1
    <3>2. Serves(q[f + n], m)'
      BY <1>6, <3>1, OrdersHeld
    <3> QED BY <3>1, <3>2 DEF Serves
  <2>3. ASSUME NEW n \in 1..l PROVE Backs(q[f + k + n], b[n])'
    BY <1>6, OrdersHeld
  <2> QED BY <2>1, <2>2, <2>3
<1> QED BY <1>2, <1>3, <1>4, <1>5, <1>6, <1>7 DEF ServicesAre, Serves, Backs
-----------------------------------------------------------------------------
\* Before the handle classes there are the functions,
LEMMA FunctionsWritten ==
  ASSUME SpecInv, WriteFunctions
  PROVE  Held /\ pc' = "handles" /\ kept' = kept /\ pc = "filtered"
         /\ todo' = Rest(Handles, 0) /\ ServicesAre(0, 0)' /\ Len(Handles) \in Nat
<1>1. Held /\ pc = "filtered" /\ pc' = "handles" /\ kept' = kept /\ todo' = Handles
  BY DEF WriteFunctions, Held, Handles
<1>2. Rest(Handles, 0) = Handles /\ Len(Handles) \in Nat
  <2>1. PICK h, T : h = Handles /\ h \in Seq(T)
    BY <1>1, OrdersAre
  <2>2. Len(h) \in Nat /\ 0 \in 0..Len(h)
    BY <2>1
  <2> QED BY <2>1, <2>2, RestIs
<1>3. PICK q : q = services'
  OBVIOUS
<1>4. Are(q, 0, 0)
  <2>1. CASE FreeFunctions = <<>>
    <3>1. q = <<>> /\ First = 0
      BY <1>3, <2>1 DEF WriteFunctions, First
    <3> QED BY <3>1, NothingIsList DEF Are
  <2>2. CASE FreeFunctions # <<>>
    <3>1. PICK s : q = <<s>> /\ ~s.callback /\ s.rpcs = FunctionRpcs
      <4>1. q = <<FunctionService(DOMAIN messages')>>
        BY <1>3, <2>2 DEF WriteFunctions
      <4> QED BY <4>1 DEF FunctionService
    <3>2. First = 1
      BY <2>2 DEF First
    <3>3. Serves(s, Brief(FreeFunctions))
      <4>1. FunctionsTyped
        BY <1>1, SpecTyped
      <4> QED BY <3>1, <4>1, FunctionsAgree DEF Serves
    <3>4. List(q) /\ Len(q) = 1 /\ q[1] = s
      <4>1. List(<<s>>)
        BY OneIsList
      <4> QED BY <3>1, <4>1
    <3> QED BY <3>2, <3>3, <3>4 DEF Are
  <2> QED BY <2>1, <2>2
<1>5. ServicesAre(0, 0)'
  BY <1>1, <1>3, <1>4, ServicesHeld
<1> QED BY <1>1, <1>2, <1>5

\* First is a number, and so are the places.
LEMMA FirstIs == First \in {0, 1}
BY DEF First

\* then one handle class more,
LEMMA HandleWritten ==
  ASSUME NumberedAlike, SpecInv, WriteHandleService,
         NEW k \in 0..Len(Handles), ServicesAre(k, 0), todo = Rest(Handles, k)
  PROVE  Held /\ pc' = pc /\ kept' = kept
         /\ k + 1 \in 0..Len(Handles) /\ ServicesAre(k + 1, 0)' /\ todo' = Rest(Handles, k + 1)
<1>1. /\ Held /\ pc = "handles" /\ pc' = pc /\ kept' = kept /\ todo # <<>> /\ todo' = Tail(todo)
      /\ services' = Append(services, HandleService(Head(todo)))
  BY DEF WriteHandleService, Write, filterVars, Held
<1>2. PICK h : h = Handles /\ h \in Seq(HandleClasses(ExternalTypes))
  BY <1>1, OrdersAre
<1>3. /\ k + 1 \in 1..Len(h) /\ Head(todo) = h[k + 1] /\ Tail(todo) = Rest(h, k + 1)
  <2>1. k \in 0..Len(h) /\ Rest(h, k) = todo
    BY <1>2
  <2> QED BY <1>1, <1>2, <2>1, RestIs
<1>4. PICK c : c = h[k + 1] /\ c \in HandleClasses(ExternalTypes)
  BY <1>2, <1>3
<1>5. PICK s : s = HandleService(c)
  OBVIOUS
<1>6. Serves(s, Members(c))
  <2>1. Sound(c)
    BY <1>1, <1>4, HandlesSound
  <2>2. ~s.callback /\ s.rpcs = HandleRpcs(c)
    BY <1>5 DEF HandleService
  <2> QED BY <2>1, <2>2, HandleRpcsAgree DEF Serves
<1>7. PICK q : q = services' /\ q = Append(services, s)
  BY <1>1, <1>3, <1>4, <1>5
<1>8. Are(q, k + 1, 0)
  <2>1. /\ List(services) /\ Len(services) = First + k + 0
        /\ First = 1 => Serves(services[1], Brief(FreeFunctions))
        /\ \A n \in 1..k : Serves(services[First + n], Members(h[n]))
    BY <1>2 DEF ServicesAre
  <2>2. PICK f : f = First /\ f \in {0, 1}
    BY FirstIs
  <2>3. k \in Nat /\ Len(services) = f + k
    BY <2>1, <2>2
  <2>4. /\ List(q) /\ Len(q) = f + k + 1
        /\ \A i \in 1..(f + k) : q[i] = services[i]
        /\ q[f + k + 1] = s
    BY <1>7, <2>1, <2>3, AppendIs
  <2>5. f = 1 => Serves(q[1], Brief(FreeFunctions))
    <3>1. f = 1 => 1 \in 1..(f + k)
      BY <2>3
    <3> QED BY <2>1, <2>2, <2>4, <3>1
  <2>6. ASSUME NEW n \in 1..(k + 1) PROVE Serves(q[f + n], Members(h[n]))
    <3>1. CASE n \in 1..k
      <4>1. f + n \in 1..(f + k)
        BY <2>2, <2>3, <3>1
      <4> QED BY <2>1, <2>2, <2>4, <3>1, <4>1
    <3>2. CASE n = k + 1
      <4>1. f + n = f + k + 1
        BY <2>2, <2>3, <3>2
      <4> QED BY <1>4, <1>6, <2>4, <3>2, <4>1
    <3> QED BY <2>3, <3>1, <3>2
  <2>7. Len(q) = f + (k + 1) + 0
    BY <2>2, <2>3, <2>4
  <2> QED BY <1>2, <2>2, <2>4, <2>5, <2>6, <2>7 DEF Are
<1>9. ServicesAre(k + 1, 0)'
  BY <1>1, <1>7, <1>8, ServicesHeld
<1>10. k + 1 \in 0..Len(Handles)
  BY <1>2, <1>3
<1> QED BY <1>1, <1>2, <1>3, <1>9, <1>10

\* and after the last one callback class more.
LEMMA CallbackWritten ==
  ASSUME SpecInv, WriteCallbackService,
         NEW l \in 0..Len(Callbacks), ServicesAre(Len(Handles), l), todo = Rest(Callbacks, l)
  PROVE  Held /\ pc' = pc /\ kept' = kept
         /\ l + 1 \in 0..Len(Callbacks) /\ ServicesAre(Len(Handles), l + 1)' /\ todo' = Rest(Callbacks, l + 1)
<1>1. /\ Held /\ pc = "callbacks" /\ pc' = pc /\ kept' = kept /\ todo # <<>> /\ todo' = Tail(todo)
      /\ services' = Append(services, CallbackService(Head(todo)))
  BY DEF WriteCallbackService, Write, filterVars, Held
<1>2. PICK b, B : b = Callbacks /\ b \in Seq(B)
  BY <1>1, OrdersAre
<1>3. PICK h, H : h = Handles /\ h \in Seq(H)
  BY <1>1, OrdersAre
<1>4. /\ l + 1 \in 1..Len(b) /\ Head(todo) = b[l + 1] /\ Tail(todo) = Rest(b, l + 1)
  <2>1. l \in 0..Len(b) /\ Rest(b, l) = todo
    BY <1>2
  <2> QED BY <1>1, <1>2, <2>1, RestIs
<1>5. PICK c : c = b[l + 1]
  OBVIOUS
<1>6. PICK s : s = CallbackService(c)
  OBVIOUS
<1>7. Backs(s, c)
  <2>1. s.callback /\ s.class = c
    BY <1>6 DEF CallbackService
  <2> QED BY <1>6, <2>1, CallbacksAgree DEF Backs
<1>8. PICK q : q = services' /\ q = Append(services, s)
  BY <1>1, <1>4, <1>5, <1>6
<1>9. PICK k : k = Len(h) /\ k \in Nat
  BY <1>3
<1>10. Are(q, k, l + 1)
  <2>1. /\ List(services) /\ Len(services) = First + k + l
        /\ First = 1 => Serves(services[1], Brief(FreeFunctions))
        /\ \A n \in 1..k : Serves(services[First + n], Members(h[n]))
        /\ \A n \in 1..l : Backs(services[First + k + n], b[n])
    BY <1>2, <1>3, <1>9 DEF ServicesAre
  <2>2. PICK f : f = First /\ f \in {0, 1}
    BY FirstIs
  <2>3. l \in Nat /\ k \in Nat /\ Len(services) = f + k + l
    BY <1>9, <2>1, <2>2
  <2>4. /\ List(q) /\ Len(q) = f + k + l + 1
        /\ \A i \in 1..(f + k + l) : q[i] = services[i]
        /\ q[f + k + l + 1] = s
    BY <1>8, <2>1, <2>3, AppendIs
  <2>5. f = 1 => Serves(q[1], Brief(FreeFunctions))
    <3>1. f = 1 => 1 \in 1..(f + k + l)
      BY <2>3
    <3> QED BY <2>1, <2>2, <2>4, <3>1
  <2>6. ASSUME NEW n \in 1..k PROVE Serves(q[f + n], Members(h[n]))
    <3>1. f + n \in 1..(f + k + l)
      BY <2>2, <2>3
    <3> QED BY <2>1, <2>2, <2>4, <3>1
  <2>7. ASSUME NEW n \in 1..(l + 1) PROVE Backs(q[f + k + n], b[n])
    <3>1. CASE n \in 1..l
      <4>1. f + k + n \in 1..(f + k + l)
        BY <2>2, <2>3, <3>1
      <4> QED BY <2>1, <2>2, <2>4, <3>1, <4>1
    <3>2. CASE n = l + 1
      <4>1. f + k + n = f + k + l + 1
        BY <2>2, <2>3, <3>2
      <4> QED BY <1>5, <1>7, <2>4, <3>2, <4>1
    <3> QED BY <2>3, <3>1, <3>2
  <2>8. Len(q) = f + k + (l + 1)
    BY <2>2, <2>3, <2>4
  <2> QED BY <1>2, <1>3, <2>2, <2>4, <2>5, <2>6, <2>7, <2>8 DEF Are
<1>11. ServicesAre(k, l + 1)'
  BY <1>1, <1>8, <1>10, ServicesHeld
<1>12. ServicesAre(Len(Handles), l + 1)'
  <2>1. k = Len(Handles) /\ k = Len(Handles)'
    BY <1>1, <1>3, <1>9, OrdersHeld
  <2> QED BY <1>11, <2>1 DEF ServicesAre, Serves, Backs
<1>13. l + 1 \in 0..Len(Callbacks)
  BY <1>2, <1>4
<1> QED BY <1>1, <1>2, <1>4, <1>12, <1>13
-----------------------------------------------------------------------------
(***************************************************************************)
(* The bridge, once the services are complete.                              *)
(***************************************************************************)
\* What DispatchAgrees says of a bridge.
Agree(ex, tr) ==
  /\ Len(ex) = Cardinality(Served)
  /\ \A s \in Served :
       LET rpcs == services[s].rpcs IN
       /\ Len(ex[s]) = Len(rpcs)
       /\ \A i \in DOMAIN rpcs : ex[s][i].kind = rpcs[i].kind /\ ex[s][i].member = rpcs[i].member
  /\ {services[s].class : s \in DOMAIN services \ Served} = DOMAIN tr
  /\ \A s \in DOMAIN services \ Served :
       LET t == tr[services[s].class] IN
       /\ [i \in DOMAIN t |-> t[i].member] = [i \in DOMAIN services[s].rpcs |-> services[s].rpcs[i].member]
       /\ Distinct([i \in DOMAIN t |-> t[i].slot])

\* What the bridge generator writes for Go implementations.
Trampolines == [c \in {d \in ToSet(collectHandleClasses) : isCallbackCandidate(d)} |-> Trampoline(c)]

\* Sequences of the same kinds and members.
LEMMA BriefSays ==
  ASSUME NEW p, NEW q, List(p), List(q), Brief(p) = Brief(q)
  PROVE  Len(p) = Len(q) /\ \A i \in DOMAIN p : q[i].kind = p[i].kind /\ q[i].member = p[i].member
<1>1. /\ Len(p) \in Nat /\ DOMAIN p = 1..Len(p)
      /\ Len(q) \in Nat /\ DOMAIN q = 1..Len(q)
  BY ListIs
<1>2. DOMAIN p = DOMAIN Brief(p) /\ DOMAIN q = DOMAIN Brief(q)
  BY DEF Brief
<1>3. ASSUME NEW i \in DOMAIN p PROVE q[i].kind = p[i].kind /\ q[i].member = p[i].member
  <2>1. Brief(p)[i] = <<p[i].kind, p[i].member>> /\ Brief(q)[i] = <<q[i].kind, q[i].member>>
    BY <1>2 DEF Brief
  <2> QED BY <2>1
<1>4. Len(p) = Len(q)
  <2>1. 1..Len(p) = 1..Len(q)
    BY <1>1, <1>2
  <2>2. PICK m, n : m = Len(p) /\ n = Len(q)
    OBVIOUS
  <2>3. m \in Nat /\ n \in Nat /\ 1..m = 1..n
    BY <1>1, <2>1, <2>2
  <2>4. m = n
    <3>1. m > n => m \in 1..m /\ m \notin 1..n
      BY <2>3
    <3>2. n > m => n \in 1..n /\ n \notin 1..m
      BY <2>3
    <3> QED BY <2>3, <3>1, <3>2
  <2> QED BY <2>2, <2>4
<1> QED BY <1>3, <1>4

\* Dispatch has the functions in front, if there are any.
LEMMA DispatchIs ==
  ASSUME SpecInv, pc # "filter"
  PROVE  /\ Len(Dispatch) = First + Len(Handles)
         /\ First = 1 => Dispatch[1] = FunctionExports
         /\ \A n \in 1..Len(Handles) : Dispatch[First + n] = writeHandleDispatch(Handles[n])
<1> DEFINE hs == [i \in DOMAIN Handles |-> writeHandleDispatch(Handles[i])]
<1>1. Dispatch = IF FunctionExports = <<>> THEN hs ELSE <<FunctionExports>> \o hs
  BY DEF Dispatch, FunctionExports, collectHandleClasses, Handles
<1>2. FunctionExports = <<>> <=> FreeFunctions = <<>>
  BY SpecTyped, FunctionsAgree
<1>3. PICK k : k = Len(Handles) /\ k \in Nat /\ DOMAIN Handles = 1..k
  <2>1. PICK h, T : h = Handles /\ h \in Seq(T)
    BY OrdersAre
  <2> QED BY <2>1
<1>4. hs = [i \in 1..k |-> hs[i]] /\ \A n \in 1..k : hs[n] = writeHandleDispatch(Handles[n])
  BY <1>3
<1> HIDE DEF hs
<1>5. PICK T : hs \in Seq(T)
  <2>1. List(hs)
    BY <1>3, <1>4, ListOf
  <2> QED BY <2>1 DEF List
<1>6. Len(hs) = k
  BY <1>3, <1>4, ListOf
<1>7. CASE FreeFunctions = <<>>
  <2>1. First = 0 /\ Dispatch = hs
    BY <1>1, <1>2, <1>7 DEF First
  <2> QED BY <1>3, <1>4, <1>6, <2>1
<1>8. CASE FreeFunctions # <<>>
  <2>1. PICK x, one : First = 1 /\ x = FunctionExports /\ one = <<x>> /\ Dispatch = one \o hs
    BY <1>1, <1>2, <1>8 DEF First
  <2>2. one \in Seq(T \cup {x}) /\ hs \in Seq(T \cup {x}) /\ Len(one) = 1 /\ one[1] = x
    BY <1>5, <2>1
  <2>3. /\ Len(one \o hs) = 1 + k
        /\ \A i \in 1..(1 + k) : (one \o hs)[i] = IF i <= 1 THEN one[i] ELSE hs[i - 1]
    <3>1. PICK U : one \in Seq(U) /\ hs \in Seq(U)
      BY <2>2
    <3>2. /\ Len(one \o hs) = Len(one) + Len(hs)
          /\ \A i \in 1..(Len(one) + Len(hs)) : (one \o hs)[i] = IF i <= Len(one) THEN one[i] ELSE hs[i - Len(one)]
      BY <3>1, ConcatProperties
    <3>3. Len(one) = 1 /\ Len(hs) = k
      BY <1>6, <2>2
    <3> QED BY <3>2, <3>3
  <2>4. ASSUME NEW n \in 1..k PROVE (one \o hs)[1 + n] = hs[n]
    <3>1. PICK i : i = 1 + n
      OBVIOUS
    <3>2. i \in 1..(1 + k) /\ ~(i <= 1) /\ i - 1 = n
      BY <1>3, <3>1
    <3> QED BY <2>3, <3>1, <3>2
  <2>5. (one \o hs)[1] = x
    <3>1. 1 \in 1..(1 + k) /\ 1 <= 1
      BY <1>3
    <3> QED BY <2>2, <2>3, <3>1
  <2> QED BY <1>3, <1>4, <2>1, <2>3, <2>4, <2>5
<1> QED BY <1>7, <1>8

\* What is behind the exports is what the services were written for, and the
\* trampolines are those the callback services answer.
LEMMA BridgeAgrees ==
  ASSUME NumberedAlike, SpecInv, pc # "filter", ServicesAre(Len(Handles), Len(Callbacks))
  PROVE  Agree(Dispatch, Trampolines)
<1> DEFINE H == HandleClasses(ExternalTypes)
           B == {c \in H : isCallbackCandidate(c)}
           D == Dispatch
           t == Trampolines
<1>1. PICK h : h = Handles /\ h \in Seq(H) /\ DOMAIN h = 1..Len(h) /\ ToSet(h) = H
  BY OrdersAre
<1>2. PICK b : b = Callbacks /\ b \in Seq(B) /\ DOMAIN b = 1..Len(b) /\ ToSet(b) = B
  BY OrdersAre
<1>3. PICK k, l : k = Len(h) /\ l = Len(b) /\ k \in Nat /\ l \in Nat
  <2> HIDE DEF D, t, B, H
  <2>1. Len(h) \in Nat
    BY <1>1
  <2>2. Len(b) \in Nat
    BY <1>2
  <2> QED BY <2>1, <2>2
<1>4. PICK f : f = First /\ f \in {0, 1}
  BY FirstIs
<1>5. H \subseteq DOMAIN spec.classes
  BY DEF HandleClasses
<1>6. t = [c \in B |-> Trampoline(c)]
  <2>1. collectHandleClasses = h
    BY <1>1 DEF collectHandleClasses, Handles
  <2> QED BY <1>1, <2>1 DEF Trampolines
<1> HIDE DEF D, t, B, H
<1>7. /\ List(services) /\ Len(services) = f + k + l
      /\ f = 1 => Serves(services[1], Brief(FreeFunctions))
      /\ \A n \in 1..k : Serves(services[f + n], Members(h[n]))
      /\ \A n \in 1..l : Backs(services[f + k + n], b[n])
  BY <1>1, <1>2, <1>3, <1>4 DEF ServicesAre
<1>8. DOMAIN services = 1..(f + k + l)
  BY <1>7, ListIs
<1>9. /\ Len(D) = f + k
      /\ f = 1 => D[1] = FunctionExports
      /\ \A n \in 1..k : D[f + n] = writeHandleDispatch(h[n])
  BY <1>1, <1>3, <1>4, DispatchIs DEF D
<1>10. ASSUME NEW s \in 1..(f + k)
       PROVE  /\ ~services[s].callback /\ List(services[s].rpcs) /\ List(D[s])
              /\ Brief(services[s].rpcs) = Brief(D[s])
  <2>1. CASE f = 1 /\ s = 1
    <3>1. FunctionsTyped
      BY SpecTyped
    <3> QED BY <1>7, <1>9, <2>1, <3>1, FunctionsAgree DEF Serves
  <2>2. CASE ~(f = 1 /\ s = 1)
    <3>1. PICK n : n = s - f /\ n \in 1..k /\ s = f + n
      BY <1>3, <1>4, <2>2
    <3>2. Serves(services[s], Members(h[n])) /\ D[s] = writeHandleDispatch(h[n])
      BY <1>7, <1>9, <3>1
    <3>3. h[n] \in H
      BY <1>1, <1>3, <3>1
    <3>4. Sound(h[n])
      BY <3>3, HandlesSound DEF H
    <3> QED BY <3>2, <3>4, HandleDispatchAgrees DEF Serves
  <2> QED BY <2>1, <2>2
<1>11. ASSUME NEW s \in DOMAIN services, s \notin 1..(f + k)
       PROVE  \E n \in 1..l : s = f + k + n /\ Backs(services[s], b[n])
  <2>1. PICK n : n = s - (f + k) /\ n \in 1..l /\ s = f + k + n
    BY <1>3, <1>4, <1>8, <1>11
  <2> QED BY <1>7, <2>1
<1>12. Served = 1..(f + k) /\ f + k \in Nat
  <2>1. 1..(f + k) \subseteq DOMAIN services /\ f + k \in Nat
    BY <1>3, <1>4, <1>8
  <2>2. \A s \in DOMAIN services : s \in 1..(f + k) <=> ~services[s].callback
    BY <1>10, <1>11 DEF Backs
  <2> QED BY <2>1, <2>2 DEF Served
<1>13. Len(D) = Cardinality(Served)
  BY <1>9, <1>12, Segment
<1>14. ASSUME NEW s \in Served
       PROVE  LET rpcs == services[s].rpcs IN
              /\ Len(D[s]) = Len(rpcs)
              /\ \A i \in DOMAIN rpcs : D[s][i].kind = rpcs[i].kind /\ D[s][i].member = rpcs[i].member
  <2>1. PICK p, q : /\ p = services[s].rpcs /\ q = D[s]
                    /\ List(p) /\ List(q) /\ Brief(p) = Brief(q)
    BY <1>10, <1>12
  <2>2. Len(p) = Len(q) /\ \A i \in DOMAIN p : q[i].kind = p[i].kind /\ q[i].member = p[i].member
    BY <2>1, BriefSays
  <2> QED BY <2>1, <2>2
<1>15. ASSUME NEW s \in DOMAIN services \ Served
       PROVE  services[s].class \in B /\ Backs(services[s], services[s].class)
  <2>1. PICK n \in 1..l : Backs(services[s], b[n])
    BY <1>11, <1>12
  <2>2. b[n] \in B
    BY <1>2, <1>3
  <2> QED BY <2>1, <2>2 DEF Backs
<1>16. ASSUME NEW c \in B PROVE \E s \in DOMAIN services \ Served : services[s].class = c
  <2>1. PICK n \in 1..l : b[n] = c
    BY <1>2, <1>3 DEF ToSet
  <2>2. PICK s : s = f + k + n /\ s \in DOMAIN services /\ s \notin 1..(f + k)
    BY <1>3, <1>4, <1>8
  <2>3. services[s].class = c
    BY <1>7, <2>1, <2>2 DEF Backs
  <2> QED BY <1>12, <2>2, <2>3
<1>17. {services[s].class : s \in DOMAIN services \ Served} = DOMAIN t
  BY <1>6, <1>15, <1>16
<1>18. ASSUME NEW s \in DOMAIN services \ Served
       PROVE  LET u == t[services[s].class] IN
              /\ [i \in DOMAIN u |-> u[i].member] = [i \in DOMAIN services[s].rpcs |-> services[s].rpcs[i].member]
              /\ Distinct([i \in DOMAIN u |-> u[i].slot])
  <2>1. PICK c : c = services[s].class /\ c \in B /\ Backs(services[s], c)
    BY <1>15
  <2>2. t[c] = Trampoline(c)
    BY <1>6, <2>1
  <2>3. [i \in DOMAIN services[s].rpcs |-> services[s].rpcs[i].member] = Overridden(c)
    BY <2>1 DEF Backs
  <2>4. [i \in DOMAIN Trampoline(c) |-> Trampoline(c)[i].member] = Overridden(c)
    BY CallbacksAgree
  <2>5. c \in DOMAIN spec.classes
    BY <1>5, <2>1 DEF B
  <2>6. PICK T \in SUBSET DOMAIN spec.classes : ClosedUpwards(T) /\ c \in T /\ SlotsNamedAlike(T)
    BY <2>5, FamilyAlike
  <2>7. Distinct([i \in DOMAIN Trampoline(c) |-> Trampoline(c)[i].slot])
    BY <2>6, SpecTyped, SlotsDistinct
  <2> QED BY <2>1, <2>2, <2>3, <2>4, <2>7
<1>19. Agree(D, t)
  BY <1>13, <1>14, <1>17, <1>18 DEF Agree
<1> QED BY <1>19 DEF D, t
-----------------------------------------------------------------------------
\* The invariant holds initially,
LEMMA ProtoInvInit == InitGenProto => ProtoInv
<1> SUFFICES ASSUME InitGenProto PROVE ProtoInv
  OBVIOUS
<1>1. pc = "filter"
  BY DEF InitGenProto, Init
<1> QED BY <1>1, SpecInvInit DEF ProtoInv, Progress, DispatchAgrees

\* is kept by every step,
LEMMA ProtoInvNext ==
  ASSUME NumberedAlike, ProtoInv, [NextGenProto]_vars
  PROVE  ProtoInv'
<1> USE DEF ProtoInv
<1>1. CASE ApplyExportFilter
  <2>1. SpecInv'
    BY <1>1, SpecInvFilter DEF ApplyExportFilter
  <2>2. pc' \in {"filter", "filtered"}
    BY <1>1 DEF ApplyExportFilter, FilterNothing, Filter
  <2> QED BY <2>1, <2>2 DEF Progress, DispatchAgrees
<1>2. CASE WriteFunctions
  <2>1. /\ Held /\ pc' = "handles" /\ kept' = kept /\ pc = "filtered"
        /\ todo' = Rest(Handles, 0) /\ ServicesAre(0, 0)' /\ Len(Handles) \in Nat
    BY <1>2, FunctionsWritten
  <2>2. SpecInv'
    BY <2>1, SpecInvLater
  <2>3. Handles' = Handles
    BY <2>1, OrdersHeld
  <2>4. Progress'
    <3>1. 0 \in 0..Len(Handles)' /\ todo' = Rest(Handles, 0)'
      BY <2>1, <2>3
    <3> QED BY <2>1, <3>1 DEF Progress
  <2> QED BY <2>1, <2>2, <2>4 DEF DispatchAgrees
<1>3. CASE WriteHandleService
  <2>1. pc = "handles"
    BY <1>3 DEF WriteHandleService
  <2>2. PICK k \in 0..Len(Handles) : ServicesAre(k, 0) /\ todo = Rest(Handles, k)
    BY <2>1 DEF Progress
  <2>3. /\ Held /\ pc' = pc /\ kept' = kept
        /\ k + 1 \in 0..Len(Handles) /\ ServicesAre(k + 1, 0)' /\ todo' = Rest(Handles, k + 1)
    BY <1>3, <2>2, HandleWritten
  <2>4. SpecInv'
    BY <2>1, <2>3, SpecInvLater
  <2>5. Handles' = Handles
    BY <2>3, OrdersHeld
  <2>6. PICK j : j = k + 1
    OBVIOUS
  <2>7. j \in 0..Len(Handles)' /\ ServicesAre(j, 0)' /\ todo' = Rest(Handles, j)'
    BY <2>3, <2>5, <2>6
  <2>8. Progress'
    BY <2>1, <2>3, <2>7 DEF Progress
  <2> QED BY <2>1, <2>3, <2>4, <2>8 DEF DispatchAgrees
<1>4. CASE CollectCallbacks
  <2>1. /\ pc = "handles" /\ pc' = "callbacks" /\ todo = <<>> /\ todo' = Callbacks /\ kept' = kept
        /\ Held /\ services' = services
    BY <1>4 DEF CollectCallbacks, Held, Callbacks
  <2>2. PICK k \in 0..Len(Handles) : ServicesAre(k, 0) /\ todo = Rest(Handles, k)
    BY <2>1 DEF Progress
  <2>3. k = Len(Handles)
    <3>1. PICK h, T : h = Handles /\ h \in Seq(T)
      BY <2>1, OrdersAre
    <3>2. k \in 0..Len(h) /\ Rest(h, k) = <<>>
      BY <2>1, <2>2, <3>1
    <3>3. k = Len(h)
      BY <3>1, <3>2, RestIs
    <3> QED BY <3>1, <3>3
  <2>4. SpecInv'
    BY <2>1, SpecInvLater
  <2>5. PICK b, T : b = Callbacks /\ b \in Seq(T)
    BY <2>1, OrdersAre
  <2>6. 0 \in 0..Len(b) /\ Rest(b, 0) = b
    <3>1. 0 \in 0..Len(b)
      BY <2>5
    <3> QED BY <2>5, <3>1, RestIs
  <2>7. Handles' = Handles /\ b = Callbacks'
    BY <2>1, <2>5, OrdersHeld
  <2>8. ServicesAre(k, 0)'
    <3>1. Are(services, k, 0)
      BY <2>2 DEF ServicesAre, Are
    <3>2. PICK q : q = services /\ q = services'
      BY <2>1
    <3>3. Are(q, k, 0)
      BY <3>1, <3>2
    <3> QED BY <2>1, <3>2, <3>3, ServicesHeld
  <2>9. ServicesAre(Len(Handles), 0)'
    BY <2>3, <2>7, <2>8 DEF ServicesAre, Serves, Backs
  <2>10. Progress'
    <3>1. 0 \in 0..Len(Callbacks)' /\ todo' = Rest(Callbacks, 0)'
      BY <2>1, <2>5, <2>6, <2>7
    <3> QED BY <2>1, <2>9, <3>1 DEF Progress
  <2> QED BY <2>1, <2>4, <2>10 DEF DispatchAgrees
<1>5. CASE WriteCallbackService
  <2>1. pc = "callbacks"
    BY <1>5 DEF WriteCallbackService
  <2>2. PICK l \in 0..Len(Callbacks) : ServicesAre(Len(Handles), l) /\ todo = Rest(Callbacks, l)
    BY <2>1 DEF Progress
  <2>3. /\ Held /\ pc' = pc /\ kept' = kept
        /\ l + 1 \in 0..Len(Callbacks) /\ ServicesAre(Len(Handles), l + 1)' /\ todo' = Rest(Callbacks, l + 1)
    BY <1>5, <2>2, CallbackWritten
  <2>4. SpecInv'
    BY <2>1, <2>3, SpecInvLater
  <2>5. Callbacks' = Callbacks
    BY <2>3, OrdersHeld
  <2>6. PICK j : j = l + 1
    OBVIOUS
  <2>7. j \in 0..Len(Callbacks)' /\ ServicesAre(Len(Handles), j)' /\ todo' = Rest(Callbacks, j)'
    BY <2>3, <2>5, <2>6
  <2>8. Progress'
    BY <2>1, <2>3, <2>7 DEF Progress
  <2> QED BY <2>1, <2>3, <2>4, <2>8 DEF DispatchAgrees
<1>6. CASE ValidateProto
  <2>1. /\ pc = "callbacks" /\ pc' \in {"bridge", "failed"} /\ todo = <<>> /\ kept' = kept
        /\ Held /\ services' = services
    BY <1>6 DEF ValidateProto, Held, protoVars
  <2>2. PICK l \in 0..Len(Callbacks) : ServicesAre(Len(Handles), l) /\ todo = Rest(Callbacks, l)
    BY <2>1 DEF Progress
  <2>3. l = Len(Callbacks)
    <3>1. PICK b, T : b = Callbacks /\ b \in Seq(T)
      BY <2>1, OrdersAre
    <3>2. l \in 0..Len(b) /\ Rest(b, l) = <<>>
      BY <2>1, <2>2, <3>1
    <3>3. l = Len(b)
      BY <3>1, <3>2, RestIs
    <3> QED BY <3>1, <3>3
  <2>4. SpecInv'
    BY <2>1, SpecInvLater
  <2>5. PICK k : k = Len(Handles)
    OBVIOUS
  <2>6. ServicesAre(k, l)'
    <3>1. Are(services, k, l)
      BY <2>2, <2>5 DEF ServicesAre, Are
    <3>2. PICK q : q = services /\ q = services'
      BY <2>1
    <3>3. Are(q, k, l)
      BY <3>1, <3>2
    <3> QED BY <2>1, <3>2, <3>3, ServicesHeld
  <2>7. k = Len(Handles)' /\ l = Len(Callbacks)'
    BY <2>1, <2>3, <2>5, OrdersHeld
  <2>8. ServicesAre(Len(Handles), Len(Callbacks))'
    BY <2>6, <2>7 DEF ServicesAre, Serves, Backs
  <2> QED BY <2>1, <2>4, <2>8 DEF Progress, DispatchAgrees
<1>7. CASE GenerateBridge
  <2>1. /\ pc = "bridge" /\ pc' = "bindings" /\ kept' = kept /\ Held /\ services' = services
        /\ exports' = Dispatch /\ trampolines' = Trampolines
    BY <1>7 DEF GenerateBridge, Held, protoVars, Trampolines
  <2>2. Agree(Dispatch, Trampolines)
    BY <2>1, BridgeAgrees DEF Progress
  <2>3. SpecInv'
    BY <2>1, SpecInvLater
  <2>4. PICK D, t : D = Dispatch /\ t = Trampolines /\ Agree(D, t)
    BY <2>2
  <2>5. Served' = Served
    BY <2>1 DEF Served
  <2>6. DispatchAgrees'
    BY <2>1, <2>4, <2>5 DEF DispatchAgrees, Agree
  <2> QED BY <2>1, <2>3, <2>6 DEF Progress
<1>8. CASE GenerateGo
  <2>1. /\ pc = "bindings" /\ pc' = "done" /\ kept' = kept /\ Held
        /\ services' = services /\ exports' = exports /\ trampolines' = trampolines
    BY <1>8 DEF GenerateGo, Held, protoVars, bridgeVars
  <2>2. SpecInv'
    BY <2>1, SpecInvLater
  <2>3. Served' = Served
    BY <2>1 DEF Served
  <2>4. DispatchAgrees'
    BY <2>1, <2>3 DEF DispatchAgrees
  <2> QED BY <2>1, <2>2, <2>4 DEF Progress
<1>9. CASE UNCHANGED vars
  <2>1. /\ pc' = pc /\ kept' = kept /\ Held /\ services' = services /\ todo' = todo
        /\ exports' = exports /\ trampolines' = trampolines
    BY <1>9 DEF vars, filterVars, protoVars, bridgeVars, Held
  <2>2. SpecInv'
    BY <2>1, SpecInvLater
  <2>3. Served' = Served
    BY <2>1 DEF Served
  <2>4. DispatchAgrees'
    BY <2>1, <2>3 DEF DispatchAgrees
  <2>5. Handles' = Handles /\ Callbacks' = Callbacks
    BY <2>1, OrdersHeld
  <2>6. ASSUME NEW k, NEW l, ServicesAre(k, l) PROVE ServicesAre(k, l)'
    <3>1. PICK q : q = services /\ q = services'
      BY <2>1
    <3>2. Are(q, k, l)
      BY <2>6, <3>1 DEF ServicesAre, Are
    <3> QED BY <2>1, <3>1, <3>2, ServicesHeld
  <2>7. PICK h, b : h = Len(Handles) /\ h = Len(Handles)' /\ b = Len(Callbacks) /\ b = Len(Callbacks)'
    BY <2>5
  <2>8. ASSUME pc = "handles" PROVE \E k \in 0..Len(Handles)' : ServicesAre(k, 0)' /\ todo' = Rest(Handles, k)'
    <3>1. PICK k \in 0..h : ServicesAre(k, 0) /\ todo = Rest(Handles, k)
      BY <2>7, <2>8 DEF Progress
    <3>2. ServicesAre(k, 0)' /\ todo' = Rest(Handles, k)'
      BY <2>1, <2>5, <2>6, <3>1
    <3> QED BY <2>7, <3>2
  <2>9. ASSUME pc = "callbacks"
        PROVE  \E l \in 0..Len(Callbacks)' : ServicesAre(Len(Handles), l)' /\ todo' = Rest(Callbacks, l)'
    <3>1. PICK l \in 0..b : ServicesAre(h, l) /\ todo = Rest(Callbacks, l)
      BY <2>7, <2>9 DEF Progress
    <3>2. ServicesAre(h, l)' /\ todo' = Rest(Callbacks, l)'
      BY <2>1, <2>5, <2>6, <3>1
    <3>3. ServicesAre(Len(Handles), l)'
      BY <2>7, <3>2 DEF ServicesAre, Serves, Backs
    <3> QED BY <2>7, <3>2, <3>3
  <2>10. ASSUME pc = "bridge" PROVE ServicesAre(Len(Handles), Len(Callbacks))'
    <3>1. ServicesAre(h, b)'
      BY <2>6, <2>7, <2>10 DEF Progress
    <3> QED BY <2>7, <3>1 DEF ServicesAre, Serves, Backs
  <2>11. Progress'
    BY <2>1, <2>8, <2>9, <2>10 DEF Progress
  <2> QED BY <2>2, <2>4, <2>11
<1> QED BY <1>1, <1>2, <1>3, <1>4, <1>5, <1>6, <1>7, <1>8, <1>9 DEF NextGenProto

\* and so: whatever is exported, and however many overloads, virtuals and
\* bases there are, a Go binding runs the function it was written for, if the
\* specification has nothing that the generators number differently.
THEOREM RpcsNumberedAlike ==
  ASSUME NumberedAlike
  PROVE  SpecGenProto => []DispatchAgrees
<1>1. InitGenProto => ProtoInv
  BY ProtoInvInit
<1>2. ProtoInv /\ [NextGenProto]_vars => ProtoInv'
  BY ProtoInvNext
<1>3. ProtoInv => DispatchAgrees
  BY DEF ProtoInv
<1> QED BY <1>1, <1>2, <1>3, PTL DEF SpecGenProto
=============================================================================
