---------------------------- MODULE ExportFilter ----------------------------
(***************************************************************************)
(* The first step of gen-proto: which part of the API specification is      *)
(* bridged (internal/protogen/export_filter.go).  From the functions and    *)
(* classes that wasmify.json exports, the loop adds what their signatures,  *)
(* bases and members need, and every class below an abstract one, since a   *)
(* value of an abstract type is given its Go type by its C++ typeid.        *)
(*                                                                          *)
(* A class is a number: classes sort by name as their numbers do.  Names in *)
(* the specification are already qualified (postProcessQualifyShortNames),  *)
(* so a reference is the number of its class; enums, which refer to nothing,*)
(* are left out.                                                            *)
(***************************************************************************)
EXTENDS Naturals, Sequences, FiniteSets

CONSTANT Apis   \* specifications with their bridge sections:
                \*   classes    a function from numbers to classes
                \*   functions  the free functions
                \*   exportFunctions, exportClasses  what ExportFunctions names
                \* and what GenProto reads of the bridge section

VARIABLES
  api,    \* the specification as parsed, and the bridge section
  pc,
  kept,   \* needClasses
  spec    \* the filtered specification, once it is made

filterVars == <<api, pc, kept, spec>>

\* The numbers of S in their order.
InOrder(S) ==
  [n \in 1..Cardinality(S) |-> CHOOSE i \in S : Cardinality({j \in S : j < i}) = n - 1]

\* What a sequence has at these places.
Chosen(seq, places) ==
  LET order == InOrder(places) IN [n \in DOMAIN order |-> seq[order[n]]]

Known(S) == S \cap DOMAIN api.classes

Bases(c) == Known({api.classes[c].parents[i] : i \in DOMAIN api.classes[c].parents})

\* The base that c.Parent names, as a set.
Primary(c) ==
  IF api.classes[c].parents = <<>> THEN {} ELSE Known({api.classes[c].parents[1]})

\* What is reached from c by at least one step of Up.
Above(c, Up(_)) ==
  LET above[n \in 0..Cardinality(DOMAIN api.classes)] ==
        IF n = 0 THEN Up(c) ELSE above[n - 1] \cup UNION {Up(d) : d \in above[n - 1]}
  IN above[Cardinality(DOMAIN api.classes)]

\* collectTypeDeps: the class of a type, if it has one.  0 stands for none.
SignatureTypes(f) == Known({f.ret.of} \cup {f.params[i].of : i \in DOMAIN f.params})

MemberTypes(c) ==
  LET class == api.classes[c]
  IN (UNION {SignatureTypes(class.methods[i]) : i \in DOMAIN class.methods})
       \cup Known({class.fields[i].type.of : i \in DOMAIN class.fields})

\* Mutant: only the direct bases are looked at.
hasBase(c, a) == a \in Bases(c)

hasAncestor(c, a) == a \in Above(c, Primary) \cup Bases(c)
-----------------------------------------------------------------------------
IsExported(f) == f.qual \in api.exportFunctions

ExportsAll == api.exportFunctions = {} /\ api.exportClasses = {}

\* funcByQual: of the overloads of an exported name the last one.
Found(i) ==
  /\ IsExported(api.functions[i])
  /\ \A j \in DOMAIN api.functions : j > i => api.functions[j].qual # api.functions[i].qual

FromFunctions == UNION {SignatureTypes(api.functions[i]) : i \in {j \in DOMAIN api.functions : Found(j)}}

Below(S) ==
  {d \in DOMAIN api.classes :
     \E a \in S : api.classes[a].abstract /\ hasAncestor(d, a)}

\* Mutant: bases are not followed.
RoundMembers(S) == S \cup (UNION {MemberTypes(c) : c \in S}) \cup Below(S)

\* One turn of the loop over the classes found so far.
Round(S) == S \cup (UNION {Bases(c) \cup MemberTypes(c) : c \in S}) \cup Below(S)

\* Explicitly exported classes get a service whatever they are.
Promoted(c) ==
  [api.classes[c] EXCEPT !.handle = @ \/ c \in api.exportClasses]

Filtered(S) ==
  [classes   |-> [c \in S |-> Promoted(c)],
   functions |-> Chosen(api.functions, {i \in DOMAIN api.functions : IsExported(api.functions[i])})]

Init ==
  /\ api \in Apis
  /\ pc = "filter"
  /\ kept = Known(api.exportClasses)
  /\ spec = [classes |-> <<>>, functions |-> <<>>]

FilterNothing ==
  /\ pc = "filter" /\ ExportsAll
  /\ spec' = [classes |-> api.classes, functions |-> api.functions]
  /\ pc' = "filtered"
  /\ UNCHANGED <<api, kept>>

\* One turn: it is the last when it finds nothing new.
Filter ==
  /\ pc = "filter" /\ ~ExportsAll
  /\ LET S == kept \cup FromFunctions IN
       /\ kept' = Round(S)
       /\ IF Round(S) = S
          THEN pc' = "filtered" /\ spec' = Filtered(S)
          ELSE UNCHANGED <<pc, spec>>
  /\ UNCHANGED api

Next == FilterNothing \/ Filter

Spec == Init /\ [][Next]_filterVars
-----------------------------------------------------------------------------
Bridged(f) == ExportsAll \/ IsExported(f)

\* Nothing that is bridged refers to a class that was filtered out: the bases
\* and member types of every kept class and the types of every kept function
\* are kept, and so is every exported class.
FilterClosed ==
  pc # "filter" =>
    LET K == DOMAIN spec.classes IN
      /\ \A c \in K : Bases(c) \cup MemberTypes(c) \subseteq K
      /\ \A i \in DOMAIN api.functions :
           Bridged(api.functions[i]) => SignatureTypes(api.functions[i]) \subseteq K
      /\ Known(api.exportClasses) \subseteq K

\* The same of the classes that hasAncestor finds below a kept abstract class.
DescendantsKept == pc # "filter" => Below(DOMAIN spec.classes) \subseteq DOMAIN spec.classes

\* At no time is a class kept without need: it is in every closed set.
FilterLeast ==
  \A T \in SUBSET DOMAIN api.classes :
    Round(T) = T /\ FromFunctions \cup Known(api.exportClasses) \subseteq T => kept \subseteq T

\* What is bridged is the least part of the specification that is closed.
FilterExact == FilterClosed /\ DescendantsKept /\ FilterLeast

\* Whatever the concrete type of a value of a kept abstract class, its class
\* is kept, so that its typeid has a Go type.
SubclassesKept ==
  pc # "filter" =>
    \A a \in DOMAIN spec.classes : \A d \in DOMAIN api.classes :
      api.classes[a].abstract /\ a \in Above(d, Bases) => d \in DOMAIN spec.classes
=============================================================================
