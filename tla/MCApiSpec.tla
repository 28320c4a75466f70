----------------------------- MODULE MCApiSpec -----------------------------
(***************************************************************************)
(* Headers for ApiSpec.  In the first family one class refers to a class,   *)
(* its nested types, an enum or a typedef of another header, in every way   *)
(* C++ allows; in the second classes are nested, defined out of line,       *)
(* private, or those of an external library.                                *)
(***************************************************************************)
EXTENDS ApiSpec

CONSTANT Lenient   \* what else to put into a header: see the README

Type(name, meant, shape) == [name |-> name, meant |-> meant, shape |-> shape, vector |-> FALSE, desugared |-> Absent]
Many(type) == [type EXCEPT !.vector = TRUE]
Number == Type(<<"int">>, Absent, "primitive")
Count == [Type(<<"Count">>, Absent, "value") EXCEPT !.desugared = "primitive"]

Class(name, ns, id, members) ==
  [node |-> "class", name |-> name, ns |-> ns, id |-> id, outer |-> Absent, complete |-> TRUE,
   access |-> "public", polymorphic |-> FALSE, defaultCtor |-> TRUE, bases |-> <<>>, members |-> members,
   is |-> Append(ns, name), open |-> TRUE]

Nested(class, access) ==
  [class EXCEPT !.access = access, !.open = access = "public"]

\* The declaration of a class, and its definition elsewhere, outside of the
\* class that declares it.
Declared(class) == [class EXCEPT !.complete = FALSE]
OutOfLine(class, outer, ns) == [class EXCEPT !.ns = ns, !.outer = outer, !.access = "public"]

Method(of, types) ==
  [node |-> "method", access |-> "public", deleted |-> FALSE, form |-> "method", types |-> types,
   virtual |-> FALSE, of |-> of]

Field(of, type, access) == [node |-> "field", access |-> access, type |-> type, of |-> of]
BaseClass(name, meant) == [name |-> name, meant |-> meant]
Enum(name, ns) == [node |-> "enum", name |-> name, ns |-> ns, access |-> "public"]
Alias(name, type) == [node |-> "alias", name |-> name, type |-> type]
Typedef(name, ns, type) == [node |-> "typedef", name |-> name, ns |-> ns, type |-> type]
Function(name, ns, signature, types) ==
  [node |-> "function", name |-> name, ns |-> ns, signature |-> signature, form |-> "plain", types |-> types]

Header(file, includes, declarations) == [file |-> file, includes |-> includes, declarations |-> declarations]

Project(headers, batches) == [headers |-> headers, batches |-> batches, allowed |-> {}, mangled |-> <<>>]
-----------------------------------------------------------------------------
(* n::Item with Item::Kind and Item::Part, n::Mode and n::Items in a.h;      *)
(* User in b.h, which includes a.h or only declares n::Item.                *)
N == <<"n">>
NIn == <<"n", "in">>
Item == <<"n", "Item">>
Kind == <<"n", "Item", "Kind">>
Part == <<"n", "Item", "Part">>
Mode == <<"n", "Mode">>

\* What Item consists of besides its nested types.
ItemMembers(variant) ==
  CASE variant = "plain" -> <<Field(Item, Number, "public")>>
    [] variant = "methods" -> <<Field(Item, Number, "public"), Method(Item, <<Number>>)>>
    [] variant = "opaque" -> <<Method(Item, <<Type(<<"Kind">>, Kind, "value")>>)>>
    [] variant = "hidden" -> <<Field(Item, Number, "public"), Field(Item, Number, "private"), Method(Item, <<Number>>)>>
    [] variant = "reference" -> <<Field(Item, Type(<<"Part">>, Part, "reference"), "public")>>
    [] variant = "unique" -> <<Field(Item, Type(<<"Part">>, Part, "unique"), "public")>>

AHeader(variant) ==
  Header("a.h", {},
    <<[Class("Item", N, 1,
         <<Enum("Kind", N), Nested([Class("Part", Item, 2, <<Field(Part, Number, "public")>>) EXCEPT !.is = Part], "public")>>
           \o ItemMembers(variant)) EXCEPT !.is = Item],
      Enum("Mode", N),
      Typedef("Items", N, Many(Type(<<"Item">>, Item, "value")))>>
      \o (IF "classTypedef" \in Lenient THEN <<Typedef("Thing", N, Type(<<"Item">>, Item, "value"))>> ELSE <<>>))

\* The types User may name if it only knows Item, if it knows all of a.h, and
\* if it derives from Item.
Declares == {Type(name, Item, shape) : name \in {<<"Item">>, Item}, shape \in {"pointer", "reference"}}

Includes ==
  {Type(<<"Item">>, Item, "value"), Many(Type(<<"Item">>, Item, "value")), Type(<<"Item">>, Item, "unique"),
   Type(<<"Items">>, Item, "reference"), Type(Mode, Mode, "value"), Type(<<"Mode">>, Mode, "value"), Many(Type(<<"Mode">>, Mode, "value")),
   Type(<<"Item", "Kind">>, Kind, "value"), Type(Part, Part, "pointer")}
  \cup {Type(<<"Item", "Part">>, Part, "reference") : l \in Lenient \cap {"partlyQualified"}}
  \cup {Type(<<"Thing">>, Item, "pointer") : l \in Lenient \cap {"classTypedef"}}

Derives == {Type(<<"Kind">>, Kind, "value"), Type(<<"Part">>, Part, "value")}

UserOf(ns, type, place, derived) ==
  LET qual == Append(ns, "User")
      \* An alias in the class, and a method that names the type by it.
      named == Type(<<"Own">>, type.meant, IF type.vector THEN "reference" ELSE "value")
      members == CASE place = "method" -> <<Method(qual, <<Number, type>>)>>
                   [] place = "field" -> <<Field(qual, type, "public")>>
                   [] place = "alias" -> <<Alias("Own", type), Method(qual, <<named>>)>>
                   [] place = "function" -> <<>>
  IN <<[Class("User", ns, 3, members) EXCEPT !.bases = IF derived THEN <<BaseClass(<<"Item">>, Item)>> ELSE <<>>]>>
       \o IF place = "function" THEN <<Function("use", ns, 1, <<type>>)>> ELSE <<>>

BHeader(ns, type, place, derived, includes) ==
  Header("b.h", IF includes THEN {"a.h"} ELSE {},
    (IF includes THEN <<>> ELSE <<Declared(Class("Item", N, 4, <<>>))>>) \o UserOf(ns, type, place, derived))

Together == <<{"a.h", "b.h"}>>
Batches == {Together, <<{"a.h"}, {"b.h"}>>, <<{"b.h"}, {"a.h"}>>}

\* A name of another batch is only found if it is in the namespace of User.
Guessable(ns, type, place, batches, includes) ==
  \/ "otherBatchName" \in Lenient
  \/ batches = Together
  \/ includes /\ type.meant = Item
  \/ /\ place # "alias"
     /\ \/ Len(type.name) = Len(type.meant)
        \/ ns = N /\ type.meant = Append(N, type.name[1])

Sensible(ns, type, place, derived, batches, includes) ==
  /\ Guessable(ns, type, place, batches, includes)
  /\ type.name = <<"Items">> => batches = Together \/ "elsewhereTypedef" \in Lenient
  /\ \/ place = "alias" => type.shape # "unique" /\ type.meant \in {Item, Part} /\ type.name # <<"Items">>
     \/ "aliasOther" \in Lenient
  /\ derived => includes /\ place = "method"
  /\ type \in Derives => derived
  /\ type \in Includes => includes

ReferenceProjects ==
  UNION {
    {Project(<<AHeader(variant), BHeader(ns, type, place, derived, includes)>>, batches) :
       batches \in {x \in Batches : Sensible(ns, type, place, derived, x, includes)},
       variant \in IF type.meant = Item THEN {"plain", "methods", "opaque", "hidden", "reference", "unique"} ELSE {"opaque"}} :
    ns \in {N, NIn}, type \in Declares \cup Includes \cup Derives, place \in {"method", "field", "alias", "function"},
    derived \in BOOLEAN, includes \in BOOLEAN}
-----------------------------------------------------------------------------
(* n::Own with a nested class Part, and the library x of x.h, of which Own   *)
(* may derive.                                                              *)
Own == <<"n", "Own">>
OwnPart == Append(Own, "Part")
Base == <<"x", "Base">>
Leaf == <<"x", "Leaf">>

XHeader ==
  Header("x.h", {},
    <<Class("Root", <<"x">>, 11, <<Field(<<"x", "Root">>, Number, "public")>>),
      [Class("Base", <<"x">>, 12,
         IF "externalNested" \in Lenient
         THEN <<Nested([Class("Inner", Base, 14, <<>>) EXCEPT !.is = Append(Base, "Inner")], "public")>> ELSE <<>>)
         EXCEPT !.bases = <<BaseClass(<<"Root">>, <<"x", "Root">>)>>],
      [Class("Leaf", <<"x">>, 13, <<>>) EXCEPT !.bases = <<BaseClass(Base, Base)>>],
      Enum("Level", <<"x">>),
      Function("helper", <<"x">>, 1, <<Type(<<"Base">>, Base, "pointer")>>)>>)

\* Objects with hidden state.
Stateful(qual) == <<Field(qual, Number, "public"), Field(qual, Number, "private"), Method(qual, <<Number>>)>>

PartClass(members) == [Class("Part", Own, 21, Stateful(OwnPart) \o members) EXCEPT !.is = OwnPart]

\* How Part is declared: within Own, the definition within or out of it, before
\* or after it.
Parts ==
  {[in |-> <<>>, before |-> <<>>, after |-> <<>>]}
  \cup {[in |-> <<Nested(PartClass(<<>>), access)>>, before |-> <<>>, after |-> <<>>] : access \in {"public", "private"}}
  \cup {[in |-> <<Declared(Nested(PartClass(<<>>), "public"))>>, before |-> <<>>,
          after |-> <<OutOfLine(PartClass(<<>>), 20, N)>>]}
  \cup {[in |-> <<>>, before |-> <<OutOfLine(PartClass(<<>>), 20, N)>>, after |-> <<>>]}
  \cup {[in |-> <<>>, before |-> <<Class("Part", N, 24, <<>>), OutOfLine(PartClass(<<>>), 20, N)>>, after |-> <<>>] :
          l \in Lenient \cap {"latePart"}}
  \cup {[in |-> <<Declared(Nested(PartClass(<<>>), "private"))>>, before |-> <<>>,
          after |-> <<[OutOfLine(PartClass(<<>>), 20, N) EXCEPT !.open = FALSE]>>] : l \in Lenient \cap {"privateOutOfLine"}}
  \cup {[in |-> <<Nested(PartClass(<<[Class("Deep", OwnPart, 22, <<>>) EXCEPT !.open = FALSE]>>), "private")>>,
          before |-> <<>>, after |-> <<>>] : l \in Lenient \cap {"privateDeep"}}

Constructor(types) == [Method(Own, types) EXCEPT !.form = "constructor"]
Virtual == [Method(Own, <<Type(<<"Own", "Kind">>, <<"n", "Own_Kind">>, "value")>>) EXCEPT !.virtual = TRUE]

\* What else Own has: constructors, a destructor, deleted and hidden ones.
OwnMembers ==
  {<<>>, <<Constructor(<<Type(<<"Own">>, Own, "reference")>>), Virtual>>,
   <<[Constructor(<<>>) EXCEPT !.access = "private"], Constructor(<<Type(<<"Own">>, Own, "rvalue")>>), Constructor(<<Count>>)>>,
   <<[Method(Own, <<Count>>) EXCEPT !.deleted = TRUE], [Method(Own, <<>>) EXCEPT !.form = "destructor", !.access = "private"]>>}

OwnHeader(part, base, methods, functions) ==
  Header("a.h", {"x.h"},
    part.before
      \o <<Enum("Own_Kind", N),
           Declared(Class("Own", N, 23, <<>>)),
           [Class("Own", N, 20, part.in \o methods) EXCEPT
              !.bases = base, !.polymorphic = ToSet(methods) \cap {Virtual} # {}]>>
      \o part.after
      \o <<[Function("hidden", N, 1, <<>>) EXCEPT !.form = "static"], [Function("use", N, 3, <<Count>>) EXCEPT !.form = "template"]>>
      \o functions)

\* Another class with a Part of its own, and an overload of the function.
OtherHeader(overload) ==
  LET qual == <<"n", "Other">>
      part == Append(qual, "Part")
  IN Header("b.h", {"x.h"},
       <<[Class("Other", N, 30,
            <<Nested([Class("Part", qual, 31, Stateful(part)) EXCEPT !.is = part], "public"),
              Method(qual, <<Type(<<"Part">>, part, "value")>>)>>) EXCEPT !.bases = <<BaseClass(Leaf, Leaf)>>],
         Function("use", NIn, 1, <<Number>>)>>
         \o overload)

Overloads ==
  {<<>>} \cup {<<Function("use", N, 2, <<Number>>)>> : l \in Lenient \cap {"overloads"}}

ClassProjects ==
  {[Project(<<XHeader, OwnHeader(part, base, methods, <<Function("use", N, 1, <<Type(<<"Own">>, Own, "pointer")>>)>>), OtherHeader(overload)>>,
            batches) EXCEPT
      !.allowed = allowed, !.mangled = "Own_Kind" :> <<"Own", "Kind">>] :
     part \in Parts, base \in {<<>>, <<BaseClass(Base, Base)>>}, methods \in OwnMembers, overload \in Overloads,
     batches \in Batches \cup {<<{"a.h"}>>}, allowed \in {{}, {Base}, {Leaf}, {<<"Base">>}}}

MCProjects == ReferenceProjects \cup ClassProjects
=============================================================================
