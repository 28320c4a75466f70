------------------------------ MODULE ApiSpec ------------------------------
(***************************************************************************)
(* How parse-headers makes api-spec.json of the clang ASTs of the umbrella  *)
(* headers (internal/apispec/clangast/parser.go; cmd/wasmify/main.go,       *)
(* cmdParseHeaders and mergeAPISpec).  Every batch of headers is parsed on  *)
(* its own: one walk over the declarations, top to bottom, and passes that  *)
(* repair what the walk could not know.  The batches are then merged and    *)
(* three of the passes run again.                                           *)
(*                                                                          *)
(* A name is a sequence of words.  A type is written by its name, by how it *)
(* is passed (shape: "value", "pointer", "reference", "unique" for          *)
(* unique_ptr<...>, "primitive") and whether it is the element of a vector. *)
(* What C++ means by it, by a class or by its access is ghost data of the   *)
(* input (meant, is, open): the parser does not read it.                    *)
(***************************************************************************)
EXTENDS Naturals, SequencesExt, TLC

CONSTANTS Projects,   \* what is parsed; a project has
                      \*   headers   a sequence of files with the files they
                      \*             include and their declarations
                      \*   batches   the umbrella headers, as sets of files
                      \*   allowed   bridge.ExternalTypes
                      \*   mangled   enum names Enums_ aliases stand for
          Absent

VARIABLES
  source,     \* the project
  batch,      \* the number of the batch that is parsed
  nodes,      \* the AST nodes the walk has still to visit, with their scopes
  parser,     \* the Parser
  committed,  \* p.spec: the API specification of the batch
  merged,     \* the API specification of the project
  phase

vars == <<source, batch, nodes, parser, committed, merged, phase>>

EmptySpec == [classes |-> <<>>, functions |-> <<>>, enums |-> <<>>]

\* cmdParseHeaders reads one header without batches, ExternalTypes and merge.
IsSingle == Cardinality(UNION ToSet(source.batches)) = 1

Allowed == IF IsSingle THEN {} ELSE source.allowed

NewParser ==
  [classes |-> <<>>, ids |-> <<>>, classParentIDs |-> <<>>, classAliases |-> <<>>,
   globalAliases |-> <<>>, allowed |-> Allowed]

\* The headers clang sees: those of the batch and what they include.
Seen(b) ==
  SelectSeq(source.headers,
            LAMBDA h : \E g \in ToSet(source.headers) :
                          g.file \in source.batches[b] /\ h.file \in g.includes \cup {g.file})

TranslationUnit(b) ==
  FlattenSeq([i \in DOMAIN Seen(b) |->
    LET h == Seen(b)[i] IN
    [j \in DOMAIN h.declarations |->
       [node |-> h.declarations[j], scope |-> h.declarations[j].ns, file |-> h.file]]])

\* The end of a path is compared, and nothing is the end of every path: a class
\* without a source file matches.
matchesHeaderFile(file, header) == file \in {header, Absent}

matchesTarget(file) == \E header \in source.batches[batch] : matchesHeaderFile(file, header)

qualNameAllowed(name) == name \in parser.allowed \/ <<Last(name)>> \in parser.allowed

InTarget(entry) ==
  matchesTarget(entry.file) \/ qualNameAllowed(Append(entry.scope, entry.node.name))

classifyType(type) ==
  [name |-> type.name, spelled |-> type.name, shape |-> type.shape, vector |-> type.vector,
   meant |-> type.meant,
   kind |-> CASE type.shape = "primitive" -> "primitive" [] type.shape = "value" -> "value" [] OTHER -> "handle"]

IsClassLike(ref) == ref.kind \in {"handle", "value"}

\* clang says what a typedef comes to; it counts if that is a number.
classifyTypeFromNode(type) ==
  LET ref == classifyType(type)
  IN IF IsClassLike(ref) /\ type.desugared = "primitive" THEN [ref EXCEPT !.kind = "primitive", !.name = <<"int">>] ELSE ref

parseFunction(node, ns) ==
  [qual |-> Append(ns, node.name), ns |-> ns, signature |-> node.signature,
   refs |-> [i \in DOMAIN node.types |-> classifyTypeFromNode(node.types[i])]]

parseFunctionAsMethod(node) ==
  [virtual |-> node.virtual, of |-> node.of,
   refs |-> [i \in DOMAIN node.types |-> classifyTypeFromNode(node.types[i])]]

\* What a constructor of this class is for, by its parameters.
constructorKind(types, class) ==
  CASE types = <<>> -> "default"
    [] Len(types) = 1 /\ types[1].shape = "rvalue" -> "move"
    [] Len(types) = 1 /\ types[1].shape = "reference" /\ Last(types[1].name) = class -> "copy"
    [] OTHER -> "other"

\* The scopes a name is looked for in, from the inside out.
Scopes(ns) == [i \in 1..Len(ns) |-> SubSeq(ns, 1, Len(ns) + 1 - i)]

\* The first of the names that is in the set, as a sequence of at most one.
FirstIn(names, set) ==
  LET found == SelectSeq(names, LAMBDA n : n \in set) IN SubSeq(found, 1, IF found = <<>> THEN 0 ELSE 1)

resolveQualName(name, ns) ==
  IF name \in DOMAIN parser.classes \/ Len(name) > 1 THEN name
  ELSE LET names == [i \in DOMAIN Scopes(ns) |-> Scopes(ns)[i] \o name]
       IN FlattenSeq(FirstIn(Append(names, name), DOMAIN parser.classes \cup {name}))

\* The classes with this last word.
WithShortName(word, classes) == {q \in DOMAIN classes : Last(q) = word}

\* f is applied to every reference with the namespace and the class it is in.
OverReferences(spec, f(_, _, _)) ==
  [spec EXCEPT
    !.functions = [i \in DOMAIN @ |->
      LET fn == @[i] IN [fn EXCEPT !.refs = [j \in DOMAIN @ |-> f(@[j], fn.ns, <<>>)]]],
    !.classes = [q \in DOMAIN @ |->
      LET c == @[q] IN
      [c EXCEPT !.methods = [i \in DOMAIN @ |-> [@[i] EXCEPT !.refs = [j \in DOMAIN @ |-> f(@[j], c.ns, c.qual)]]],
                !.fields = [i \in DOMAIN @ |-> [@[i] EXCEPT !.ref = f(@, c.ns, c.qual)]]]]]
-----------------------------------------------------------------------------
(***************************************************************************)
(* The walk.                                                                *)
(***************************************************************************)
InitApiSpec ==
  /\ source \in Projects
  /\ batch = 1
  /\ nodes = TranslationUnit(1)
  /\ parser = NewParser
  /\ committed = EmptySpec
  /\ merged = EmptySpec
  /\ phase = "walk"

Visiting(kind) == phase = "walk" /\ nodes # <<>> /\ Head(nodes).node.node = kind

Current == Head(nodes).node
Scope == Head(nodes).scope

Visited == nodes' = Tail(nodes) /\ UNCHANGED <<source, batch, merged, phase>>

\* Static functions and template specialisations are left out.
VisitFunction ==
  /\ Visiting("function")
  /\ Visited
  /\ committed' =
       IF InTarget(Head(nodes)) /\ Current.form = "plain"
       THEN [committed EXCEPT !.functions = Append(@, parseFunction(Current, Scope))]
       ELSE committed
  /\ UNCHANGED parser

\* A member enum is recorded when it is public, whatever its class.
VisitEnum ==
  /\ Visiting("enum")
  /\ Visited
  /\ committed' =
       IF Current.access = "public" /\ (Head(nodes).file = Absent \/ InTarget(Head(nodes)))
       THEN [committed EXCEPT !.enums = Append(@, Append(Scope, Current.name))]
       ELSE committed
  /\ UNCHANGED parser

\* A typedef in a namespace.  The bare name stands for the first of its name.
VisitTypedef ==
  /\ Visiting("typedef")
  /\ Visited
  /\ parser' =
       IF InTarget(Head(nodes))
       THEN LET info == [type |-> Current.type, ns |-> Scope]
            IN [parser EXCEPT !.globalAliases = ((Append(Scope, Current.name) :> info) @@ @) @@ (<<Current.name>> :> info)]
       ELSE parser
  /\ UNCHANGED committed

\* The class an out-of-line definition belongs to, if it is known by now.
Enclosing ==
  IF Current.outer \in DOMAIN parser.ids THEN parser.ids[Current.outer] ELSE Scope

Registered(qual) ==
  [parser EXCEPT
    !.ids = (Current.id :> qual) @@ @,
    !.classParentIDs = IF Current.outer \in DOMAIN parser.ids \cup {Absent} THEN @ ELSE (qual :> Current.outer) @@ @]

\* walk: a class found under the name it has in the walk gets the source file.
WithSource(classes, qual, file) ==
  IF qual \in DOMAIN classes /\ classes[qual].source = Absent
  THEN [classes EXCEPT ![qual].source = file] ELSE classes

VisitForwardDeclaration ==
  /\ Visiting("class")
  /\ ~Current.complete
  /\ Visited
  /\ parser' = [Registered(Append(Enclosing, Current.name)) EXCEPT
                  !.classes = WithSource(@, Append(Scope, Current.name), Head(nodes).file)]
  /\ UNCHANGED committed

NewClass(qual, ns) ==
  [name |-> Last(qual), ns |-> ns, qual |-> qual, parents |-> <<>>, methods |-> <<>>, fields |-> <<>>,
   handle |-> FALSE, hidden |-> FALSE, source |-> Absent,
   HasPublicDefaultCtor |-> FALSE, HasDeletedCopyCtor |-> FALSE, HasPublicDtor |-> FALSE]

\* The members are visited next, and then the class is left.
EnterClass ==
  /\ Visiting("class")
  /\ Current.complete
  /\ LET ns == Enclosing
         qual == Append(ns, Current.name)
         exists == qual \in DOMAIN parser.classes
         class == IF exists THEN parser.classes[qual] ELSE NewClass(qual, ns)
         bases == [i \in DOMAIN Current.bases |-> resolveQualName(Current.bases[i].name, ns)]
         leave == [node |-> "leave", named |-> Append(Scope, Current.name),
                   dropped |-> Current.access # "public" /\ ~exists]
     IN /\ parser' = [Registered(qual) EXCEPT
                        !.classes = (qual :> [class EXCEPT
                           !.parents = @ \o bases, !.HasPublicDefaultCtor = Current.defaultCtor, !.HasPublicDtor = TRUE,
                           !.handle = @ \/ Current.polymorphic \/ bases # <<>>]) @@ @]
        /\ nodes' = [i \in DOMAIN Current.members |-> [node |-> Current.members[i], scope |-> qual, file |-> Absent]]
                      \o <<[node |-> leave, scope |-> qual, file |-> Head(nodes).file]>> \o Tail(nodes)
  /\ UNCHANGED <<source, batch, committed, merged, phase>>

InClass == parser.classes[Scope]

\* A method, a constructor or the destructor.  Copies, moves and deleted
\* constructors are not called through the bridge.
VisitMethod ==
  /\ Visiting("method")
  /\ Visited
  /\ LET form == IF Current.form = "constructor" THEN constructorKind(Current.types, Last(Scope)) ELSE Current.form
         callable == Current.access = "public" /\ ~Current.deleted
         kept == IF form = "method" THEN Current.access = "public" ELSE callable /\ form \in {"default", "other"}
     IN parser' = [parser EXCEPT
          !.classes[Scope] = [@ EXCEPT
            !.HasPublicDefaultCtor = IF form = "default" THEN callable ELSE @,
            !.HasDeletedCopyCtor = @ \/ (form = "copy" /\ Current.deleted),
            !.HasPublicDtor = @ /\ (form = "destructor" => callable),
            !.methods = IF kept THEN Append(@, parseFunctionAsMethod(Current)) ELSE @]]
  /\ UNCHANGED committed

VisitField ==
  /\ Visiting("field")
  /\ Visited
  /\ parser' =
       IF Current.access = "public"
       THEN [parser EXCEPT !.classes[Scope].fields = Append(@, [ref |-> classifyTypeFromNode(Current.type), of |-> Current.of])]
       ELSE [parser EXCEPT !.classes[Scope].hidden = TRUE]
  /\ UNCHANGED committed

VisitAlias ==
  /\ Visiting("alias")
  /\ Visited
  /\ parser' = [parser EXCEPT !.classAliases =
                  (Scope :> ((Current.name :> Current.type) @@ (IF Scope \in DOMAIN @ THEN @[Scope] ELSE <<>>))) @@ @]
  /\ UNCHANGED committed

\* The class an alias of a class stands for: one of that name, or the only one
\* with that short name, or else the alias itself.
AliasedClass(name, alias) ==
  LET candidates == IF Len(name) = 1 THEN WithShortName(name[1], parser.classes) ELSE {}
  IN IF name \in DOMAIN parser.classes THEN name
     ELSE IF \E q \in candidates : candidates = {q} THEN CHOOSE q \in candidates : TRUE
     ELSE alias

Passed(ref, type) == IF ref.shape = "value" THEN type.shape ELSE ref.shape

\* An alias of the class qual is put in its place, unless that makes a template
\* of templates.  An alias of a unique_ptr keeps its own name.
Unaliased(ref, qual) ==
  LET aliases == parser.classAliases[qual]
      type == aliases[ref.name[1]]
      template == type.vector \/ type.shape = "unique"
      alias == Append(qual, ref.name[1])
      target == CASE type.vector -> type.name [] type.shape = "unique" -> alias [] OTHER -> AliasedClass(type.name, alias)
  IN IF /\ IsClassLike(ref)
        /\ Len(ref.name) = 1 /\ ref.name[1] \in DOMAIN aliases
        /\ ~(ref.vector /\ template)
     THEN [classifyType(type) EXCEPT !.name = target, !.spelled = target, !.meant = ref.meant,
             !.vector = type.vector \/ ref.vector,
             !.shape = CASE type.vector -> @ [] type.shape = "unique" -> ref.shape [] OTHER -> Passed(ref, type)]
     ELSE ref

substitute(ref, qual) ==
  LET once == Unaliased(ref, qual)
  IN IF once.vector /\ ~ref.vector THEN Unaliased(once, qual) ELSE once

LeaveClass ==
  /\ Visiting("leave")
  /\ Visited
  /\ LET one == [EmptySpec EXCEPT !.classes = Scope :> InClass]
         plain == IF Scope \in DOMAIN parser.classAliases
                  THEN OverReferences(one, LAMBDA ref, ns, qual : substitute(ref, Scope)).classes[Scope]
                  ELSE InClass
         class == [plain EXCEPT !.handle = @ \/ \E i \in DOMAIN plain.methods : plain.methods[i].virtual]
         classes == (Scope :> class) @@ parser.classes
     IN parser' = [parser EXCEPT !.classes =
                     IF Current.dropped THEN [q \in DOMAIN classes \ {Scope} |-> classes[q]]
                     ELSE WithSource(classes, Current.named, Head(nodes).file)]
  /\ UNCHANGED committed

EndWalk ==
  /\ phase = "walk" /\ nodes = <<>>
  /\ phase' = "fixup"
  /\ UNCHANGED <<source, batch, nodes, parser, committed, merged>>
-----------------------------------------------------------------------------
(***************************************************************************)
(* The passes over a batch.                                                 *)
(***************************************************************************)
Resolvable == {q \in DOMAIN parser.classParentIDs : parser.classParentIDs[q] \in DOMAIN parser.ids}

\* One definition whose outer class came after it; the map has no order.
fixupNestedClassQualNames ==
  /\ phase = "fixup"
  /\ \E q \in Resolvable :
       LET outer == parser.ids[parser.classParentIDs[q]]
           new == Append(outer, Last(q))
           rest == [d \in DOMAIN parser.classParentIDs \ {q} |-> parser.classParentIDs[d]]
       IN parser' =
            IF q \in DOMAIN parser.classes /\ new \notin DOMAIN parser.classes
            THEN [parser EXCEPT
                    !.classParentIDs = rest,
                    !.classes = (new :> [@[q] EXCEPT !.ns = outer, !.qual = new])
                                  @@ [d \in DOMAIN @ \ {q} |-> @[d]],
                    !.ids = [i \in DOMAIN @ |-> IF @[i] = q THEN new ELSE @[i]]]
            ELSE [parser EXCEPT !.classParentIDs = rest]
  /\ UNCHANGED <<source, batch, nodes, committed, merged, phase>>

\* postProcessTypedefAliases: the class a word of a typedef stands for.
QualifiedIn(name, ns) ==
  LET candidates == WithShortName(name[1], parser.classes)
  IN IF Len(name) > 1 THEN name
     ELSE IF ns # <<>> /\ ns \o name \in DOMAIN parser.classes THEN ns \o name
     ELSE IF \E q \in candidates : candidates = {q} THEN CHOOSE q \in candidates : TRUE
     ELSE name

Expanded(ref) ==
  LET info == parser.globalAliases[ref.name]
      target == QualifiedIn(info.type.name, info.ns)
  IN IF ref.name \in DOMAIN parser.globalAliases
     THEN [classifyType(info.type) EXCEPT
             !.name = target,
             !.spelled = IF info.type.vector THEN target ELSE ref.spelled,
             !.shape = IF info.type.vector THEN @ ELSE Passed(ref, info.type),
             !.vector = ref.vector \/ info.type.vector, !.meant = ref.meant]
     ELSE ref

postProcessTypedefAliases ==
  /\ phase = "fixup" /\ Resolvable = {}
  /\ phase' = "expand"
  /\ LET expanded == OverReferences([committed EXCEPT !.classes = parser.classes],
                                    LAMBDA ref, ns, qual :
                                      IF Expanded(ref).vector /\ ~ref.vector THEN Expanded(Expanded(ref)) ELSE Expanded(ref))
     IN /\ parser' = [parser EXCEPT !.classes = expanded.classes]
        /\ committed' = [committed EXCEPT !.functions = expanded.functions]
  /\ UNCHANGED <<source, batch, nodes, merged>>

IsAdmitted(q) == matchesTarget(parser.classes[q].source) \/ q \in parser.allowed

\* Mutant: only the bases of the project's own classes are admitted.
PromotableDirect ==
  {b \in DOMAIN parser.classes :
     /\ Allowed # {} /\ ~IsAdmitted(b)
     /\ \E q \in DOMAIN parser.classes : matchesTarget(parser.classes[q].source) /\ b \in ToSet(parser.classes[q].parents)}

\* The external bases of admitted classes that are not admitted yet, if there
\* is an ExternalTypes entry at all.
Promotable ==
  {b \in DOMAIN parser.classes :
     /\ Allowed # {}
     /\ ~IsAdmitted(b)
     /\ \E q \in DOMAIN parser.classes : IsAdmitted(q) /\ b \in ToSet(parser.classes[q].parents)}

expandAllowedExternalClassesTransitively ==
  /\ phase = "expand"
  /\ Promotable # {}
  /\ \E b \in Promotable : parser' = [parser EXCEPT !.allowed = @ \cup {b}]
  /\ UNCHANGED <<source, batch, nodes, committed, merged, phase>>

Commit ==
  /\ phase = "expand"
  /\ Promotable = {}
  /\ committed' = [committed EXCEPT !.classes = [q \in {c \in DOMAIN parser.classes : IsAdmitted(c)} |-> parser.classes[q]]]
  /\ phase' = "names"
  /\ UNCHANGED <<source, batch, nodes, parser, merged>>

\* A class and its bases, depth first.
RECURSIVE Lineage(_, _)
Lineage(q, classes) ==
  IF q \in DOMAIN classes
  THEN <<q>> \o FlattenSeq([i \in DOMAIN classes[q].parents |-> Lineage(classes[q].parents[i], classes)])
  ELSE <<q>>

\* Mutant: a name is not looked for in the bases of the class.
lookupUnqualifiedAlone(name, ns, qual, known, classes) ==
  FirstIn([i \in DOMAIN Scopes(qual) |-> Scopes(qual)[i] \o name] \o [i \in DOMAIN Scopes(ns) |-> Scopes(ns)[i] \o name] \o <<name>>, known)

\* C++'s rules for a name without a scope: the class and its bases, then the
\* namespaces from the inside out, then the global scope.
lookupUnqualified(name, ns, qual, known, classes) ==
  LET scopes == (IF qual = <<>> THEN <<>> ELSE Lineage(qual, classes)) \o Scopes(ns)
  IN FirstIn(Append([i \in DOMAIN scopes |-> scopes[i] \o name], name), known)

replaceBareIdent(ref, name) == [ref EXCEPT !.name = name, !.spelled = name]

\* A unique_ptr<...> is no single identifier.
bareTypeName(ref) == IF ref.shape = "unique" THEN <<>> ELSE ref.spelled

\* A name that is found nowhere is taken to be in the enclosing namespace.
qualifyTypeRef(ref, ns, qual, known, classes) ==
  LET bare == bareTypeName(ref)
      found == lookupUnqualified(bare, ns, qual, known, classes)
      name == IF found = <<>> THEN ns \o bare ELSE found[1]
  IN IF ~IsClassLike(ref) \/ Len(bare) # 1 \/ name = bare THEN ref ELSE replaceBareIdent(ref, name)

Qualified(spec, classes) ==
  LET known == DOMAIN classes \cup ToSet(spec.enums)
  IN OverReferences(spec, LAMBDA ref, ns, qual : qualifyTypeRef(ref, ns, qual, known, classes))

\* Mutant: the names are left to the passes over the merged specification.
QualifyLater ==
  /\ phase = "names"
  /\ phase' = "enums"
  /\ UNCHANGED <<source, batch, nodes, parser, committed, merged>>

postProcessQualifyShortNames ==
  /\ phase = "names"
  /\ committed' = Qualified(committed, parser.classes)
  /\ phase' = "enums"
  /\ UNCHANGED <<source, batch, nodes, parser, merged>>
-----------------------------------------------------------------------------
\* addEnumAliases: without the first namespace, and for a mangled name
\* XEnums_Y the nested X::Y.
EnumAliases(q) ==
  LET nested == IF Last(q) \in DOMAIN source.mangled THEN {Front(q) \o source.mangled[Last(q)]} ELSE {}
  IN {q} \cup nested \cup {Tail(n) : n \in {m \in {q} \cup nested : Len(m) > 2}}

EnumNames(spec) == UNION {EnumAliases(q) : q \in ToSet(spec.enums)}

\* nestedToQualified: the names this one is the end of; the map has no order.
LongerNames(name, spec) == {q \in EnumNames(spec) : q # name /\ Len(q) > Len(name) /\ IsSuffix(name, q)}

\* The enum a word stands for, if it is the only one with that short name, none
\* has a mangled name that ends in it, and no class has it.
EnumsCalled(name, spec) ==
  LET called == {q \in ToSet(spec.enums) : <<Last(q)>> = name}
      clashing == {q \in ToSet(spec.enums) : Last(q) \in DOMAIN source.mangled /\ <<Last(source.mangled[Last(q)])>> = name}
  IN IF \/ Cardinality(called) # 1 \/ clashing # {}
        \/ \E q \in DOMAIN spec.classes : <<Last(q)>> = name
     THEN {} ELSE called

\* reclassify; full is the choice of the longer names.
EnumReference(ref, spec, promote, full) ==
  LET Named(r) == IF r.kind = "enum" /\ Len(r.name) > 1 /\ r.name \in DOMAIN full THEN [r EXCEPT !.name = full[@]] ELSE r
      called == EnumsCalled(ref.name, spec)
  IN IF IsClassLike(ref) /\ ref.name \in EnumNames(spec)
     THEN Named([ref EXCEPT !.kind = "enum", !.name = IF @ \in DOMAIN full THEN full[@] ELSE @])
     ELSE IF promote /\ Len(ref.name) = 1 /\ (IsClassLike(ref) \/ ref.kind = "enum") /\ called # {}
     THEN [ref EXCEPT !.kind = "enum", !.name = CHOOSE q \in called : TRUE]
     ELSE Named(ref)

EnumsClassified(spec, promote, full) ==
  OverReferences(spec, LAMBDA ref, ns, qual : EnumReference(ref, spec, promote, full))

LongerChoices(spec) ==
  LET names == {n \in EnumNames(spec) : LongerNames(n, spec) # {}}
  IN {full \in [names -> EnumNames(spec)] : \A n \in names : full[n] \in LongerNames(n, spec)}

postProcessEnumTypes ==
  /\ phase = "enums"
  /\ \E full \in LongerChoices(committed) : committed' = EnumsClassified(committed, FALSE, full)
  /\ phase' = "handles"
  /\ UNCHANGED <<source, batch, nodes, parser, merged>>

\* Mutant: private fields do not count if there is a public one.
IsPromotedUnlessPublic(c) ==
  \/ \E i \in DOMAIN c.fields : c.fields[i].ref.shape \in {"reference", "unique"}
  \/ c.methods # <<>> /\ c.fields = <<>>

\* What a copy of the fields cannot stand for.
IsPromoted(c) ==
  \/ \E i \in DOMAIN c.fields : c.fields[i].ref.shape \in {"reference", "unique"}
  \/ c.methods # <<>> /\ (c.fields = <<>> \/ c.hidden)

HandlesPromoted(spec) ==
  LET promoted == {q \in DOMAIN spec.classes : IsPromoted(spec.classes[q])}
      Promotes(name) == \/ name \in promoted
                        \/ Len(name) = 1 /\ Cardinality({q \in promoted : Last(q) = name[1]}) = 1
      lifted == OverReferences(spec, LAMBDA ref, ns, qual :
                  IF ref.kind = "value" /\ Promotes(ref.name) THEN [ref EXCEPT !.kind = "handle"] ELSE ref)
  IN [lifted EXCEPT !.classes = [q \in DOMAIN @ |-> [@[q] EXCEPT !.handle = @ \/ q \in promoted]]]

postProcessHandleClasses ==
  /\ phase = "handles"
  /\ committed' = HandlesPromoted(committed)
  /\ phase' = "merge"
  /\ UNCHANGED <<source, batch, nodes, parser, merged>>
-----------------------------------------------------------------------------
(***************************************************************************)
(* cmdParseHeaders: the batches are merged and the passes run again.  A     *)
(* single header is its own specification.                                  *)
(***************************************************************************)
FirstOfEach(seq, Key(_)) ==
  LET firsts == {i \in DOMAIN seq : \A j \in 1..(i - 1) : Key(seq[j]) # Key(seq[i])}
      order == SetToSortSeq(firsts, <)
  IN [i \in DOMAIN order |-> seq[order[i]]]

\* Mutant: functions are told apart by their name without the namespace.
mergeByName(dst, src) ==
  [functions |-> FirstOfEach(dst.functions \o src.functions, LAMBDA f : Last(f.qual)),
   classes |-> dst.classes @@ src.classes,
   enums |-> FirstOfEach(dst.enums \o src.enums, LAMBDA q : q)]

mergeAPISpec(dst, src) ==
  [functions |-> FirstOfEach(dst.functions \o src.functions, LAMBDA f : f.qual),
   classes |-> dst.classes @@ src.classes,
   enums |-> FirstOfEach(dst.enums \o src.enums, LAMBDA q : q)]

SaveSingle ==
  /\ phase = "merge"
  /\ IsSingle
  /\ merged' = committed
  /\ phase' = "saved"
  /\ UNCHANGED <<source, batch, nodes, parser, committed>>

MergeBatch ==
  /\ phase = "merge"
  /\ ~IsSingle
  /\ merged' = mergeAPISpec(merged, committed)
  /\ IF batch < Len(source.batches)
     THEN /\ batch' = batch + 1
          /\ nodes' = TranslationUnit(batch + 1)
          /\ parser' = NewParser
          /\ committed' = EmptySpec
          /\ phase' = "walk"
     ELSE phase' = "mergedEnums" /\ UNCHANGED <<batch, nodes, parser, committed>>
  /\ UNCHANGED source

PostProcessEnumTypes ==
  /\ phase = "mergedEnums"
  /\ \E full \in LongerChoices(merged) : merged' = EnumsClassified(merged, TRUE, full)
  /\ phase' = "mergedHandles"
  /\ UNCHANGED <<source, batch, nodes, parser, committed>>

PostProcessHandleClasses ==
  /\ phase = "mergedHandles"
  /\ merged' = HandlesPromoted(merged)
  /\ phase' = "mergedNames"
  /\ UNCHANGED <<source, batch, nodes, parser, committed>>

PostProcessQualifyShortNames ==
  /\ phase = "mergedNames"
  /\ merged' = Qualified(merged, merged.classes)
  /\ phase' = "saved"
  /\ UNCHANGED <<source, batch, nodes, parser, committed>>

NextApiSpec ==
  \/ VisitFunction \/ VisitEnum \/ VisitTypedef \/ VisitForwardDeclaration
  \/ EnterClass \/ VisitMethod \/ VisitField \/ VisitAlias \/ LeaveClass \/ EndWalk
  \/ fixupNestedClassQualNames \/ postProcessTypedefAliases
  \/ expandAllowedExternalClassesTransitively \/ Commit
  \/ postProcessQualifyShortNames \/ postProcessEnumTypes \/ postProcessHandleClasses
  \/ SaveSingle \/ MergeBatch
  \/ PostProcessEnumTypes \/ PostProcessHandleClasses \/ PostProcessQualifyShortNames

SpecApiSpec == InitApiSpec /\ [][NextApiSpec]_vars
-----------------------------------------------------------------------------
(***************************************************************************)
(* Properties.                                                              *)
(***************************************************************************)
RECURSIVE WithNested(_)
WithNested(class) ==
  {class} \cup UNION {WithNested(class.members[i]) : i \in {j \in DOMAIN class.members : class.members[j].node = "class"}}

\* The class definitions in a file of these.
Definitions(files) ==
  LET declared == UNION {ToSet(h.declarations) : h \in {g \in ToSet(source.headers) : g.file \in files}}
  IN {c \in UNION {WithNested(d) : d \in {e \in declared : e.node = "class"}} : c.complete}

Targets == UNION ToSet(source.batches)

Published == {c.is : c \in {d \in Definitions(Targets) : d.open}}

External == {c \in Definitions({h.file : h \in ToSet(source.headers)} \ Targets) : c.open}

\* The external classes ExternalTypes asks for, with all their bases, and with
\* them the external bases of the project's own classes.
Wanted ==
  LET Bases(S) == {b.meant : b \in UNION {ToSet(c.bases) : c \in {d \in External \cup Definitions(Targets) : d.is \in S}}}
      Up(S) == S \cup {c.is : c \in {d \in External : d.is \in Bases(S)}}
      start == Published \cup {c.is : c \in {d \in External : d.is \in Allowed}}
  IN IF Allowed = {} THEN Published ELSE Up(Up(Up(start)))

\* api-spec.json has the classes a user of the headers can name, however they
\* are nested and wherever they are defined, and with an admitted external
\* class its whole chain of bases - and no other class.
ClassesCommitted == phase = "saved" => DOMAIN merged.classes = Wanted

\* Every class has its own members, all the public ones, and every function is
\* there, overloads included.
MembersKept ==
  phase = "saved" =>
    /\ \A c \in {d \in Definitions(Targets) : d.is \in DOMAIN merged.classes} :
         LET class == merged.classes[c.is] IN
         /\ \A i \in DOMAIN class.methods : class.methods[i].of = c.is
         /\ \A i \in DOMAIN class.fields : class.fields[i].of = c.is
         /\ Len(class.fields) = Cardinality({i \in DOMAIN c.members : c.members[i].node = "field" /\ c.members[i].access = "public"})
    /\ \A h \in {g \in ToSet(source.headers) : g.file \in Targets} :
         \A d \in {e \in ToSet(h.declarations) : e.node = "function"} :
           d.form = "plain" => \E i \in DOMAIN merged.functions :
              merged.functions[i].qual = Append(d.ns, d.name) /\ merged.functions[i].signature = d.signature

AllReferences(spec) ==
  UNION {ToSet(spec.functions[i].refs) : i \in DOMAIN spec.functions}
    \cup UNION {UNION {ToSet(c.methods[i].refs) : i \in DOMAIN c.methods} \cup {c.fields[i].ref : i \in DOMAIN c.fields} :
                 c \in {spec.classes[q] : q \in DOMAIN spec.classes}}

\* A type that means a class or an enum of api-spec.json has its full name there
\* and is an enum exactly if it means one, whichever batch it was parsed in; a
\* number by another name is a number.  (The argument of a unique_ptr keeps its
\* spelling; the bridge generator looks it up.)
ReferencesResolve ==
  phase = "saved" =>
    \A ref \in {r \in AllReferences(merged) : r.shape # "unique"} :
      /\ ref.meant = Absent => ref.kind = "primitive"
      /\ ref.meant \in DOMAIN merged.classes => ref.name = ref.meant /\ ref.kind # "enum"
      /\ ref.meant \in ToSet(merged.enums) => ref.name \in EnumAliases(ref.meant) /\ ref.kind = "enum"

\* What is passed as a value can be rebuilt from its public fields: a class with
\* state only its methods reach is a handle wherever it is referred to.
ValuesAreComplete ==
  phase = "saved" =>
    \A ref \in AllReferences(merged) :
      \A c \in {d \in Definitions(Targets) : d.is = ref.meant /\ d.is \in DOMAIN merged.classes} :
        ref.kind = "value" =>
          \A i \in DOMAIN c.members :
            /\ c.members[i].node = "field" => c.members[i].type.shape \notin {"reference", "unique"}
            /\ c.members[i].node = "field" /\ c.members[i].access # "public" => merged.classes[c.is].methods = <<>>

\* The passes over the merged specification find nothing more to do the second
\* time: their comments say that they are idempotent.
PassesIdempotent ==
  phase = "saved" /\ ~IsSingle =>
    /\ \A full \in LongerChoices(merged) : EnumsClassified(merged, TRUE, full) = merged
    /\ HandlesPromoted(merged) = merged
    /\ Qualified(merged, merged.classes) = merged
=============================================================================
