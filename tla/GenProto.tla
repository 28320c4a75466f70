------------------------------ MODULE GenProto ------------------------------
(***************************************************************************)
(* gen-proto and the Go plugin (cmd/wasmify/main.go, cmdGenProto;           *)
(* internal/protogen/proto.go and bridge.go; protoc-gen-wasmify-go): from   *)
(* one API specification three programs are written apart from each other   *)
(* - the .proto, the C++ bridge and the Go bindings.  A Go binding calls    *)
(* the export w_<service>_<method> with the numbers that the .proto gives,  *)
(* encodes the request by its field numbers, and what runs is what the      *)
(* bridge generator put under that name: nothing but the two generators'    *)
(* agreement makes it the right function.                                   *)
(*                                                                          *)
(* Names are sequences of words, the way generated names are put together,  *)
(* and types are a kind and a class.  Destructors and operators, which both *)
(* generators leave out before anything else, are not in the model.         *)
(***************************************************************************)
EXTENDS ExportFilter, SequencesExt, TLC

VARIABLES
  services,    \* the services of the .proto so far; the id is the place less 1
  messages,    \* its messages: a sequence of <<number, class>> by name
  todo,        \* the classes whose service the present pass has to write
  exports,     \* the bridge: what w_<service>_<method> runs, reads and writes
  trampolines, \* the bridge: the C++ methods that callback id n stands for
  parsers,     \* the bridge: the value classes parse_<class> is written for
  bindings     \* the plugin: Go names of every service, and what it sends

protoVars == <<services, messages, todo>>
bridgeVars == <<exports, trampolines, parsers>>
vars == <<filterVars, protoVars, bridgeVars, bindings>>

\* What the parser makes: classes are numbers, members too, 0 is no class.
Identifier == [words : Seq(STRING), style : STRING]
TypeRef == [kind : STRING, of : Nat]
FunctionDecl ==
  [member : Nat, kind : STRING, name : Identifier, called : Identifier, qual : Seq(STRING),
   signature : Nat, ret : TypeRef, params : Seq(TypeRef), public : BOOLEAN, virtual : BOOLEAN,
   pure : BOOLEAN, keeps : STRING]
FieldDecl == [member : Nat, kind : {"field"}, name : Seq(STRING), type : TypeRef, public : BOOLEAN]
ClassDecl ==
  [path : Seq(Seq(STRING)), parents : Seq(Nat), methods : Seq(FunctionDecl), fields : Seq(FieldDecl),
   abstract : BOOLEAN, handle : BOOLEAN, dtor : BOOLEAN, external : BOOLEAN, defaultCtor : BOOLEAN]

ASSUME ApisTyped ==
  \A a \in Apis :
    /\ DOMAIN a.classes \in SUBSET Nat /\ IsFiniteSet(DOMAIN a.classes)
    /\ \A c \in DOMAIN a.classes : a.classes[c] \in ClassDecl
    /\ a.functions \in Seq(FunctionDecl)
    /\ \A i \in DOMAIN a.functions : a.functions[i].kind = "function"
-----------------------------------------------------------------------------
(***************************************************************************)
(* The bridge section, and what can be bridged.                             *)
(***************************************************************************)
Class(c) == spec.classes[c]

\* ExpandExternalTypesByParentChain: with an external class its external bases.
ExternalTypes ==
  LET External(c) == {d \in Bases(c) : d \in DOMAIN spec.classes /\ Class(d).external}
      seeds == api.externalTypes \cap DOMAIN spec.classes
  IN seeds \cup UNION {Above(c, External) : c \in seeds}

Admitted(c, external) == Class(c).external => c \in external

\* Types of classes that are not in the specification cannot be bridged;
\* "opaque" stands for all other types that cannot.
isUsableType(t) ==
  /\ t.kind # "opaque"
  /\ t.of # 0 => t.of \in DOMAIN spec.classes /\ Admitted(t.of, ExternalTypes)

isReturnableType(t) == isUsableType(t) /\ t.kind # "primitive*"

Usable(ps) == \A i \in DOMAIN ps : isUsableType(ps[i])

isBridgeableClass(c, external) == Admitted(c, external) /\ c \notin api.skipClasses

IsHandleType(t) == t.of # 0 /\ Class(t.of).handle

HandleClasses(external) ==
  {c \in DOMAIN spec.classes : Class(c).handle /\ isBridgeableClass(c, external)}

\* Pointers to what the callee fills in: "handle**" stands for T** and T*&,
\* "unique*" for unique_ptr<T>*.  "handle*" is a plain pointer and "handle&" a
\* const one or a reference, to an object that is passed, and "unique" a
\* unique_ptr<T>, by value or not, or a vector of them.
isOutputParam(t) == t.kind \in {"primitive*", "handle**", "unique*"}

\* writeCallBody has first made values of the pointers to plain structs.
IsOutputInBridge(t) ==
  isOutputParam(t) \/ (t.kind = "handle*" /\ ~Class(t.of).handle /\ Class(t.of).defaultCtor)

Inputs(ps) == SelectSeq(ps, LAMBDA t : ~isOutputParam(t))
Outputs(ps) == SelectSeq(ps, isOutputParam)

\* Factories return their class by value, or a status and the object through
\* an output parameter.
isStaticFactory(c, m) ==
  /\ m.kind = "static"
  /\ m.called \notin api.skipStaticMethods
  /\ ~Class(c).abstract
  /\ \/ /\ m.ret = [kind |-> "value", of |-> c]
        /\ ~Class(c).external
        /\ Usable(m.params)
     \/ /\ m.ret.kind = "status"
        /\ \E t \in ToSet(m.params) : t.kind \in {"handle**", "unique*"} /\ t.of = c
        /\ Usable(Inputs(m.params))

IsBridged(c, m) ==
  \/ isStaticFactory(c, m)
  \/ /\ m.kind \in {"constructor", "method"}
     /\ m.public
     /\ isReturnableType(m.ret)
     /\ Usable(m.params)

filterBridgeMethods(c, ms) == Chosen(ms, {i \in DOMAIN ms : IsBridged(c, ms[i])})

filterBridgeFields(c) ==
  LET fs == Class(c).fields
  IN Chosen(fs, {i \in DOMAIN fs : fs[i].public /\ isUsableType(fs[i].type)})

filterBridgeFunctions(fs) ==
  Chosen(fs, {i \in DOMAIN fs : isReturnableType(fs[i].ret) /\ Usable(fs[i].params)})
-----------------------------------------------------------------------------
(***************************************************************************)
(* Overloads: all but the one with the least signature get a number.        *)
(* A signature (overloadSortKey) is a number.                               *)
(***************************************************************************)
Suffixed(words, n) == IF n = 1 THEN words ELSE Append(words, ToString(n))

Rank(ms, i) ==
  1 + Cardinality({j \in DOMAIN ms :
        /\ ms[j].name = ms[i].name
        /\ \/ ms[j].signature < ms[i].signature
           \/ ms[j].signature = ms[i].signature /\ j < i})

disambiguate(ms) ==
  [i \in DOMAIN ms |-> [ms[i] EXCEPT !.called.words = Suffixed(@, Rank(ms, i))]]

ProtoMethods(c) == disambiguate(filterBridgeMethods(c, Class(c).methods))

BridgeMethods(c) == filterBridgeMethods(c, disambiguate(Class(c).methods))

FreeFunctions == filterBridgeFunctions(disambiguate(spec.functions))

OfKind(ms, kind) == Chosen(ms, {i \in DOMAIN ms : ms[i].kind = kind})

\* What of an abstract class there is to construct: nothing.
Constructors(c, ms) == IF Class(c).abstract THEN <<>> ELSE OfKind(ms, "constructor")
-----------------------------------------------------------------------------
(***************************************************************************)
(* Callback classes: the virtual methods of the class and of its bases, the *)
(* most derived first, each slot (name and signature) once.                 *)
(***************************************************************************)
Lineage(c) ==
  LET parents(d) == Class(d).parents
      known(d) == Chosen(parents(d), {i \in DOMAIN parents(d) : parents(d)[i] \in DOMAIN spec.classes})
      up[n \in 0..Cardinality(DOMAIN spec.classes)] ==
        [d \in DOMAIN spec.classes |->
           IF n = 0 THEN <<d>> ELSE <<d>> \o FlattenSeq([i \in DOMAIN known(d) |-> up[n - 1][known(d)[i]]])]
  IN up[Cardinality(DOMAIN spec.classes)][c]

Slot(m) == <<m.called, m.signature>>

OwnVirtuals(ms, pureOnly) ==
  Chosen(ms, {i \in DOMAIN ms : ms[i].virtual /\ ms[i].public /\ (pureOnly => ms[i].pure)})

AllVirtuals(lineage, pureOnly) ==
  FlattenSeq([i \in DOMAIN lineage |-> OwnVirtuals(disambiguate(Class(lineage[i]).methods), pureOnly)])

MostDerived(ms) ==
  {ms[i] : i \in {j \in DOMAIN ms : \A k \in 1..(j - 1) : Slot(ms[k]) # Slot(ms[j])}}

collectInheritedVirtuals(c, pureOnly) == MostDerived(AllVirtuals(Lineage(c), pureOnly))

trampolineSignatureDeclarable(m) ==
  \A t \in ToSet(m.params) \cup {m.ret} :
    /\ t.kind \notin {"opaque", "primitive*"}
    /\ t.of # 0 => t.of \in DOMAIN spec.classes /\ (t.kind = "value" => IsHandleType(t))

PuresDeclarable(ms) == ms # {} /\ \A m \in ms : m.pure => trampolineSignatureDeclarable(m)

isCallbackCandidate(c) ==
  IF Class(c).abstract /\ Class(c).defaultCtor
  THEN PuresDeclarable(collectInheritedVirtuals(c, TRUE))
  ELSE c \in api.callbackClasses /\ PuresDeclarable(collectInheritedVirtuals(c, FALSE))

\* In the order of the names, here of the numbers of the members.
Sorted(ms) ==
  LET order == InOrder({m.member : m \in ms})
  IN [i \in DOMAIN order |-> CHOOSE m \in ms : m.member = order[i]]

collectTrampolineMethods(c) ==
  Sorted({m \in collectInheritedVirtuals(c, FALSE) : m.pure \/ trampolineSignatureDeclarable(m)})

Forwardable(ctors) == Chosen(ctors, {i \in DOMAIN ctors : ctors[i].public /\ Usable(ctors[i].params)})

collectTrampolineCtors(c) == Forwardable(OfKind(disambiguate(Class(c).methods), "constructor"))

\* One FromCallback for each, or one without arguments.
Variants(ctors) == IF ctors = <<>> THEN << <<>> >> ELSE [i \in DOMAIN ctors |-> ctors[i].params]

FromCallbackParams(c) == IF isCallbackCandidate(c) THEN Variants(collectTrampolineCtors(c)) ELSE <<>>
-----------------------------------------------------------------------------
(***************************************************************************)
(* Names of messages and RPCs.                                              *)
(***************************************************************************)
\* The last scope of the qualified name, or as many scopes joined by "_" as
\* tell it from the classes with the same last one.
protoMessageName(c) ==
  LET Path(d) == Class(d).path
      Ending(d, n) == SubSeq(Path(d), Len(Path(d)) - n + 1, Len(Path(d)))
      twins == {d \in DOMAIN spec.classes \ {c} : Last(Path(d)) = Last(Path(c))}
      telling == {n \in 1..Len(Path(c)) :
                    \A d \in twins : n <= Len(Path(d)) => Ending(d, n) # Ending(c, n)}
      n == IF telling = {} THEN Len(Path(c)) ELSE CHOOSE k \in telling : \A l \in telling : k <= l
  IN FoldLeft(LAMBDA name, scope : IF name = <<>> THEN scope ELSE name \o <<"_">> \o scope,
              <<>>, Ending(c, n))

ClassNames == {protoMessageName(c) : c \in DOMAIN spec.classes}
declaredMessages == ClassNames \cup {<<"Empty">>}

\* Names an RPC of the service of c must not have: of the messages the
\* service returns and of what the Go struct embeds.
serviceMessageRefs(c) ==
  {<<"Empty">>, protoMessageName(c)}
    \cup {protoMessageName(p) : p \in Bases(c) \cap DOMAIN spec.classes}

\* Mutant: a name that is taken is not changed.
MethodNamePlain(words, used, avoided) == words

\* Of a method: its name, followed by "Method" and a number if taken.
MethodName(words, used, avoided) ==
  LET Renamed(i) == Suffixed(Append(words, "Method"), i) IN
  IF words \notin used \cup avoided THEN words
  ELSE Renamed(CHOOSE i \in 1..(Cardinality(used) + 1) :
                 Renamed(i) \notin used /\ \A j \in 1..(i - 1) : Renamed(j) \in used)

GetterName(words, used) ==
  LET free == SelectSeq(<<"Get", "Getter", "Field">>, LAMBDA k : <<k>> \o words \notin used) IN
  IF free = <<>> THEN <<"Get">> \o Append(words, "Value") ELSE <<free[1]>> \o words

\* The first of two names that is not taken.
Either(name, other, used) == IF name \in used THEN other ELSE name
-----------------------------------------------------------------------------
(***************************************************************************)
(* Who frees an object once it has been passed: a parameter is "lent", or    *)
(* "given" to the callee, or given "when" another parameter has some value.  *)
(***************************************************************************)
paramTakesOwnership(t) == t.kind = "unique"

signatureMatches(e, m) == e.signature = {} \/ m.signature \in e.signature

\* bridge.OwnershipTransferMethods lists, by the name or the signature, the
\* methods that keep a pointer although their type does not say so.
matchOwnershipTransferEntry(c, m) ==
  SelectSeq(api.ownershipTransfer,
            LAMBDA e : e.class = c /\ e.method = m.name /\ signatureMatches(e, m))

methodParamTakesOwnership(c, m, t) ==
  LET entries == matchOwnershipTransferEntry(c, m) IN
  CASE paramTakesOwnership(t) -> "given"
    [] IsHandleType(t) /\ m.kind # "constructor" /\ c # 0 /\ entries # <<>> -> entries[1].transfer
    [] OTHER -> "lent"

isCallbackOutputOwning(t) == t.kind = "unique*"

\* What the C++ code does: a unique_ptr made of the pointer deletes it, and a
\* method may keep what it is given by pointer.
Keeps(m, t) ==
  CASE t.kind = "unique" -> "given"
    [] IsHandleType(t)   -> m.keeps
    [] OTHER             -> "lent"
-----------------------------------------------------------------------------
(***************************************************************************)
(* Messages: the fields of a request and of a response, from their types.   *)
(***************************************************************************)
\* A field: its number, its class if any, whether it carries a pointer to an
\* object of the class or the values of its fields, and who frees the object.
NumberedField(number, t, transfer) == <<number, t.of, IsHandleType(t), transfer>>

Fields(ts, first, Transfer(_)) ==
  [i \in DOMAIN ts |-> NumberedField(first + i - 1, ts[i], Transfer(ts[i]))]

Numbered(ts, first) == Fields(ts, first, LAMBDA t : "lent")

Handle(c) == << <<1, c, TRUE, "lent">> >>
Pointer == << <<1, 0, FALSE, "lent">> >>

Result(m) == IF m.ret.kind = "void" THEN <<>> ELSE <<m.ret>>

\* Mutant: output parameters are sent as well.
RequestFieldsAll(c, m) ==
  LET Transfer(t) == methodParamTakesOwnership(c, m, t) IN
  IF m.kind = "method" THEN Handle(c) \o Fields(m.params, 2, Transfer) ELSE Fields(m.params, 1, Transfer)

RequestFields(c, m) ==
  LET Transfer(t) == methodParamTakesOwnership(c, m, t) IN
  CASE m.kind = "constructor" -> Fields(m.params, 1, Transfer)
    [] m.kind = "method"      -> Handle(c) \o Fields(Inputs(m.params), 2, Transfer)
    [] OTHER                  -> Fields(Inputs(m.params), 1, Transfer)

ResponseFields(m) == Numbered(Result(m) \o Outputs(m.params), 1)

ClassFields(c) ==
  IF Class(c).handle THEN Pointer
  ELSE Numbered([i \in DOMAIN Class(c).fields |-> Class(c).fields[i].type], 1)

\* A message is written once: what comes second under its name is not.
Emit(ms, parts) ==
  FoldLeft(LAMBDA sofar, p : IF p[1] \in DOMAIN sofar THEN sofar ELSE sofar @@ (p[1] :> p[2]), ms, parts)
-----------------------------------------------------------------------------
(***************************************************************************)
(* The service of a handle class.                                           *)
(***************************************************************************)
Rpc(name, original, kind, member, request, response) ==
  [name |-> name, original |-> original, kind |-> kind, member |-> member,
   request |-> request, response |-> response]

Names(rpcs) == {rpcs[i].name : i \in DOMAIN rpcs}

ConstructorRpcs(c) ==
  LET ctors == Constructors(c, ProtoMethods(c))
      own == protoMessageName(c)
  IN [i \in DOMAIN ctors |->
        LET name == Suffixed(<<"New">>, i)
        IN Rpc(name, <<>>, "constructor", ctors[i].member, own \o name \o <<"Request">>, own)]

\* In the order of the methods, which decides who keeps a name.
MethodNames(ms, used, avoided) ==
  LET name[i \in DOMAIN ms] == MethodName(ms[i].called.words, used \cup {name[j] : j \in 1..(i - 1)}, avoided)
  IN name

CallableMethods(c, ms) == Chosen(ms, {i \in DOMAIN ms : ms[i].kind = "method" \/ isStaticFactory(c, ms[i])})

RpcsOfMethods(c, ms, used) ==
  LET own == protoMessageName(c)
      name == MethodNames(ms, used, serviceMessageRefs(c))
  IN [i \in DOMAIN ms |->
        Rpc(name[i], IF name[i] = ms[i].called.words THEN <<>> ELSE ms[i].called.words,
            ms[i].kind, ms[i].member, own \o name[i] \o <<"Request">>,
            IF ms[i].kind = "static" THEN own ELSE own \o name[i] \o <<"Response">>)]

MethodRpcs(c, used) == RpcsOfMethods(c, CallableMethods(c, ProtoMethods(c)), used)

GetterNames(c, used) ==
  LET fs == Class(c).fields
      name[i \in DOMAIN fs] == GetterName(fs[i].name, used \cup {name[j] : j \in 1..(i - 1)})
  IN name

\* Of every field, also of those the bridge leaves out.
GetterRpcs(c, used) ==
  LET own == protoMessageName(c)
      fs == Class(c).fields
      name == GetterNames(c, used)
  IN [i \in DOMAIN fs |->
        Rpc(name[i], IF name[i] = <<"Get">> \o fs[i].name THEN <<>> ELSE fs[i].name,
            "getter", fs[i].member, own, own \o name[i] \o <<"Response">>)]

FromCallbackName(i) == Suffixed(<<"From", "Callback">>, i)

FromCallbackRpcs(c, used) ==
  [i \in DOMAIN FromCallbackParams(c) |->
     LET name == Either(FromCallbackName(i), <<"New">> \o FromCallbackName(i), used)
     IN Rpc(name, <<>>, "callback_factory", i,
            protoMessageName(c) \o name \o <<"Request">>, protoMessageName(c))]

FreeRpc(c, used) ==
  LET name == Either(<<"Free">>, <<"Release">>, used) IN
  IF ~Class(c).dtor THEN <<>>
  ELSE <<Rpc(name, IF name = <<"Free">> THEN <<>> ELSE <<"Free">>, "free", 0,
             protoMessageName(c), <<"Empty">>)>>

StaticsFirst(rpcs) == OfKind(rpcs, "static") \o OfKind(rpcs, "method")

\* Each part is given the names there are before it.
WithMethods(c, rpcs) == rpcs \o StaticsFirst(MethodRpcs(c, Names(rpcs)))
WithGetters(c, rpcs) == rpcs \o GetterRpcs(c, Names(rpcs))
WithFactories(c, rpcs) == rpcs \o FromCallbackRpcs(c, Names(rpcs))
WithFree(c, rpcs) == rpcs \o FreeRpc(c, Names(rpcs))

HandleRpcs(c) == WithFree(c, WithFactories(c, WithGetters(c, WithMethods(c, ConstructorRpcs(c)))))

HandleService(c) ==
  [name |-> Append(protoMessageName(c), "Service"), class |-> c, callback |-> FALSE, rpcs |-> HandleRpcs(c)]

\* Its messages, in the order they are written.
HandleMessages(c) ==
  LET own == protoMessageName(c)
      Method(r) == CHOOSE m \in ToSet(Class(c).methods) : m.member = r.member
      TypeOf(r) == (CHOOSE f \in ToSet(Class(c).fields) : f.member = r.member).type
      Request(r) == <<r.request, RequestFields(c, Method(r))>>
      Of(r) == CASE r.kind = "constructor"          -> << Request(r) >>
                 [] r.kind \in {"static", "method"} ->
                      << Request(r), <<own \o r.name \o <<"Response">>, ResponseFields(Method(r))>> >>
                 [] r.kind = "getter"               -> << <<r.response, Numbered(<<TypeOf(r)>>, 1)>> >>
                 [] OTHER                           -> <<>>
      factories ==
        [i \in DOMAIN FromCallbackParams(c) |->
           <<own \o FromCallbackName(i) \o <<"Request">>, Pointer \o Numbered(FromCallbackParams(c)[i], 2)>>]
  IN FoldLeft(LAMBDA written, r : written \o Of(r), factories, HandleRpcs(c))
-----------------------------------------------------------------------------
(***************************************************************************)
(* The service a Go implementation of a callback class answers to.          *)
(***************************************************************************)
At(ps, chosen(_)) ==
  SelectSeq(Fields(ps, 1, LAMBDA t : IF isCallbackOutputOwning(t) THEN "given" ELSE "lent"),
            LAMBDA f : chosen(ps[f[1]]))

\* isCallbackOutputParam: the parameters that come back in the response.
Returned(t) == t.kind \in {"handle**", "unique*"}

CallbackNames(ms) ==
  LET name[i \in DOMAIN ms] ==
        Either(ms[i].called.words, Append(ms[i].called.words, "Method"), {name[j] : j \in 1..(i - 1)})
  IN name

CallbackRpcs(own, ms) ==
  LET name == CallbackNames(ms)
      stem(i) == Append(own, "Callback") \o name[i]
  IN [i \in DOMAIN ms |->
        Rpc(name[i], <<>>, "virtual", ms[i].member, Append(stem(i), "Request"), Append(stem(i), "Response"))]

CallbackService(c) ==
  [name |-> protoMessageName(c) \o <<"Callback", "Service">>, class |-> c, callback |-> TRUE,
   rpcs |-> CallbackRpcs(protoMessageName(c), collectTrampolineMethods(c))]

\* Its messages: the request and the response of each method.
CallbackParts(rpcs, ms) ==
  FlattenSeq([i \in DOMAIN rpcs |->
    << <<rpcs[i].request, At(ms[i].params, LAMBDA t : ~Returned(t))>>,
       <<rpcs[i].response, (IF ms[i].ret.kind = "status" THEN <<>> ELSE Numbered(Result(ms[i]), 1))
                             \o At(ms[i].params, Returned)>> >>])

CallbackMessages(c) == CallbackParts(CallbackService(c).rpcs, collectTrampolineMethods(c))
-----------------------------------------------------------------------------
(***************************************************************************)
(* The free functions, service 0 if there are any.                          *)
(***************************************************************************)
FunctionRpcs ==
  LET Name(f) == IF f.called.words \in declaredMessages THEN Append(f.called.words, "Func") ELSE f.called.words
  IN [i \in DOMAIN FreeFunctions |->
        LET f == FreeFunctions[i]
        IN Rpc(Name(f), IF Name(f) = f.called.words THEN <<>> ELSE f.called.words, "function", f.member,
               Append(Name(f), "Request"), Append(Name(f), "Response"))]

FunctionMessages ==
  FlattenSeq([i \in DOMAIN FunctionRpcs |->
    << <<FunctionRpcs[i].request, RequestFields(0, FreeFunctions[i])>>,
       <<FunctionRpcs[i].response, ResponseFields(FreeFunctions[i])>> >>])

FunctionService(emitted) ==
  LET package == <<"Api">>
      second == Append(package, "Functions")
      name == IF package \notin emitted THEN package
              ELSE IF second \notin emitted THEN second ELSE Append(package, "API")
  IN [name |-> name, class |-> 0, callback |-> FALSE, rpcs |-> FunctionRpcs]

ClassMessages ==
  LET order == InOrder(DOMAIN spec.classes)
  IN [i \in DOMAIN order |-> <<protoMessageName(order[i]), ClassFields(order[i])>>]
-----------------------------------------------------------------------------
(***************************************************************************)
(* What protocompile rejects (ValidateProto).                               *)
(***************************************************************************)
RpcsOf(s) == ToSet(services[s].rpcs)

Mentioned(s) == UNION {{r.request, r.response} : r \in RpcsOf(s)}

Distinct(q) == Cardinality(ToSet(q)) = Len(q)

ValidProto ==
  /\ Distinct([s \in DOMAIN services |-> services[s].name])
  /\ \A s \in DOMAIN services :
       /\ services[s].name \notin DOMAIN messages
       /\ Distinct([i \in DOMAIN services[s].rpcs |-> services[s].rpcs[i].name])
       /\ Mentioned(s) \subseteq DOMAIN messages
       /\ Names(services[s].rpcs) \cap Mentioned(s) = {}
  /\ \A n \in DOMAIN messages : Distinct([i \in DOMAIN messages[n] |-> messages[n][i][1]])
-----------------------------------------------------------------------------
(***************************************************************************)
(* The C++ bridge: what is put behind each export.                          *)
(***************************************************************************)
Export(kind, member, reads, writes) ==
  [kind |-> kind, member |-> member, reads |-> ToSet(reads), writes |-> ToSet(writes)]

\* How the bridge reads a parameter: writeCallBody makes values of pointers
\* and references to plain structs, and all bodies make handles of values
\* that have no default constructor.
ReadAsHandle(m, t) ==
  /\ t.of # 0
  /\ \/ Class(t.of).handle
     \/ ~Class(t.of).defaultCtor
     \/ t.kind \in {"handle*", "handle&"} /\ m.kind \in {"constructor", "static"}

Read(m, ts, first) ==
  [i \in DOMAIN ts |-> <<first + i - 1, ts[i].of, ReadAsHandle(m, ts[i]), Keeps(m, ts[i])>>]

\* writeCallBody
CallExport(c, m) ==
  LET in == SelectSeq(m.params, LAMBDA t : ~IsOutputInBridge(t))
      out == SelectSeq(m.params, IsOutputInBridge)
  IN Export(m.kind, m.member,
            IF c = 0 THEN Read(m, in, 1) ELSE Handle(c) \o Read(m, in, 2),
            Numbered(Result(m) \o out, 1))

\* writeConstructorBody, writeStaticFactoryBody
MakeExport(m) == Export(m.kind, m.member, Read(m, Inputs(m.params), 1), Pointer)

\* FromCallback, which takes the parameters of a constructor.
ImplExport(c, i) ==
  LET m == [kind |-> "constructor", keeps |-> "lent"] IN
  Export("callback_factory", i, Pointer \o Read(m, FromCallbackParams(c)[i], 2), Pointer)

writeHandleDispatch(c) ==
  LET ms == BridgeMethods(c)
      ctors == Constructors(c, ms)
      statics == OfKind(ms, "static")
      methods == OfKind(ms, "method")
      fields == filterBridgeFields(c)
      Get(f) == Export("getter", f.member, Pointer, Numbered(<<f.type>>, 1))
  IN [i \in DOMAIN ctors |-> MakeExport(ctors[i])]
     \o [i \in DOMAIN statics |-> MakeExport(statics[i])]
     \o [i \in DOMAIN methods |-> CallExport(c, methods[i])]
     \o [i \in DOMAIN fields |-> Get(fields[i])]
     \o [i \in DOMAIN FromCallbackParams(c) |-> ImplExport(c, i)]
     \o (IF Class(c).dtor THEN <<Export("free", 0, Pointer, <<>>)>> ELSE <<>>)

\* Mutant: the bridge is given the external types as configured.
collectConfiguredClasses == InOrder(HandleClasses(api.externalTypes))

\* collectHandleClasses, with the external types cmdGenProto has expanded.
collectHandleClasses == InOrder(HandleClasses(ExternalTypes))

Dispatch ==
  LET functions == [i \in DOMAIN FreeFunctions |-> CallExport(0, FreeFunctions[i])]
      handles == [i \in DOMAIN collectHandleClasses |-> writeHandleDispatch(collectHandleClasses[i])]
  IN IF functions = <<>> THEN handles ELSE <<functions>> \o handles

\* The slots each trampoline overrides, callback id n at place n + 1, and what
\* it writes for the Go implementation and reads from it: every class type as
\* a pointer.  With output parameters it looks for those alone.
Overrides(ms) ==
  LET Wired(fields) == {<<f[1], f[2], f[2] # 0, f[4]>> : f \in ToSet(fields)}
      Reads(m) == IF SelectSeq(m.params, Returned) # <<>> THEN At(m.params, Returned)
                  ELSE IF m.ret.kind = "status" THEN <<>> ELSE Numbered(Result(m), 1)
  IN [i \in DOMAIN ms |->
        LET m == ms[i]
        IN [member |-> m.member, slot |-> <<m.name, m.signature>>,
            writes |-> Wired(At(m.params, LAMBDA t : ~Returned(t))), reads |-> Wired(Reads(m))]]

Trampoline(c) == Overrides(collectTrampolineMethods(c))

\* recordValueTypeParserNeeded, by the bodies that read a value.
ValueParams ==
  LET Bodies(c) == {m \in ToSet(BridgeMethods(c)) : m.kind = "constructor" => ~Class(c).abstract}
      bodies == UNION {Bodies(c) : c \in ToSet(collectHandleClasses)} \cup ToSet(FreeFunctions)
      Values(m) == {t \in ToSet(m.params) : t.of # 0 /\ ~IsOutputInBridge(t) /\ ~isOutputParam(t)
                                              /\ ~ReadAsHandle(m, t)}
  IN {t.of : t \in UNION {Values(m) : m \in bodies}}
-----------------------------------------------------------------------------
(***************************************************************************)
(* The Go plugin.                                                           *)
(***************************************************************************)
IsReceiver(r) == r.kind \notin {"constructor", "static", "callback_factory"}

EmbeddedNames(c) ==
  IF c = 0 THEN {} ELSE {protoMessageName(p) : p \in Bases(c) \cap DOMAIN spec.classes}

\* Mutant: the embedded types are not looked at.
GoNamesFlat(s) ==
  [i \in DOMAIN services[s].rpcs |->
     LET r == services[s].rpcs[i] IN IF r.original = <<>> THEN r.name ELSE r.original]

\* resolveGoMethodNames: an RPC that was renamed gets its name back in Go,
\* unless another method of the type or an embedded type has it.
GoNames(s) ==
  LET rpcs == services[s].rpcs
      settled == {r.name : r \in {q \in ToSet(rpcs) : IsReceiver(q) /\ q.original = <<>>}}
      Add(names, r) ==
        LET taken == settled \cup {names[i] : i \in {j \in DOMAIN names : IsReceiver(rpcs[j])}}
            refused == r.original = <<>> \/ (IsReceiver(r) /\ r.original \in taken \cup EmbeddedNames(services[s].class))
        IN Append(names, IF refused THEN r.name ELSE r.original)
  IN FoldLeft(Add, <<>>, rpcs)

WithoutPrefix(prefix, name) ==
  IF IsPrefix(prefix, name) THEN SubSeq(name, Len(prefix) + 1, Len(name)) ELSE name

\* Go functions that make an object: New<Class><name without New>, and
\* New<Class>FromImpl<name without FromCallback>.
FactoryName(c, r) ==
  LET stem == <<"New">> \o protoMessageName(c) IN
  IF r.kind = "callback_factory"
  THEN stem \o <<"From", "Impl">> \o WithoutPrefix(<<"From", "Callback">>, r.name)
  ELSE stem \o WithoutPrefix(<<"New">>, r.name)

\* What the binding puts in the request: writeConstructor leaves out every
\* handle of its own class.
Sent(c, r) ==
  LET fields == messages[r.request] IN
  IF r.kind \in {"constructor", "static"}
  THEN {f \in ToSet(fields) : ~(f[2] = c /\ f[3])}
  ELSE ToSet(fields)

\* writeCallbackCaseBody: methods with such a field are not dispatched.
HasValues(fields) == \E f \in fields : f[2] # 0 /\ ~f[3]

Binding(s) ==
  [i \in DOMAIN services[s].rpcs |->
     LET r == services[s].rpcs[i]
     IN [name |-> IF IsReceiver(r) THEN GoNames(s)[i] ELSE FactoryName(services[s].class, r),
         receiver |-> IsReceiver(r) /\ services[s].class # 0,
         sends |-> Sent(services[s].class, r)]]
-----------------------------------------------------------------------------
InitGenProto ==
  /\ Init
  /\ services = <<>> /\ messages = <<>> /\ todo = <<>>
  /\ exports = <<>> /\ trampolines = <<>> /\ parsers = {} /\ bindings = <<>>

ApplyExportFilter ==
  /\ FilterNothing \/ Filter
  /\ UNCHANGED <<protoVars, bridgeVars, bindings>>

WriteFunctions ==
  /\ pc = "filtered"
  /\ messages' = Emit(<<>>, ClassMessages \o FunctionMessages \o << << <<"Empty">>, <<>> >> >>)
  /\ services' = IF FreeFunctions = <<>> THEN <<>> ELSE <<FunctionService(DOMAIN messages')>>
  /\ todo' = InOrder(HandleClasses(ExternalTypes))
  /\ pc' = "handles"
  /\ UNCHANGED <<api, kept, spec, bridgeVars, bindings>>

Write(Service(_), Messages(_)) ==
  /\ todo # <<>>
  /\ services' = Append(services, Service(Head(todo)))
  /\ messages' = Emit(messages, Messages(Head(todo)))
  /\ todo' = Tail(todo)
  /\ UNCHANGED <<filterVars, bridgeVars, bindings>>

WriteHandleService == pc = "handles" /\ Write(HandleService, HandleMessages)

CollectCallbacks ==
  /\ pc = "handles" /\ todo = <<>>
  /\ todo' = InOrder({c \in HandleClasses(ExternalTypes) : isCallbackCandidate(c)})
  /\ pc' = "callbacks"
  /\ UNCHANGED <<api, kept, spec, services, messages, bridgeVars, bindings>>

WriteCallbackService == pc = "callbacks" /\ Write(CallbackService, CallbackMessages)

ValidateProto ==
  /\ pc = "callbacks" /\ todo = <<>>
  /\ pc' = IF ValidProto THEN "bridge" ELSE "failed"
  /\ UNCHANGED <<api, kept, spec, protoVars, bridgeVars, bindings>>

GenerateBridge ==
  /\ pc = "bridge"
  /\ exports' = Dispatch
  /\ trampolines' = [c \in {d \in ToSet(collectHandleClasses) : isCallbackCandidate(d)} |-> Trampoline(c)]
  /\ parsers' = ValueParams
  /\ pc' = "bindings"
  /\ UNCHANGED <<api, kept, spec, protoVars, bindings>>

GenerateGo ==
  /\ pc = "bindings"
  /\ bindings' = [s \in {t \in DOMAIN services : ~services[t].callback} |-> Binding(s)]
  /\ pc' = "done"
  /\ UNCHANGED <<api, kept, spec, protoVars, bridgeVars>>

NextGenProto ==
  \/ ApplyExportFilter \/ WriteFunctions \/ WriteHandleService \/ CollectCallbacks
  \/ WriteCallbackService \/ ValidateProto \/ GenerateBridge \/ GenerateGo

SpecGenProto == InitGenProto /\ [][NextGenProto]_vars
-----------------------------------------------------------------------------
(***************************************************************************)
(* What the two generators rely on to number RPCs alike.                    *)
(***************************************************************************)
\* A field has an RPC whether the bridge can read it or not: it should.
FieldsBridged(a) ==
  \A c \in DOMAIN a.classes \ a.skipClasses : \A i \in DOMAIN a.classes[c].fields :
    LET f == a.classes[c].fields[i] IN
    a.classes[c].handle \/ c \in a.exportClasses =>
      /\ f.public /\ f.type.kind # "opaque"
      /\ f.type.of # 0 =>
           /\ f.type.of \in DOMAIN a.classes
           /\ a.classes[f.type.of].external => f.type.of \in a.externalTypes

\* Overloads are counted before methods are left out, or after that, and
\* SkipStaticMethods goes by the counted name: it has none with overloads.
SkipsNoOverload(a) ==
  \A c \in DOMAIN a.classes : \A i, j \in DOMAIN a.classes[c].methods :
    LET m == a.classes[c].methods[i] IN
    i # j /\ m.kind = "static" /\ a.classes[c].methods[j].name = m.name =>
      \A n \in DOMAIN a.classes[c].methods :
        [m.called EXCEPT !.words = Suffixed(@, n)] \notin a.skipStaticMethods

\* A class, its bases, theirs and so on.
Family(a, c) ==
  LET Closed(T) == \A d \in T : \A i \in DOMAIN a.classes[d].parents :
                     a.classes[d].parents[i] \in DOMAIN a.classes => a.classes[d].parents[i] \in T
  IN {d \in DOMAIN a.classes : \A T \in SUBSET DOMAIN a.classes : c \in T /\ Closed(T) => d \in T}

\* The counted name tells an override from another virtual: it has to be that
\* of what it overrides.
OverridesNamedAlike(a) ==
  \A c \in DOMAIN a.classes : \A d, e \in Family(a, c) :
    LET ms == disambiguate(a.classes[d].methods)
        ns == disambiguate(a.classes[e].methods)
    IN \A i \in DOMAIN ms : \A j \in DOMAIN ns :
         /\ ms[i].virtual /\ ms[i].public /\ ns[j].virtual /\ ns[j].public
         /\ ms[i].name = ns[j].name /\ ms[i].signature = ns[j].signature
         => ms[i].called = ns[j].called

NumberedAlike == \A a \in Apis : FieldsBridged(a) /\ SkipsNoOverload(a) /\ OverridesNamedAlike(a)
-----------------------------------------------------------------------------
Served == {s \in DOMAIN services : ~services[s].callback}

\* The function behind w_<service>_<method> is the one the RPC with those ids
\* was written for, in every service, and the callback ids a Go implementation
\* is called with are those of the slots its trampoline overrides, each once.
DispatchAgrees ==
  pc \in {"bindings", "done"} =>
    /\ Len(exports) = Cardinality(Served)
    /\ \A s \in Served :
         LET rpcs == services[s].rpcs IN
         /\ Len(exports[s]) = Len(rpcs)
         /\ \A i \in DOMAIN rpcs : exports[s][i].kind = rpcs[i].kind /\ exports[s][i].member = rpcs[i].member
    /\ {services[s].class : s \in DOMAIN services \ Served} = DOMAIN trampolines
    /\ \A s \in DOMAIN services \ Served :
         LET t == trampolines[services[s].class] IN
         /\ [i \in DOMAIN t |-> t[i].member] = [i \in DOMAIN services[s].rpcs |-> services[s].rpcs[i].member]
         /\ Distinct([i \in DOMAIN t |-> t[i].slot])

\* What the Go binding of an RPC sends is what the bridge reads, field by
\* field, the bridge writes what the response declares, and every parser of
\* values that another one calls has been written.  The other way round, what
\* a trampoline writes is what the Go adapter decodes, unless the adapter
\* refuses the method, and it reads what the adapter answers.  In both
\* directions Go lets go of exactly the objects that C++ is going to delete.
WireAgrees ==
  pc = "done" =>
    /\ \A s \in DOMAIN services \ Served : \A i \in DOMAIN services[s].rpcs :
         LET t == trampolines[services[s].class][i]
             request == ToSet(messages[services[s].rpcs[i].request])
         IN /\ HasValues(request) \/ request = t.writes
            /\ ToSet(messages[services[s].rpcs[i].response]) = t.reads
    /\ \A s \in Served : \A i \in DOMAIN services[s].rpcs \cap DOMAIN exports[s] :
         /\ bindings[s][i].sends = exports[s][i].reads
         /\ ToSet(messages[services[s].rpcs[i].response]) = exports[s][i].writes
    /\ \A c \in parsers : \A f \in ToSet(Class(c).fields) :
         f.type.kind = "value" /\ ~IsHandleType(f.type) => f.type.of \in parsers

\* gen-proto never ends with a .proto that protocompile rejects.
SchemaValid == pc # "failed"

\* The generated Go compiles as far as names go: methods of a handle type
\* differ from each other and from what the type embeds, and package-level
\* functions from each other and from the types.
GoNamesFree ==
  pc = "done" =>
    LET Methods(s) == {i \in DOMAIN bindings[s] : bindings[s][i].receiver /\ services[s].rpcs[i].kind # "free"}
        Functions(s) == {<<s, i>> : i \in {j \in DOMAIN bindings[s] : ~bindings[s][j].receiver}}
        functions == UNION {Functions(s) : s \in Served}
        Name(f) == bindings[f[1]][f[2]].name
        interfaces == {protoMessageName(c) : c \in DOMAIN trampolines}
        types == ClassNames \cup {Append(n, "Callback") : n \in interfaces}
                   \cup {n \o <<"Callback", "Defaults">> : n \in interfaces}
    IN /\ \A s \in Served : \A i \in Methods(s) :
            /\ bindings[s][i].name \notin EmbeddedNames(services[s].class)
            /\ \A j \in Methods(s) : bindings[s][i].name = bindings[s][j].name => i = j
       /\ \A f \in functions :
            /\ Name(f) \notin types
            /\ \A g \in functions : Name(f) = Name(g) => f = g
=============================================================================
