----------------------------- MODULE MCGenProto -----------------------------
(***************************************************************************)
(* Specifications for GenProto: a class with a few of many possible members, *)
(* and graphs of four classes.                                              *)
(***************************************************************************)
EXTENDS GenProto

CONSTANT Lenient   \* what else to put into a specification: see the README

Type(kind, of) == [kind |-> kind, of |-> of]
Void == Type("void", 0)
Number == Type("primitive", 0)

Named(words) == [words |-> words, style |-> "camel"]

Function(member, kind, words, signature, ret, params) ==
  [member |-> member, kind |-> kind, name |-> Named(words), called |-> Named(words), qual |-> words,
   signature |-> signature, ret |-> ret, params |-> params, public |-> TRUE,
   virtual |-> FALSE, pure |-> FALSE, keeps |-> "lent"]

Virtual(m, pure) == [m EXCEPT !.virtual = TRUE, !.pure = pure]
Keeping(m, transfer) == [m EXCEPT !.keeps = transfer]
Hidden(m) == [m EXCEPT !.public = FALSE]

Field(member, words, type, public) ==
  [member |-> member, kind |-> "field", name |-> words, type |-> type, public |-> public]

NoClass == [path |-> <<<<"ns">>>>, parents |-> <<>>, abstract |-> FALSE, handle |-> TRUE, dtor |-> TRUE,
            external |-> FALSE, defaultCtor |-> TRUE, methods |-> <<>>, fields |-> <<>>]

NoApi == [classes |-> <<>>, functions |-> <<>>, exportFunctions |-> {}, exportClasses |-> {},
          externalTypes |-> {}, skipClasses |-> {}, skipStaticMethods |-> {}, callbackClasses |-> {}, ownershipTransfer |-> <<>>]
-----------------------------------------------------------------------------
(* Class 1 (A) with base 2 (B) or without, the struct 3 (O), which holds    *)
(* nothing but numbers, and the struct 4 (P), which no one but the lenient  *)
(* members refer to.                                                        *)
A == 1
B == 2
O == 3
P == 4

Usual ==
  {Function(1, "constructor", <<"A">>, 0, Void, <<>>),
   Function(2, "constructor", <<"A">>, 1, Void, <<Number, Type("handle*", B)>>),
   Function(3, "static", <<"Make">>, 1, Type("value", A), <<Number, Type("unique", B)>>),
   Function(4, "static", <<"Open">>, 2, Type("status", 0), <<Type("handle**", A), Number>>),
   Hidden(Function(5, "method", <<"Foo">>, 0, Void, <<>>)),
   Keeping(Function(6, "method", <<"Foo">>, 1, Number, <<Number, Type("handle*", B)>>), "when"),
   Virtual(Function(7, "method", <<"Foo">>, 2, Void, <<Type("handle&", O), Type("unique*", B), Type("handle*", B)>>), FALSE),
   Function(8, "method", <<"Get", "X">>, 0, Number, <<>>),
   Keeping(Function(9, "method", <<"B">>, 0, Type("handle*", B), <<Type("handle*", B)>>), "given"),
   Function(10, "method", <<"Empty">>, 0, Number, <<Type("primitive*", 0)>>),
   Function(11, "method", <<"Foo2">>, 0, Void, <<Type("value", O)>>),
   Virtual(Function(12, "method", <<"On">>, 1, Type("handle*", B), <<Type("handle*", B)>>), TRUE),
   Field(13, <<"X">>, Number, TRUE)}

\* What the bridge section says of them.
Transfers ==
  <<[class |-> A, method |-> Named(<<"Foo">>), signature |-> {1}, transfer |-> "when"],
    [class |-> A, method |-> Named(<<"B">>), signature |-> {}, transfer |-> "given"]>>

\* Members that break what the generators rely on.
Unusual ==
  [hiddenField |-> {Field(14, <<"Y">>, Number, FALSE)},
   ctorOutput |-> {Function(14, "constructor", <<"A">>, 2, Void, <<Type("primitive*", 0)>>)},
   ctorValue |-> {Function(14, "constructor", <<"A">>, 2, Void, <<Type("handle&", O)>>)},
   implUnique |-> {Function(14, "constructor", <<"A">>, 2, Void, <<Type("unique", B)>>)},
   keepingCtor |-> {Keeping(Function(14, "constructor", <<"A">>, 2, Void, <<Type("handle*", B)>>), "given")},
   ownHandle |-> {Function(14, "constructor", <<"A">>, 2, Void, <<Type("handle*", A)>>)},
   filledValue |-> {Function(14, "method", <<"Fill">>, 0, Void, <<Type("handle*", O)>>)},
   noDefault |-> {Function(14, "method", <<"Take">>, 0, Void, <<Type("value", P)>>)},
   nestedValue |-> {Function(14, "method", <<"Take">>, 0, Void, <<Type("value", P)>>)},
   fromCallback |-> {Function(14, "method", <<"From", "Callback">>, 0, Void, <<>>)},
   callbackNamed |-> {Function(14, "method", <<"Callback", "On">>, 0, Void, <<>>)},
   skippedOverload |-> {Function(14, "static", <<"Make">>, 3, Type("value", A), <<>>)},
   sharedWords |-> {Function(14, "method", <<"Get", "On">>, 0, Void, <<>>)},
   freeAndRelease |-> {Function(14, "method", <<"Free">>, 0, Void, <<>>), Function(15, "method", <<"Release">>, 0, Void, <<>>)},
   newStatic |-> {Function(14, "static", <<"New", "Make">>, 1, Type("value", A), <<>>)},
   inherited |-> {Virtual(Function(14, "method", <<"On">>, 0, Void, <<>>), FALSE)},
   outFirst |-> {Virtual(Function(14, "method", <<"At">>, 0, Number, <<Type("handle**", B)>>), TRUE)}]

Plain == [NoClass EXCEPT !.handle = FALSE, !.fields = <<Field(21, <<"N">>, Number, TRUE)>>]

OnOfB == Virtual(Function(15, "method", <<"On">>, 1, Type("handle*", B), <<Type("handle*", B)>>), TRUE)

Free(member, words, signature, params) == Function(member, "function", words, signature, Void, params)

Functions ==
  <<Free(31, <<"Foo">>, 1, <<Type("handle&", O)>>), Free(32, <<"Foo">>, 0, <<>>)>>
    \o (IF "functionClass" \in Lenient THEN <<Free(33, <<"O">>, 0, <<>>)>> ELSE <<>>)
    \o (IF "functionTwins" \in Lenient THEN <<[Free(33, <<"Foo">>, 0, <<>>) EXCEPT !.name.style = "snake"]>> ELSE <<>>)

Members(S, parents, abstract, opted) ==
  LET dtor == parents = <<>>
       ms == SetToSortSeq(S, LAMBDA m, n : m.member < n.member)
  IN [NoApi EXCEPT
       !.classes =
         [c \in 1..4 |->
            CASE c = A -> [NoClass EXCEPT
                             !.path = <<<<"ns">>, <<"A">>>>, !.parents = parents, !.abstract = abstract, !.dtor = dtor,
                             !.defaultCtor = \A m \in S : m.kind = "constructor" => m.params = <<>>,
                             !.methods = SelectSeq(ms, LAMBDA m : m.kind # "field"),
                             !.fields = SelectSeq(ms, LAMBDA m : m.kind = "field")]
              [] c = B -> [NoClass EXCEPT !.path = <<<<"ns">>, IF "sharedWords" \in Lenient THEN <<"A", "Get">> ELSE <<"B">>>>, !.abstract = TRUE, !.methods = <<OnOfB>>]
              [] c = O -> [Plain EXCEPT !.path = <<<<"ns">>, <<"O">>>>]
              [] OTHER -> [Plain EXCEPT
                             !.path = <<<<"ns">>, <<"P">>>>, !.defaultCtor = "noDefault" \notin Lenient,
                             !.fields = IF "nestedValue" \in Lenient
                                        THEN <<Field(22, <<"N">>, Type("value", O), TRUE)>> ELSE @]],
       !.functions = IF dtor THEN Functions ELSE <<>>,
       !.skipStaticMethods = {Named(<<"Make">>) : l \in Lenient \cap {"skippedOverload"}},
       !.callbackClasses = IF opted THEN {A} ELSE {},
       !.ownershipTransfer = Transfers]

MemberCases ==
  LET all == Usual \cup UNION {Unusual[l] : l \in Lenient \cap DOMAIN Unusual}
  IN {<<"members", S, parents, abstract, opted>> :
        S \in UNION {kSubset(k, all) : k \in 0..3}, parents \in {<<>>, <<B>>},
        abstract \in BOOLEAN, opted \in BOOLEAN}
-----------------------------------------------------------------------------
(* Four classes that derive from each other and refer to each other, of     *)
(* which a part is exported.                                                *)
Refers == Function(1, "method", <<"Ref">>, 0, Void, <<>>)

Graph(up, edge, abstract, exported, mode) ==
  LET external == IF mode = "external" THEN {3, 4} ELSE {}
      twins == IF mode = "twins" THEN {3, 4} ELSE {}
  IN [NoApi EXCEPT
     !.classes =
       [c \in 1..4 |->
          [NoClass EXCEPT
             !.path = <<IF c = 4 /\ c \in twins THEN <<"sub">> ELSE <<"ns">>,
                        IF c \in twins THEN <<"C">> ELSE <<ToString(c)>>>>,
             !.parents = up[c], !.abstract = c = abstract, !.external = c \in external,
             !.methods = IF edge[1] = c THEN <<[Refers EXCEPT !.ret = Type("handle*", edge[2])]>> ELSE <<>>]],
     !.functions = <<Free(31, <<"F">>, 0, <<Type("handle&", 3)>>)>>
                     \o (IF "overloadedExport" \in Lenient THEN <<Free(32, <<"F">>, 1, <<>>)>> ELSE <<>>),
     !.exportFunctions = {<<"F">> : c \in exported \cap {0}},
     !.exportClasses = exported \ {0},
     !.externalTypes = {3} \cap external]

GraphCases ==
  {<<"graph", <<up1, up2, up3, <<>> >>, edge, abstract, exported, mode>> :
     up1 \in {<<>>, <<2>>, <<3>>, <<2, 4>>},
     up2 \in {<<>>, <<3>>, <<4>>} \cup (IF "secondaryBase" \in Lenient THEN {<<3, 4>>} ELSE {}),
     up3 \in {<<>>, <<4>>},
     edge \in {<<0, 0>>, <<1, 3>>, <<4, 1>>, <<2, 4>>},
     abstract \in {0, 2, 3, 4},
     exported \in {{}, {0}, {1}, {2}, {4}},
     mode \in {"plain", "external", "twins"}}

Case(x) == IF x[1] = "graph" THEN Graph(x[2], x[3], x[4], x[5], x[6]) ELSE Members(x[2], x[3], x[4], x[5])

MCApis == {Case(x) : x \in MemberCases \cup GraphCases}

ASSUME UsualAssumption == Lenient = {} => NumberedAlike
=============================================================================
