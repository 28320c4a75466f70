------------------------ MODULE HandleLifetime_proofs ------------------------
(***************************************************************************)
(* That no C++ object is freed twice and none is lost but those that a       *)
(* refused call was to take or to free (FreedOnce), for any goroutines,      *)
(* objects, handles and callback ids, any number of arguments and any        *)
(* collector, as long as what is given and what the generated code takes for *)
(* given are the same (OwnershipCare).                                       *)
(*                                                                          *)
(* The argument does not need to know what the collector can reach, only    *)
(* that it leaves alone what is held and what a call still mentions.        *)
(***************************************************************************)
EXTENDS HandleLifetime, FiniteSetTheorems, TLAPS

\* Of the careless uses of the bindings, those that break this property.
OwnershipCare == Careless \cap {"implArgs", "borrowed", "released", "abstract"} = {}

Frame == [pc : {"idle", "encoded", "returned", "failed"},
          op : {"none", "new", "impl", "access", "method"},
          self : Handle \cup {Null}, borrowed : SUBSET Handle, owned : SUBSET Handle,
          pins : BOOLEAN, at : Object \cup {Null}, in : SUBSET Object, taken : SUBSET Object,
          result : Object \cup {Null}, id : Id \cup {Null}]

Types ==
  /\ live \subseteq Object
  /\ owner \in [Object -> Object \cup {Null}]
  /\ ptr \in [Handle -> Object \cup {Null}]
  /\ made \subseteq Handle /\ fin \subseteq made /\ held \subseteq made
  /\ frame \in [Goroutine -> Frame]

\* What a call hands over: handles with a finalizer, whose pointers are those
\* in the request, in no other call.
HandsOver(g) ==
  LET f == frame[g]
  IN  /\ f.pc = "idle" \/ f.op = "impl" => f.owned = {}
      /\ f.pc = "idle" <=> f.op = "none"
      /\ f.op \in {"access", "method"} => f.at \in Object
      /\ f.owned \subseteq fin
      /\ f.taken = {ptr[h] : h \in f.owned}
      /\ \A h \in f.owned : ptr[h] # Null
      /\ f.pc = "returned" /\ f.op \in {"new", "impl"} => f.result \in Object

Apart == \A g, k \in Goroutine : g # k => frame[g].owned \cap frame[k].owned = {}

\* A finalizer runs for a handle that nobody can use any more.
Finalizer ==
  /\ freeing \in {"none", "free", "unregister"}
  /\ freeing = "none" <=> finalizing = Null
  /\ finalizing # Null =>
       /\ finalizing \in fin \ held
       /\ \A g \in Goroutine : finalizing \notin frame[g].owned
  /\ freeing = "unregister" => ptr[finalizing] = Null

\* An object that Go owns, and has not lost, has one handle to free it or one
\* call to make its handle, every other object neither.
Single(o) ==
  IF o \in live \ lost /\ owner[o] = Null
  THEN \/ \E h \in Handle : Freers(o) = {h} /\ Makers(o) = {}
       \/ \E g \in Goroutine : Freers(o) = {} /\ Makers(o) = {g}
  ELSE Freers(o) = {} /\ Makers(o) = {}

IInv ==
  /\ Types
  /\ \A g \in Goroutine : HandsOver(g)
  /\ Apart
  /\ Finalizer
  /\ \A o \in Object \ live : owner[o] = Null
  /\ lost \subseteq {o \in live : owner[o] = Null}
  /\ \A o \in Object : Single(o)

-----------------------------------------------------------------------------
\* Nothing is made or handed over at the start.
LEMMA InitIInv == Init => IInv
<1> SUFFICES ASSUME Init PROVE IInv
  OBVIOUS
<1> USE NullAssumption DEF Init, O!Init, Idle
<1>1. Types
  BY DEF Types, Frame
<1>2. \A g \in Goroutine : HandsOver(g)
  BY DEF HandsOver
<1>3. Apart /\ Finalizer
  BY DEF Apart, Finalizer
<1>4. \A o \in Object : Single(o) /\ owner[o] = Null
  BY DEF Single, Freers, Makers
<1> QED BY <1>1, <1>2, <1>3, <1>4 DEF IInv

\* One handle or one call is a count of one.
LEMMA IInvFreedOnce == IInv => FreedOnce
<1> SUFFICES ASSUME IInv, NEW o \in Object
             PROVE  IF o \in live \ lost /\ owner[o] = Null
                    THEN Cardinality(Freers(o)) + Cardinality(Makers(o)) = 1
                    ELSE Freers(o) \cup Makers(o) = {}
  BY DEF FreedOnce
<1>1. Single(o)
  BY DEF IInv
<1>2. \A h : Cardinality({h}) = 1
  BY FS_Singleton
<1>3. Cardinality({}) = 0
  BY FS_EmptySet
<1>4. CASE o \in live \ lost /\ owner[o] = Null
  <2>1. \/ Cardinality(Freers(o)) = 1 /\ Cardinality(Makers(o)) = 0
        \/ Cardinality(Freers(o)) = 0 /\ Cardinality(Makers(o)) = 1
    BY <1>1, <1>2, <1>3, <1>4 DEF Single
  <2> QED BY <1>4, <2>1
<1>5. CASE ~(o \in live \ lost /\ owner[o] = Null)
  BY <1>1, <1>5 DEF Single
<1> QED BY <1>4, <1>5

\* What is owned by a set of objects, but is not in it, belongs to an object.
LEMMA OwnedHasOwner ==
  ASSUME NEW A \in SUBSET Object, NEW x \in O!Owned(A), x \notin A
  PROVE  x \in Object /\ owner[x] \in Object
<1> DEFINE T == Object \ {x}
<1>1. x \in Object
  BY DEF O!Owned
<1>2. ASSUME owner[x] \notin Object PROVE FALSE
  <2>1. T \in SUBSET Object /\ A \subseteq T
    OBVIOUS
  <2>2. \A y \in Object : owner[y] \in T => y \in T
    BY <1>2
  <2>3. x \in T
    BY <2>1, <2>2 DEF O!Owned
  <2> QED BY <2>3
<1> QED BY <1>1, <1>2

\* Deleting objects deletes them.
LEMMA OwnedContains ==
  ASSUME NEW A \in SUBSET Object PROVE A \subseteq O!Owned(A)
BY DEF O!Owned

\* The collector never takes what is held or what a call mentions.
LEMMA ReachContains == ASSUME NEW S PROVE S \cap Handle \subseteq Reach(S)
BY DEF Reach

-----------------------------------------------------------------------------
(***************************************************************************)
(* The start of a call.                                                     *)
(***************************************************************************)
\* What all calls have in common.
Begun(g, f) ==
  /\ f \in Frame /\ frame[g] = Idle /\ frame' = [frame EXCEPT ![g] = f]
  /\ f.pc = "encoded" /\ f.op # "none"
  /\ f.op = "impl" => f.owned = {}
  /\ f.op \in {"access", "method"} => f.at \in Object
  /\ f.owned \subseteq held \cap fin
  /\ f.taken = {ptr[h] : h \in f.owned}
  /\ \A h \in f.owned : ptr[h] # Null /\ \A k \in Goroutine : h \notin frame[k].owned
  /\ UNCHANGED <<live, owner, lost, ptr, made, fin, held, collector>>

\* The request names what the call is given.
Requests(f, op, self, B, A, pins) ==
  /\ f.op = op /\ f.self = self /\ f.borrowed = B /\ f.owned = A /\ f.in = Ptrs(B)
  /\ f.pins = pins
  /\ f.at = IF self = Null THEN Null ELSE ptr[self]

\* Whatever function is called, its request names handles with finalizers
\* for what it hands over, in no other call.
LEMMA CallBegins ==
  ASSUME IInv, NEW g \in Goroutine, frame[g] = Idle,
         NEW op \in {"new", "impl", "access", "method"}, NEW pins \in BOOLEAN,
         NEW self \in Handle \cup {Null}, NEW B \in SUBSET held, NEW A \in SUBSET held,
         NEW id \in Id \cup {Null}, Call(g, op, self, B, A, pins, id),
         op = "impl" => A = {},
         op \in {"access", "method"} => self # Null,
         UNCHANGED <<live, owner, lost, ptr, made, fin, held, collector>>
  PROVE  \E f \in Frame : Begun(g, f) /\ Requests(f, op, self, B, A, pins)
<1> DEFINE f == [pc |-> "encoded", op |-> op, self |-> self, borrowed |-> B, owned |-> A,
                 pins |-> pins, at |-> IF self = Null THEN Null ELSE ptr[self],
                 in |-> Ptrs(B), taken |-> Ptrs(A), result |-> Null, id |-> id]
<1> Types
  BY DEF IInv
<1>1. \A h \in B \cup A \cup ({self} \ {Null}) : h \in Handle /\ ptr[h] \in Object
  BY NullAssumption DEF Call, Consumable, Usable, Types
<1>2. Ptrs(B) \in SUBSET Object /\ Ptrs(A) \in SUBSET Object
  BY <1>1 DEF Ptrs
<1>3. f.at \in Object \cup {Null} /\ (self # Null => f.at \in Object)
  BY <1>1
<1>4. B \in SUBSET Handle /\ A \in SUBSET Handle
  BY <1>1
<1>5. f \in Frame
  BY <1>2, <1>3, <1>4 DEF Frame
<1>6. frame' = [frame EXCEPT ![g] = f]
  BY DEF Call
<1>7. \A h \in A : /\ h \in fin /\ ptr[h] # Null
                  /\ \A k \in Goroutine : h \notin frame[k].owned
  BY DEF Call, Consumable, Usable, Given
<1>8. f.taken = {ptr[h] : h \in f.owned}
  BY DEF Ptrs
<1>9. Requests(f, op, self, B, A, pins)
  BY DEF Requests
<1> QED BY <1>3, <1>5, <1>6, <1>7, <1>8, <1>9 DEF Begun

\* Calls that give their arguments away say so in their operation.
LEMMA BeginBegins ==
  ASSUME OwnershipCare, IInv, NEW g \in Goroutine, Begin(g)
  PROVE  \E f \in Frame : Begun(g, f)
<1> USE DEF OwnershipCare
<1> Types
  BY DEF IInv
<1> frame[g] = Idle /\ held \subseteq Handle /\ Arguments \subseteq SUBSET held
  BY DEF Begin, Types, Arguments
<1> USE DEF cpp, handles
<1>1. ASSUME NEW B \in Arguments, NEW A \in Arguments, Construct(g, B, A)
      PROVE  \E f \in Frame : Begun(g, f)
  BY <1>1, CallBegins DEF Construct
<1>2. ASSUME NEW B \in Arguments, NEW A \in Arguments, NEW id \in Id,
             ConstructImpl(g, id, B, A)
      PROVE  \E f \in Frame : Begun(g, f)
  BY <1>2, CallBegins DEF ConstructImpl
<1>3. ASSUME NEW op \in {"access", "method"}, NEW h \in held, NEW B \in Arguments,
             NEW A \in Arguments, NEW pins \in BOOLEAN, Method(g, op, h, B, A, pins)
      PROVE  \E f \in Frame : Begun(g, f)
  BY <1>3, CallBegins, NullAssumption DEF Method
<1> QED BY <1>1, <1>2, <1>3 DEF Begin

\* The start of a call keeps the invariant.
LEMMA BegunStep ==
  ASSUME IInv, NEW g \in Goroutine, NEW f \in Frame, Begun(g, f)
  PROVE  IInv'
<1> /\ Types /\ Apart /\ Finalizer /\ \A k \in Goroutine : HandsOver(k)
    /\ frame \in [Goroutine -> Frame] /\ frame[g] = Idle
    /\ frame' = [frame EXCEPT ![g] = f]
    /\ UNCHANGED <<live, owner, lost, ptr, made, fin, held, finalizing, freeing>>
  BY DEF IInv, Types, Begun, collector
<1>1. Types'
  BY DEF Types
<1>2. ASSUME NEW k \in Goroutine PROVE HandsOver(k)'
  <2>1. HandsOver(k)
    OBVIOUS
  <2> QED BY <2>1 DEF HandsOver, Begun, Frame
<1>3. Apart' /\ Finalizer'
  BY DEF Apart, Finalizer, Begun
<1>4. ASSUME NEW o \in Object
      PROVE  Freers(o)' = Freers(o) /\ Makers(o)' = Makers(o)
  <2>1. \A k \in Goroutine : HandedOver(k)' = HandedOver(k)
    BY DEF HandedOver, Begun, Idle
  <2>2. Makers(o)' = Makers(o)
    BY DEF Makers, Begun, Idle
  <2> QED BY <2>1, <2>2 DEF Freers
<1>5. \A o \in Object : Single(o)'
  BY <1>4 DEF IInv, Single
<1> QED BY <1>1, <1>2, <1>3, <1>5 DEF IInv

-----------------------------------------------------------------------------
(***************************************************************************)
(* The C++ side.                                                            *)
(***************************************************************************)
\* Each object handed over has, until the call runs, the handle handed over
\* and nothing else to free it.
LEMMA TakenHasHandle ==
  ASSUME IInv, NEW g \in Goroutine, frame[g].pc = "encoded",
         NEW x \in Object, x \in frame[g].taken
  PROVE  /\ x \in live \ lost /\ owner[x] = Null /\ Makers(x) = {}
         /\ Freers(x) \subseteq frame[g].owned
<1>1. HandsOver(g) /\ Apart /\ Single(x)
  BY DEF IInv
<1>2. PICK h \in frame[g].owned : x = ptr[h]
  BY <1>1 DEF HandsOver
<1>3. \A k \in Goroutine : h \notin HandedOver(k)
  BY <1>1, <1>2 DEF HandedOver, Apart
<1>4. h \in Freers(x)
  BY <1>1, <1>2, <1>3 DEF Freers, HandsOver
<1> QED BY <1>1, <1>2, <1>4 DEF Single

\* What the ends of all calls have in common.
Answered(g, f) ==
  /\ frame[g].pc = "encoded" /\ frame' = [frame EXCEPT ![g] = f] /\ f \in Frame
  /\ f.pc \in {"returned", "failed"}
  /\ f.op = frame[g].op /\ f.owned = frame[g].owned /\ f.taken = frame[g].taken
  /\ f.at = frame[g].at
  /\ f.pc = "returned" /\ f.op \in {"new", "impl"} => f.result \in Object
  /\ UNCHANGED <<handles, held, collector>>

\* Their effect on all but the objects, and on who frees what.
LEMMA AnsweredStep ==
  ASSUME IInv, NEW g \in Goroutine, NEW f \in Frame, Answered(g, f),
         live' \subseteq Object, owner' \in [Object -> Object \cup {Null}]
  PROVE  /\ Types' /\ Apart' /\ Finalizer' /\ \A k \in Goroutine : HandsOver(k)'
         /\ \A x \in Object :
              /\ Freers(x)' = IF x \in f.taken THEN {} ELSE Freers(x)
              /\ Makers(x)' = IF f.pc = "returned" /\ f.op \in {"new", "impl"} /\ x = f.result
                              THEN Makers(x) \cup {g} ELSE Makers(x)
<1> /\ Types /\ Apart /\ Finalizer /\ \A k \in Goroutine : HandsOver(k)
    /\ frame \in [Goroutine -> Frame] /\ frame' = [frame EXCEPT ![g] = f]
    /\ UNCHANGED <<ptr, made, fin, held, finalizing, freeing>>
  BY DEF IInv, Types, Answered, handles, collector
<1>1. Types'
  BY DEF Types
<1>2. ASSUME NEW k \in Goroutine PROVE HandsOver(k)'
  <2>1. HandsOver(k)
    OBVIOUS
  <2> QED BY <2>1 DEF HandsOver, Answered
<1>3. Apart' /\ Finalizer'
  BY DEF Apart, Finalizer, Answered
<1>4. ASSUME NEW x \in Object
      PROVE  Freers(x)' = IF x \in f.taken THEN {} ELSE Freers(x)
  <2>1. /\ HandedOver(g) = {} /\ HandedOver(g)' = frame[g].owned
        /\ \A k \in Goroutine \ {g} : HandedOver(k)' = HandedOver(k)
    BY DEF HandedOver, Answered
  <2>2. Freers(x)' = Freers(x) \ frame[g].owned
    BY <2>1 DEF Freers
  <2>3. CASE x \in f.taken
    BY <2>2, <2>3, TakenHasHandle DEF Answered
  <2>4. CASE x \notin f.taken
    <3>1. \A h \in frame[g].owned : ptr[h] # x
      BY <2>4 DEF HandsOver, Answered
    <3> QED BY <2>2, <2>4, <3>1 DEF Freers
  <2> QED BY <2>3, <2>4
<1>5. ASSUME NEW x \in Object
      PROVE  Makers(x)' = IF f.pc = "returned" /\ f.op \in {"new", "impl"} /\ x = f.result
                          THEN Makers(x) \cup {g} ELSE Makers(x)
  BY DEF Makers, Answered
<1> QED BY <1>1, <1>2, <1>3, <1>4, <1>5

\* A failing call answers without a result.
LEMMA FailAnswers ==
  ASSUME IInv, NEW g \in Goroutine, frame[g].pc = "encoded", Fail(g),
         UNCHANGED <<handles, held, collector>>
  PROVE  \E a \in Frame : /\ Answered(g, a) /\ a.taken = frame[g].taken
                         /\ a.op = frame[g].op /\ a.pc = "failed"
<1> DEFINE a == [frame[g] EXCEPT !.pc = "failed"]
<1> Types
  BY DEF IInv
<1>1. a \in Frame /\ Answered(g, a)
  BY DEF Answered, Fail, Types, Frame
<1> QED BY <1>1 DEF Types, Frame

\* A result is that of the call.
LEMMA ReturnAnswers ==
  ASSUME IInv, NEW g \in Goroutine, frame[g].pc = "encoded",
         NEW o \in Object \cup {Null}, Return(g, o),
         frame[g].op \in {"new", "impl"} => o \in Object,
         UNCHANGED <<handles, held, collector>>
  PROVE  \E a \in Frame : /\ Answered(g, a) /\ a.taken = frame[g].taken
                         /\ a.op = frame[g].op /\ a.pc = "returned" /\ a.result = o
<1> DEFINE a == [frame[g] EXCEPT !.pc = "returned", !.result = o]
<1> Types
  BY DEF IInv
<1>1. a \in Frame /\ Answered(g, a)
  BY DEF Answered, Return, Types, Frame
<1> QED BY <1>1 DEF Types, Frame

\* What deleting does to objects that are not deleted themselves.
LEMMA DeletedFirst ==
  ASSUME IInv, NEW A \in SUBSET Object, NEW x \in O!Owned(A), x \notin A
  PROVE  Freers(x) = {} /\ Makers(x) = {} /\ x \notin lost
<1>1. x \in Object /\ owner[x] \in Object
  BY OwnedHasOwner
<1>2. Single(x) /\ lost \subseteq {o \in live : owner[o] = Null}
  BY <1>1 DEF IInv
<1> QED BY <1>1, <1>2, NullAssumption DEF Single

\* Deleting keeps live and owner in their types.
LEMMA DeleteTypes ==
  ASSUME Types, NEW A \in SUBSET Object, Delete(A)
  PROVE  live' \subseteq Object /\ owner' \in [Object -> Object \cup {Null}]
BY DEF Delete, Types

\* The C++ function makes, stores, takes over and returns, or fails.
LEMMA RunStep ==
  ASSUME OwnershipCare, IInv, NEW g \in Goroutine, Run(g)
  PROVE  IInv'
<1> USE DEF OwnershipCare
<1> DEFINE f == frame[g]
<1> /\ Types /\ HandsOver(g) /\ f \in Frame /\ f.pc = "encoded"
    /\ frame \in [Goroutine -> Frame]
    /\ \A x \in Object : Single(x)
    /\ \A x \in Object \ live : owner[x] = Null
    /\ lost \subseteq {x \in live : owner[x] = Null}
  BY DEF IInv, Types, Run
<1>0. \A x \in f.taken : x \in Object /\ x \in live \ lost /\ owner[x] = Null /\ Makers(x) = {}
  BY TakenHasHandle DEF Frame
<1>1. ASSUME NEW o \in Object, RunConstruct(g, o) PROVE IInv'
  <2>1. PICK a \in Frame : /\ Answered(g, a) /\ a.taken = f.taken /\ a.op = f.op
                         /\ a.pc = "returned" /\ a.result = o
    BY <1>1, ReturnAnswers DEF RunConstruct
  <2>2. /\ o \notin live /\ live' = live \cup {o} /\ f.op \in {"new", "impl"}
        /\ owner' = [x \in Object |-> IF x \in f.taken THEN o ELSE owner[x]]
        /\ lost' = lost
    BY <1>1 DEF RunConstruct
  <2>3. live' \subseteq Object /\ owner' \in [Object -> Object \cup {Null}]
    BY <2>2 DEF Types
  <2>4. /\ Types' /\ Apart' /\ Finalizer' /\ \A k \in Goroutine : HandsOver(k)'
        /\ \A x \in Object :
             /\ Freers(x)' = IF x \in f.taken THEN {} ELSE Freers(x)
             /\ Makers(x)' = IF x = o THEN Makers(x) \cup {g} ELSE Makers(x)
    BY <2>1, <2>2, <2>3, AnsweredStep
  <2>5. /\ \A x \in Object \ live' : owner'[x] = Null
        /\ lost' \subseteq {x \in live' : owner'[x] = Null}
    BY <1>0, <2>2 DEF Types
  <2>6. ASSUME NEW x \in Object PROVE Single(x)'
    <3>1. CASE x = o
      BY <1>0, <2>2, <2>4, <3>1 DEF Single
    <3>2. CASE x # o /\ x \in f.taken
      BY <1>0, <2>2, <2>4, <3>2, NullAssumption DEF Single
    <3>3. CASE x # o /\ x \notin f.taken
      BY <2>2, <2>4, <3>3 DEF Single
    <3> QED BY <3>1, <3>2, <3>3
  <2> QED BY <2>4, <2>5, <2>6 DEF IInv
<1>2. ASSUME NEW o \in Object, RunMakePart(g, o) PROVE IInv'
  <2>1. /\ f.op = "access" /\ f.owned = {} /\ o \notin live /\ live' = live \cup {o}
        /\ owner' = [owner EXCEPT ![o] = f.at] /\ f.at \in Object /\ lost' = lost
    BY <1>2 DEF RunMakePart, HandsOver
  <2>2. PICK a \in Frame : /\ Answered(g, a) /\ a.taken = f.taken /\ a.op = f.op
                         /\ a.pc = "returned" /\ a.result = o
    BY <1>2, ReturnAnswers DEF RunMakePart
  <2>3. f.taken = {}
    BY <2>1 DEF HandsOver
  <2>4. live' \subseteq Object /\ owner' \in [Object -> Object \cup {Null}]
    BY <2>1 DEF Types
  <2>5. /\ Types' /\ Apart' /\ Finalizer' /\ \A k \in Goroutine : HandsOver(k)'
        /\ \A x \in Object : Freers(x)' = Freers(x) /\ Makers(x)' = Makers(x)
    BY <2>1, <2>2, <2>3, <2>4, AnsweredStep
  <2>6. \A x \in Object : Single(x)'
    BY <2>1, <2>5, NullAssumption DEF Single, Types
  <2>7. /\ \A x \in Object \ live' : owner'[x] = Null
        /\ lost' \subseteq {x \in live' : owner'[x] = Null}
    BY <2>1 DEF Types
  <2> QED BY <2>5, <2>6, <2>7 DEF IInv
<1>3. ASSUME NEW o \in Object \cup {Null}, NEW S \in SUBSET Object, RunMethod(g, o, S)
      PROVE  IInv'
  <2>1. /\ f.op \in {"access", "method"} /\ live' = live /\ lost' = lost /\ f.at \in Object
        /\ owner' = [x \in Object |-> IF x \in f.taken THEN f.at ELSE owner[x]]
    BY <1>3 DEF RunMethod, HandsOver
  <2>2. PICK a \in Frame : Answered(g, a) /\ a.taken = f.taken /\ a.op = f.op
    <3>1. UNCHANGED <<handles, held, collector>>
      BY <1>3 DEF RunMethod
    <3>2. CASE Return(g, o)
      BY <2>1, <3>1, <3>2, ReturnAnswers
    <3>3. CASE Fail(g)
      BY <3>1, <3>3, FailAnswers
    <3> QED BY <1>3, <3>2, <3>3 DEF RunMethod
  <2>3. live' \subseteq Object /\ owner' \in [Object -> Object \cup {Null}]
    BY <2>1 DEF Types
  <2>4. /\ Types' /\ Apart' /\ Finalizer' /\ \A k \in Goroutine : HandsOver(k)'
        /\ \A x \in Object : /\ Freers(x)' = IF x \in f.taken THEN {} ELSE Freers(x)
                             /\ Makers(x)' = Makers(x)
    BY <2>1, <2>2, <2>3, AnsweredStep
  <2>5. ASSUME NEW x \in Object PROVE Single(x)'
    <3>1. CASE x \in f.taken
      BY <1>0, <2>1, <2>4, <3>1, NullAssumption DEF Single
    <3>2. CASE x \notin f.taken
      BY <2>1, <2>4, <3>2 DEF Single
    <3> QED BY <3>1, <3>2
  <2>6. /\ \A x \in Object \ live' : owner'[x] = Null
        /\ lost' \subseteq {x \in live' : owner'[x] = Null}
    BY <1>0, <2>1 DEF Types
  <2> QED BY <2>4, <2>5, <2>6 DEF IInv
<1>4. ASSUME RunFails(g) PROVE IInv'
  <2> DEFINE gone == O!Owned(f.taken)
  <2>1. PICK a \in Frame : Answered(g, a) /\ a.taken = f.taken /\ a.pc = "failed"
    BY <1>4, FailAnswers DEF RunFails
  <2>2. Delete(f.taken) /\ f.taken \in SUBSET Object /\ lost' = lost
    BY <1>4 DEF RunFails, Frame
  <2>3. live' \subseteq Object /\ owner' \in [Object -> Object \cup {Null}]
    BY <2>2, DeleteTypes
  <2>4. /\ Types' /\ Apart' /\ Finalizer' /\ \A k \in Goroutine : HandsOver(k)'
        /\ \A x \in Object : /\ Freers(x)' = IF x \in f.taken THEN {} ELSE Freers(x)
                             /\ Makers(x)' = Makers(x)
    BY <2>1, <2>3, AnsweredStep
  <2>5. /\ live' = live \ gone
        /\ owner' = [x \in Object |-> IF x \in gone THEN Null ELSE owner[x]]
    BY <2>2 DEF Delete
  <2>6. ASSUME NEW x \in Object PROVE Single(x)'
    <3>1. CASE x \in f.taken
      <4>1. x \in gone
        BY <2>2, <3>1, OwnedContains
      <4> QED BY <1>0, <2>4, <2>5, <3>1, <4>1 DEF Single
    <3>2. CASE x \in gone \ f.taken
      BY <2>2, <2>4, <2>5, <3>2, DeletedFirst DEF Single
    <3>3. CASE x \notin gone /\ x \notin f.taken
      BY <2>2, <2>4, <2>5, <3>3 DEF Single
    <3> QED BY <3>1, <3>2, <3>3
  <2>7. \A x \in Object \ live' : owner'[x] = Null
    BY <2>5
  <2>8. lost \cap gone = {}
    BY <1>0, <2>2, DeletedFirst
  <2>9. lost' \subseteq {x \in live' : owner'[x] = Null}
    BY <2>2, <2>5, <2>8 DEF Types
  <2> QED BY <2>4, <2>6, <2>7, <2>9 DEF IInv
<1>5. ASSUME RunRefused(g) PROVE IInv'
  <2>1. PICK a \in Frame : Answered(g, a) /\ a.taken = f.taken /\ a.pc = "failed"
    BY <1>5, FailAnswers DEF RunRefused
  <2>2. UNCHANGED <<live, owner>> /\ lost' = lost \cup f.taken
    BY <1>5 DEF RunRefused
  <2>3. /\ Types' /\ Apart' /\ Finalizer' /\ \A k \in Goroutine : HandsOver(k)'
        /\ \A x \in Object : /\ Freers(x)' = IF x \in f.taken THEN {} ELSE Freers(x)
                             /\ Makers(x)' = Makers(x)
    BY <2>1, <2>2, AnsweredStep DEF Types
  <2>4. ASSUME NEW x \in Object PROVE Single(x)'
    <3>1. CASE x \in f.taken
      BY <1>0, <2>2, <2>3, <3>1 DEF Single
    <3>2. CASE x \notin f.taken
      BY <2>2, <2>3, <3>2 DEF Single
    <3> QED BY <3>1, <3>2
  <2>5. lost' \subseteq {x \in live' : owner'[x] = Null}
    BY <1>0, <2>2
  <2> QED BY <2>2, <2>3, <2>4, <2>5 DEF IInv
<1>6. \A S \in {{}, f.in} : S \in SUBSET Object
  BY DEF Frame
<1>7. CASE \E o \in Object : RunConstruct(g, o) \/ RunMakePart(g, o)
  BY <1>1, <1>2, <1>7
<1>8. CASE \E o \in Object \cup {Null}, S \in {{}, f.in} : RunMethod(g, o, S)
  BY <1>3, <1>6, <1>8
<1> QED BY <1>4, <1>5, <1>7, <1>8 DEF Run

-----------------------------------------------------------------------------
(***************************************************************************)
(* The Go function after the call.                                          *)
(***************************************************************************)
\* A call ends: what it handed over is cleared, and N are the handles it makes.
LEMMA EndStep ==
  ASSUME IInv, NEW g \in Goroutine, NEW N \in SUBSET (Handle \ made),
         frame[g].pc \in {"returned", "failed"}, frame' = [frame EXCEPT ![g] = Idle],
         UNCHANGED <<live, owner, lost, collector>>,
         ptr' \in [Handle -> Object \cup {Null}],
         \A k \in made : ptr'[k] = IF k \in frame[g].owned THEN Null ELSE ptr[k],
         made' = made \cup N, held' \in {held, held \cup N}, fin' \in {fin, fin \cup N}
  PROVE  /\ Types' /\ Apart' /\ Finalizer' /\ \A k \in Goroutine : HandsOver(k)'
         /\ \A x \in Object :
              /\ Freers(x)' = Freers(x) \cup {k \in fin' \ fin : ptr'[k] = x}
              /\ Makers(x)' = Makers(x) \ {g}
<1> /\ Types /\ Apart /\ Finalizer /\ \A k \in Goroutine : HandsOver(k)
    /\ frame \in [Goroutine -> Frame]
    /\ UNCHANGED <<finalizing, freeing>>
    /\ fin \subseteq made /\ made \subseteq Handle
  BY DEF IInv, Types, collector
<1>0. Idle \in Frame /\ Idle.pc = "idle" /\ Idle.op = "none" /\ Idle.owned = {}
      /\ Idle.taken = {}
  BY DEF Idle, Frame
<1>1. Types'
  BY <1>0 DEF Types
<1>2. ASSUME NEW k \in Goroutine PROVE HandsOver(k)'
  <2>1. CASE k = g
    BY <1>0, <2>1 DEF HandsOver
  <2>2. CASE k # g
    <3>1. HandsOver(k) /\ frame'[k] = frame[k]
      BY <2>2
    <3>2. \A h \in frame[k].owned : h \in made /\ h \notin frame[g].owned
      BY <2>2, <3>1 DEF HandsOver, Apart
    <3>3. \A h \in frame[k].owned : ptr'[h] = ptr[h]
      BY <3>2
    <3>4. {ptr'[h] : h \in frame[k].owned} = {ptr[h] : h \in frame[k].owned}
      BY <3>3
    <3> QED BY <3>1, <3>3, <3>4 DEF HandsOver
  <2> QED BY <2>1, <2>2
<1>3. Apart'
  BY <1>0 DEF Apart
<1>4. Finalizer'
  <2>1. finalizing # Null => finalizing \in made /\ ptr'[finalizing] = ptr[finalizing]
    BY DEF Finalizer
  <2>2. finalizing # Null => finalizing \in fin' \ held'
    BY <2>1 DEF Finalizer
  <2>3. finalizing # Null => \A k \in Goroutine : finalizing \notin frame'[k].owned
    BY <1>0 DEF Finalizer
  <2> QED BY <2>1, <2>2, <2>3 DEF Finalizer
<1>5. ASSUME NEW x \in Object
      PROVE  Freers(x)' = Freers(x) \cup {k \in fin' \ fin : ptr'[k] = x}
  <2>1. /\ HandedOver(g) = frame[g].owned /\ HandedOver(g)' = {}
        /\ \A k \in Goroutine \ {g} : HandedOver(k)' = HandedOver(k)
    BY <1>0 DEF HandedOver
  <2>2. \A k \in Goroutine : HandedOver(k) \subseteq fin
    BY DEF HandedOver, HandsOver
  <2>3. ASSUME NEW h \in fin
        PROVE  h \in Freers(x)' <=> h \in Freers(x)
    <3>1. CASE h \in frame[g].owned
      BY <2>1, <3>1, NullAssumption DEF Freers
    <3>2. CASE h \notin frame[g].owned
      BY <2>1, <3>2 DEF Freers
    <3> QED BY <3>1, <3>2
  <2>4. ASSUME NEW h \in fin' \ fin
        PROVE  h \in Freers(x)' <=> ptr'[h] = x
    BY <2>1, <2>2 DEF Freers
  <2>5. Freers(x)' \subseteq fin' /\ Freers(x) \subseteq fin
    BY DEF Freers
  <2> QED BY <2>3, <2>4, <2>5
<1>6. ASSUME NEW x \in Object PROVE Makers(x)' = Makers(x) \ {g}
  BY <1>0 DEF Makers
<1> QED BY <1>1, <1>2, <1>3, <1>4, <1>5, <1>6

\* The invariant after a call, unless its result gets a finalizer.
LEMMA EndSingle ==
  ASSUME IInv, NEW g \in Goroutine, UNCHANGED <<live, owner, lost>>,
         Types', Apart', Finalizer', \A k \in Goroutine : HandsOver(k)',
         \A x \in Object : Freers(x)' = Freers(x) /\ Makers(x)' = Makers(x)
  PROVE  IInv'
BY DEF IInv, Single

\* What clearing leaves of the pointers.
LEMMA ClearedPtr ==
  ASSUME IInv, NEW g \in Goroutine
  PROVE  Cleared(frame[g]) =
           [k \in Handle |-> IF k \in frame[g].owned THEN Null ELSE ptr[k]]
<1>1. ptr = [k \in Handle |-> ptr[k]] /\ HandsOver(g)
  BY DEF IInv, Types
<1>2. frame[g].op = "impl" => frame[g].owned = {}
  BY <1>1 DEF HandsOver
<1>3. CASE frame[g].op = "impl"
  BY <1>1, <1>2, <1>3 DEF Cleared
<1>4. CASE frame[g].op # "impl"
  BY <1>4 DEF Cleared
<1> QED BY <1>3, <1>4

\* The result of a constructor gets the one handle that frees it; what was
\* handed over is cleared.
LEMMA FinishStep ==
  ASSUME OwnershipCare, IInv, NEW g \in Goroutine, Finish(g)
  PROVE  IInv'
<1> DEFINE f == frame[g]
<1> Types /\ HandsOver(g) /\ fin \subseteq made /\ made \subseteq Handle
    /\ ptr \in [Handle -> Object \cup {Null}]
  BY DEF IInv, Types
<1>0. Cleared(f) = [k \in Handle |-> IF k \in f.owned THEN Null ELSE ptr[k]]
  BY ClearedPtr
<1>1. ASSUME NEW h \in Handle, FinishConstruct(g, h) PROVE IInv'
  <2>1. /\ f.pc = "returned" /\ f.op \in {"new", "impl"} /\ h \notin made
        /\ made' = made \cup {h} /\ fin' = fin \cup {h} /\ held' = held \cup {h}
        /\ ptr' = [Cleared(f) EXCEPT ![h] = f.result]
        /\ frame' = [frame EXCEPT ![g] = Idle]
        /\ UNCHANGED <<live, owner, lost, collector>>
    BY <1>1 DEF FinishConstruct, cpp, OwnershipCare
  <2>2. f.result \in Object
    BY <2>1 DEF HandsOver
  <2>3. /\ ptr' \in [Handle -> Object \cup {Null}] /\ ptr'[h] = f.result
        /\ \A k \in made : ptr'[k] = IF k \in f.owned THEN Null ELSE ptr[k]
    BY <1>0, <2>1, <2>2
  <2>4. /\ Types' /\ Apart' /\ Finalizer' /\ \A k \in Goroutine : HandsOver(k)'
        /\ \A x \in Object :
             /\ Freers(x)' = Freers(x) \cup {k \in {h} : ptr'[k] = x}
             /\ Makers(x)' = Makers(x) \ {g}
    <3>1. {h} \in SUBSET (Handle \ made) /\ fin' \ fin = {h}
      BY <2>1
    <3>2. /\ Types' /\ Apart' /\ Finalizer' /\ \A k \in Goroutine : HandsOver(k)'
          /\ \A x \in Object :
               /\ Freers(x)' = Freers(x) \cup {k \in fin' \ fin : ptr'[k] = x}
               /\ Makers(x)' = Makers(x) \ {g}
      <4> HIDE DEF f
      <4> QED BY <2>1, <2>3, <3>1, EndStep DEF f
    <3> QED BY <3>1, <3>2
  <2>5. g \in Makers(f.result)
    BY <2>1 DEF Makers
  <2>6. ASSUME NEW x \in Object PROVE Single(x)'
    <3>1. Single(x)
      BY DEF IInv
    <3>2. CASE x = f.result
      <4>1. x \in live \ lost /\ owner[x] = Null /\ Freers(x) = {} /\ Makers(x) = {g}
        BY <2>5, <3>1, <3>2 DEF Single
      <4>2. Freers(x)' = {h} /\ Makers(x)' = {}
        BY <2>3, <2>4, <3>2, <4>1
      <4> QED BY <2>1, <4>1, <4>2 DEF Single
    <3>3. CASE x # f.result
      <4>1. g \notin Makers(x)
        BY <3>3 DEF Makers
      <4>2. {k \in {h} : ptr'[k] = x} = {}
        BY <2>3, <3>3
      <4>3. Freers(x)' = Freers(x) \cup {k \in {h} : ptr'[k] = x}
        BY <2>4
      <4>4. Freers(x)' = Freers(x)
        BY <4>2, <4>3
      <4>5. Makers(x)' = Makers(x) \ {g}
        BY <2>4
      <4>6. Makers(x)' = Makers(x)
        BY <4>1, <4>5
      <4> QED BY <2>1, <3>1, <4>4, <4>6 DEF Single
    <3> QED BY <3>2, <3>3
  <2> QED BY <2>1, <2>4, <2>6 DEF IInv
<1>2. ASSUME NEW h \in Handle, FinishAccess(g, h) PROVE IInv'
  <2>1. /\ f.pc = "returned" /\ f.op = "access" /\ h \notin made
        /\ made' = made \cup {h} /\ fin' = fin /\ held' = held \cup {h}
        /\ ptr' = [Cleared(f) EXCEPT ![h] = f.result]
        /\ frame' = [frame EXCEPT ![g] = Idle]
        /\ UNCHANGED <<live, owner, lost, collector>>
    BY <1>2 DEF FinishAccess, cpp
  <2>2. f.result \in Object \cup {Null}
    BY DEF Types, Frame
  <2>3. /\ ptr' \in [Handle -> Object \cup {Null}]
        /\ \A k \in made : ptr'[k] = IF k \in f.owned THEN Null ELSE ptr[k]
    BY <1>0, <2>1, <2>2
  <2>4. /\ Types' /\ Apart' /\ Finalizer' /\ \A k \in Goroutine : HandsOver(k)'
        /\ \A x \in Object :
             /\ Freers(x)' = Freers(x) \cup {k \in fin' \ fin : ptr'[k] = x}
             /\ Makers(x)' = Makers(x) \ {g}
    <3>1. {h} \in SUBSET (Handle \ made)
      BY <2>1
    <3> HIDE DEF f
    <3> QED BY <2>1, <2>3, <3>1, EndStep DEF f
  <2>5. \A x \in Object : Freers(x)' = Freers(x) /\ Makers(x)' = Makers(x)
    BY <2>1, <2>4 DEF Makers
  <2> QED BY <2>1, <2>4, <2>5, EndSingle
<1>3. ASSUME ptr' = Cleared(f), frame' = [frame EXCEPT ![g] = Idle],
             f.pc = "failed" \/ (f.pc = "returned" /\ f.op \in {"access", "method"}),
             UNCHANGED <<live, owner, lost, made, fin, held, collector>>
      PROVE  IInv'
  <2>1. /\ ptr' \in [Handle -> Object \cup {Null}]
        /\ \A k \in made : ptr'[k] = IF k \in f.owned THEN Null ELSE ptr[k]
    BY <1>0, <1>3
  <2>2. /\ Types' /\ Apart' /\ Finalizer' /\ \A k \in Goroutine : HandsOver(k)'
        /\ \A x \in Object :
             /\ Freers(x)' = Freers(x) \cup {k \in fin' \ fin : ptr'[k] = x}
             /\ Makers(x)' = Makers(x) \ {g}
    <3>1. {} \in SUBSET (Handle \ made) /\ made' = made \cup {}
      BY <1>3
    <3> HIDE DEF f
    <3> QED BY <1>3, <2>1, <3>1, EndStep DEF f
  <2>3. \A x \in Object : Freers(x)' = Freers(x) /\ Makers(x)' = Makers(x)
    BY <1>3, <2>2 DEF Makers
  <2> QED BY <1>3, <2>2, <2>3, EndSingle
<1>4. ASSUME FinishCall(g) PROVE IInv'
  <2>1. /\ ptr' = Cleared(f) /\ frame' = [frame EXCEPT ![g] = Idle]
        /\ f.pc = "failed" \/ (f.pc = "returned" /\ f.op \in {"access", "method"})
        /\ UNCHANGED <<live, owner, lost, made, fin, held, collector>>
    BY <1>4 DEF FinishCall, cpp
  <2> QED BY <1>3, <2>1
<1>5. ASSUME FinishFailed(g) PROVE IInv'
  <2>1. /\ ptr' = Cleared(f) /\ frame' = [frame EXCEPT ![g] = Idle]
        /\ f.pc = "failed" \/ (f.pc = "returned" /\ f.op \in {"access", "method"})
        /\ UNCHANGED <<live, owner, lost, made, fin, held, collector>>
    BY <1>5 DEF FinishFailed, cpp
  <2> QED BY <1>3, <2>1
<1> QED BY <1>1, <1>2, <1>4, <1>5 DEF Finish

-----------------------------------------------------------------------------
(***************************************************************************)
(* The application drops handles, and the collector.                        *)
(***************************************************************************)
\* Dropping a reference frees nothing.
LEMMA DropStep ==
  ASSUME IInv, NEW h \in Handle, Drop(h)
  PROVE  IInv'
<1>1. /\ held' = held \ {h}
      /\ UNCHANGED <<live, owner, lost, ptr, made, fin, frame, finalizing, freeing>>
  BY DEF Drop, cpp, handles, collector
<1>2. Types' /\ Apart' /\ Finalizer' /\ \A k \in Goroutine : HandsOver(k)'
  BY <1>1 DEF IInv, Types, Apart, Finalizer, HandsOver
<1>3. \A x \in Object : Freers(x)' = Freers(x) /\ Makers(x)' = Makers(x)
  BY <1>1 DEF Freers, Makers, HandedOver
<1> QED BY <1>1, <1>2, <1>3 DEF IInv, Single

\* A finalizer starts only for a handle that is neither held nor handed over.
LEMMA FinalizeStep ==
  ASSUME IInv, NEW h \in Handle, Finalize(h)
  PROVE  IInv'
<1> /\ Types /\ Finalizer /\ \A k \in Goroutine : HandsOver(k)
  BY DEF IInv
<1>1. /\ finalizing' = h /\ freeing' = "free" /\ h \in fin /\ h \notin Reach(Roots)
      /\ UNCHANGED <<live, owner, lost, ptr, made, fin, held, frame>>
  BY DEF Finalize, Finalizable, cpp, handles
<1>2. h \notin Roots
  BY <1>1, ReachContains
<1>3. h \notin held
  BY <1>2 DEF Roots
<1>4. ASSUME NEW k \in Goroutine PROVE h \notin frame[k].owned
  <2>1. SUFFICES ASSUME h \in frame[k].owned PROVE FALSE
    OBVIOUS
  <2>2. frame[k] \in Frame /\ HandsOver(k)
    BY DEF Types
  <2>3. frame[k].op \in {"new", "access", "method"}
    BY <2>1, <2>2 DEF HandsOver, Frame
  <2>4. h \in Mentioned(frame[k])
    BY <2>1, <2>3 DEF Mentioned
  <2> QED BY <1>2, <2>4 DEF Roots
<1>5. Types' /\ Apart' /\ \A k \in Goroutine : HandsOver(k)'
  BY <1>1 DEF IInv, Types, Apart, HandsOver
<1>6. Finalizer'
  <2>1. h # Null
    BY NullAssumption
  <2> QED BY <1>1, <1>3, <1>4, <2>1 DEF Finalizer
<1>7. \A x \in Object : Freers(x)' = Freers(x) /\ Makers(x)' = Makers(x)
  BY <1>1 DEF Freers, Makers, HandedOver
<1> QED BY <1>1, <1>5, <1>6, <1>7 DEF IInv, Single

\* The finalizer frees, or loses, the object that it alone is there to free.
LEMMA FreeStep ==
  ASSUME IInv, Free
  PROVE  IInv'
<1> DEFINE p == ptr[finalizing]
<1> /\ Types /\ Apart /\ Finalizer /\ \A k \in Goroutine : HandsOver(k)
    /\ ptr \in [Handle -> Object \cup {Null}] /\ fin \subseteq Handle
    /\ lost \subseteq {x \in live : owner[x] = Null}
  BY DEF IInv, Types
<1>1. /\ freeing = "free" /\ freeing' = "unregister"
      /\ ptr' = [ptr EXCEPT ![finalizing] = Null]
      /\ UNCHANGED <<made, fin, held, frame, finalizing>>
      /\ \/ p # Null /\ Delete({p}) /\ lost' = lost
         \/ UNCHANGED <<live, owner>> /\ lost' = lost \cup ({p} \ {Null})
  BY DEF Free
<1>2. /\ finalizing \in fin \ held /\ finalizing # Null
      /\ \A k \in Goroutine : finalizing \notin frame[k].owned
  BY <1>1 DEF Finalizer
<1>3. live' \subseteq Object /\ owner' \in [Object -> Object \cup {Null}]
  <2>1. p # Null => {p} \in SUBSET Object
    BY <1>2
  <2> QED BY <1>1, <2>1, DeleteTypes DEF Types
<1>4. Types' /\ Apart' /\ Finalizer'
  BY <1>1, <1>2, <1>3 DEF Types, Apart, Finalizer
<1>5. ASSUME NEW k \in Goroutine PROVE HandsOver(k)'
  <2>1. \A h \in frame[k].owned : ptr'[h] = ptr[h]
    BY <1>1, <1>2 DEF HandsOver
  <2>2. {ptr'[h] : h \in frame[k].owned} = {ptr[h] : h \in frame[k].owned}
    BY <2>1
  <2>3. HandsOver(k)
    OBVIOUS
  <2> QED BY <1>1, <2>1, <2>2, <2>3 DEF HandsOver
<1>6. ASSUME NEW x \in Object
      PROVE  Freers(x)' = Freers(x) \ {finalizing} /\ Makers(x)' = Makers(x)
  <2>1. ptr'[finalizing] # x /\ \A h \in fin \ {finalizing} : ptr'[h] = ptr[h]
    BY <1>1, <1>2, NullAssumption
  <2>2. \A k \in Goroutine : HandedOver(k)' = HandedOver(k)
    BY <1>1 DEF HandedOver
  <2>3. Makers(x)' = Makers(x)
    BY <1>1 DEF Makers
  <2> QED BY <1>1, <2>1, <2>2, <2>3 DEF Freers
<1>7. ASSUME p # Null
      PROVE  /\ p \in Object /\ p \in live \ lost /\ owner[p] = Null
             /\ Freers(p) = {finalizing} /\ Makers(p) = {}
  <2>1. p \in Object /\ Single(p)
    BY <1>2, <1>7 DEF IInv
  <2>2. \A k \in Goroutine : finalizing \notin HandedOver(k)
    BY <1>2 DEF HandedOver
  <2>3. finalizing \in Freers(p)
    BY <1>2, <2>2 DEF Freers
  <2> QED BY <2>1, <2>3 DEF Single
<1>8. CASE UNCHANGED <<live, owner>> /\ lost' = lost \cup ({p} \ {Null})
  <2>1. ASSUME NEW x \in Object PROVE Single(x)'
    <3>1. CASE x = p
      <4>1. x # Null
        BY NullAssumption
      <4> QED BY <1>6, <1>7, <1>8, <3>1, <4>1 DEF Single
    <3>2. CASE x # p
      <4>1. finalizing \notin Freers(x)
        BY <3>2 DEF Freers
      <4>2. Freers(x)' = Freers(x) /\ Makers(x)' = Makers(x)
        BY <1>6, <4>1
      <4>3. Single(x)
        BY DEF IInv
      <4> QED BY <1>8, <3>2, <4>2, <4>3 DEF Single
    <3> QED BY <3>1, <3>2
  <2>2. lost' \subseteq {x \in live' : owner'[x] = Null}
    BY <1>7, <1>8
  <2>3. \A x \in Object \ live' : owner'[x] = Null
    BY <1>8 DEF IInv
  <2> QED BY <1>4, <1>5, <2>1, <2>2, <2>3 DEF IInv
<1>9. CASE p # Null /\ Delete({p}) /\ lost' = lost
  <2> DEFINE gone == O!Owned({p})
  <2>1. {p} \in SUBSET Object
    BY <1>7, <1>9
  <2>2. /\ live' = live \ gone
        /\ owner' = [x \in Object |-> IF x \in gone THEN Null ELSE owner[x]]
    BY <1>9 DEF Delete
  <2>3. ASSUME NEW x \in Object PROVE Single(x)'
    <3>1. CASE x = p
      <4>1. x \in gone
        BY <2>1, <3>1, OwnedContains
      <4>2. Freers(x)' = {} /\ Makers(x)' = {}
        BY <1>6, <1>7, <1>9, <3>1
      <4> QED BY <2>2, <4>1, <4>2 DEF Single
    <3>2. CASE x \in gone \ {p}
      <4>1. Freers(x) = {} /\ Makers(x) = {}
        BY <2>1, <3>2, DeletedFirst
      <4>2. Freers(x)' = {} /\ Makers(x)' = {}
        BY <1>6, <4>1
      <4> QED BY <2>2, <3>2, <4>2 DEF Single
    <3>3. CASE x \notin gone /\ x # p
      <4>1. finalizing \notin Freers(x)
        BY <3>3 DEF Freers
      <4>2. Freers(x)' = Freers(x) /\ Makers(x)' = Makers(x)
        BY <1>6, <4>1
      <4>3. Single(x)
        BY DEF IInv
      <4> QED BY <1>9, <2>2, <3>3, <4>2, <4>3 DEF Single
    <3> QED BY <3>1, <3>2, <3>3
  <2>4. \A x \in Object \ live' : owner'[x] = Null
    BY <2>2 DEF IInv
  <2>5. lost \cap gone = {}
    BY <1>7, <1>9, <2>1, DeletedFirst
  <2>6. lost' \subseteq {x \in live' : owner'[x] = Null}
    BY <1>9, <2>2, <2>5 DEF Types
  <2> QED BY <1>4, <1>5, <2>3, <2>4, <2>6 DEF IInv
<1> QED BY <1>1, <1>8, <1>9

\* A finalizer that has freed its object is gone without a trace.
LEMMA UnregisterStep ==
  ASSUME IInv, Unregister
  PROVE  IInv'
<1> /\ Types /\ Apart /\ Finalizer /\ \A k \in Goroutine : HandsOver(k)
  BY DEF IInv
<1>1. /\ freeing = "unregister" /\ freeing' = "none" /\ finalizing' = Null
      /\ fin' = fin \ {finalizing}
      /\ UNCHANGED <<live, owner, lost, ptr, made, held, frame>>
  BY DEF Unregister, cpp
<1>2. /\ ptr[finalizing] = Null
      /\ \A k \in Goroutine : finalizing \notin frame[k].owned
  BY <1>1 DEF Finalizer
<1>3. Types' /\ Apart' /\ Finalizer'
  BY <1>1 DEF Types, Apart, Finalizer
<1>4. ASSUME NEW k \in Goroutine PROVE HandsOver(k)'
  <2>1. HandsOver(k)
    OBVIOUS
  <2> QED BY <1>1, <1>2, <2>1 DEF HandsOver
<1>5. ASSUME NEW x \in Object PROVE Freers(x)' = Freers(x) /\ Makers(x)' = Makers(x)
  BY <1>1, <1>2, NullAssumption DEF Freers, Makers, HandedOver
<1> QED BY <1>1, <1>3, <1>4, <1>5 DEF IInv, Single

\* Memory is reclaimed only of handles that are not held and have no finalizer.
LEMMA CollectStep ==
  ASSUME IInv, Collect
  PROVE  IInv'
<1> /\ Types /\ Apart /\ Finalizer /\ \A k \in Goroutine : HandsOver(k)
    /\ ptr \in [Handle -> Object \cup {Null}] /\ fin \subseteq made /\ made \subseteq Handle
    /\ held \subseteq made
  BY DEF IInv, Types
<1>1. /\ made' = made \ Garbage
      /\ ptr' = [h \in Handle |-> IF h \in Garbage THEN Null ELSE ptr[h]]
      /\ UNCHANGED <<live, owner, lost, fin, held, frame, finalizing, freeing>>
  BY DEF Collect, cpp, collector
<1>2. Garbage \cap fin = {}
  BY DEF Garbage
<1>3. Garbage \cap held = {}
  <2>1. held \subseteq (Roots \cup fin) \cap Handle
    BY DEF Roots
  <2>2. held \subseteq Reach(Roots \cup fin)
    BY <2>1, ReachContains
  <2> QED BY <2>2 DEF Garbage
<1>4. ptr' \in [Handle -> Object \cup {Null}] /\ \A h \in fin : ptr'[h] = ptr[h]
  BY <1>1, <1>2
<1>5. Types' /\ Apart' /\ Finalizer'
  BY <1>1, <1>2, <1>3, <1>4 DEF Types, Apart, Finalizer
<1>6. ASSUME NEW k \in Goroutine PROVE HandsOver(k)'
  <2>1. \A h \in frame[k].owned : ptr'[h] = ptr[h]
    BY <1>4 DEF HandsOver
  <2>2. {ptr'[h] : h \in frame[k].owned} = {ptr[h] : h \in frame[k].owned}
    BY <2>1
  <2>3. HandsOver(k)
    OBVIOUS
  <2> QED BY <1>1, <2>1, <2>2, <2>3 DEF HandsOver
<1>7. ASSUME NEW x \in Object PROVE Freers(x)' = Freers(x) /\ Makers(x)' = Makers(x)
  <2>1. \A k \in Goroutine : HandedOver(k)' = HandedOver(k)
    BY <1>1 DEF HandedOver
  <2> QED BY <1>1, <1>4, <2>1 DEF Freers, Makers
<1> QED BY <1>1, <1>5, <1>6, <1>7 DEF IInv, Single

\* What other components do leaves the handles alone.
LEMMA StutterStep ==
  ASSUME IInv, UNCHANGED vars
  PROVE  IInv'
<1>1. UNCHANGED <<live, owner, lost, ptr, made, fin, held, frame, finalizing, freeing>>
  BY DEF vars, cpp, handles, collector
<1>2. Types' /\ Apart' /\ Finalizer' /\ \A k \in Goroutine : HandsOver(k)'
  BY <1>1 DEF IInv, Types, Apart, Finalizer, HandsOver
<1>3. \A x \in Object : Freers(x)' = Freers(x) /\ Makers(x)' = Makers(x)
  BY <1>1 DEF Freers, Makers, HandedOver
<1> QED BY <1>1, <1>2, <1>3 DEF IInv, Single

-----------------------------------------------------------------------------
\* Every step of a careful application and of the collector keeps the invariant.
LEMMA InductiveInvariant ==
  ASSUME OwnershipCare, IInv, [Next]_vars
  PROVE  IInv'
<1>1. ASSUME NEW g \in Goroutine, Begin(g) PROVE IInv'
  BY <1>1, BeginBegins, BegunStep
<1>2. ASSUME NEW g \in Goroutine, Run(g) PROVE IInv'
  BY <1>2, RunStep
<1>3. ASSUME NEW g \in Goroutine, Finish(g) PROVE IInv'
  BY <1>3, FinishStep
<1>4. ASSUME NEW h \in Handle, Drop(h) PROVE IInv'
  BY <1>4, DropStep
<1>5. ASSUME NEW h \in Handle, Finalize(h) PROVE IInv'
  BY <1>5, FinalizeStep
<1>6. CASE Free
  BY <1>6, FreeStep
<1>7. CASE Unregister
  BY <1>7, UnregisterStep
<1>8. CASE Collect
  BY <1>8, CollectStep
<1>9. CASE UNCHANGED vars
  BY <1>9, StutterStep
<1> QED BY <1>1, <1>2, <1>3, <1>4, <1>5, <1>6, <1>7, <1>8, <1>9 DEF Next

\* No C++ object is freed twice, and none is lost but those that a call that was
\* refused, or trapped, was to hand over or to free, if the application gives
\* unique_ptrs to no Go-implemented class, free functions make objects of concrete
\* classes and C++ gives away exactly what Go takes as given: constructors,
\* unique_ptr arguments, errors of the callee and finalizers hand each object on
\* to exactly one owner.
THEOREM FreedOnceAlways ==
  ASSUME OwnershipCare
  PROVE  Spec => []FreedOnce
<1>1. Init => IInv
  BY InitIInv
<1>2. IInv /\ [Next]_vars => IInv'
  BY InductiveInvariant
<1>3. IInv => FreedOnce
  BY IInvFreedOnce
<1> QED BY <1>1, <1>2, <1>3, PTL DEF Spec
=============================================================================
