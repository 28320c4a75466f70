--------------------------- MODULE HandleLifetime ---------------------------
(***************************************************************************)
(* The Go handles that protoc-gen-wasmify-go generates over C++ objects     *)
(* (main.go, generateHandleBatch and the write* functions; the C++ side is   *)
(* bridge.go): constructors, accessors, methods that store or consume their  *)
(* arguments, classes implemented in Go, and the finalizers that free the    *)
(* objects, run by Go's collector whenever it likes.                         *)
(*                                                                          *)
(* A call is three steps: the Go function reads the pointers of its          *)
(* arguments into the request, the C++ function runs, and the Go function    *)
(* makes the handle of the result.  In between the collector sees as used    *)
(* only what the rest of the Go function mentions.                           *)
(***************************************************************************)
EXTENDS Naturals, FiniteSets

CONSTANTS
  Goroutine,     \* goroutines that use the bindings
  Object,        \* C++ objects
  Handle,        \* Go structs, reused once collected
  Id,            \* callback ids; nextCBID is never reset
  Null,          \* the pointer 0, and no object, handle or id
  Careless,      \* what the application does that the bindings do not make safe
  MaxArguments   \* handle arguments of a call

\* The ways to use the bindings, and the C++ functions, that need care:
\*   temporary  the last reference to a receiver, or to an argument of a method,
\*              is dropped during the call
\*   inherited  an accessor of a base class is called on a derived class
\*   viewed     an object is handed over while other handles depend on it
\*   unpinned   an object that needs other handles is handed over to a callee
\*              that keeps no handle: a constructor, a method not named Add...
\*   mutateView a method called on the result of an accessor stores an argument
\*   otherName  a method that is not named Add..., Set... stores an argument
\*   argument   a method returns a part of an argument, or the argument itself
\*   abstract   the class of an object that a free function makes is abstract
\*   implArgs   a Go-implemented class takes a unique_ptr in its constructor
\*   borrowed   a free function returns an object it does not give away
\*   released   a method gives its result away
Uses == {"temporary", "inherited", "viewed", "unpinned", "mutateView", "otherName",
         "argument", "abstract", "implArgs", "borrowed", "released"}

ASSUME CarelessAssumption == Careless \subseteq Uses
ASSUME NullAssumption == Null \notin Object \cup Handle \cup Id

VARIABLES
  live, owner,   \* of the C++ objects, as in Ownership
  refs,          \* refs[o]: the objects o holds plain pointers to
  handler,       \* handler[o]: callback id of a trampoline object, or Null
  lost,          \* the objects of calls that were refused, see RunRefused
  ptr,           \* ptr[h]: the handle's pointer
  made,          \* the handles in use
  fin,           \* the handles with a finalizer that has not run
  keep,          \* keep[h]: its keepAlive list
  cb,            \* cb[h]: the id its finalizer unregisters, or Null
  held,          \* the handles the application refers to
  frame,         \* frame[g]: the call goroutine g is in
  callbacks,     \* the ids in the registry
  finalizing,    \* the handle whose finalizer runs, or Null
  freeing        \* its step: "free", "unregister"

cpp == <<live, owner, refs, handler, lost>>
handles == <<ptr, made, fin, keep, cb>>
collector == <<finalizing, freeing>>
vars == <<cpp, handles, held, frame, callbacks, collector>>

Idle == [pc |-> "idle", op |-> "none", self |-> Null, borrowed |-> {}, owned |-> {},
         pins |-> FALSE, at |-> Null, in |-> {}, taken |-> {}, result |-> Null,
         id |-> Null]

O == INSTANCE Ownership WITH Go <- Null

Ptrs(H) == {ptr[h] : h \in H}
-----------------------------------------------------------------------------
(***************************************************************************)
(* What the collector sees.                                                 *)
(***************************************************************************)
\* Mutant: constructors do not pin what they borrow.
MentionedOwned(f) == f.owned \cup (IF f.op = "access" THEN {f.self} ELSE {})

\* What the rest of the call still mentions: arguments to pin on the result
\* or to clear, and the receiver that is pinned on the result of a method.
Mentioned(f) ==
  CASE f.op \in {"new", "impl"} -> f.borrowed \cup f.owned
    [] f.op = "access"          -> {f.self} \cup f.owned
    [] f.op = "method"          -> f.owned
    [] f.op = "none"            -> {}

Reach(S) ==
  {h \in Handle : \A T \in SUBSET Handle :
     S \subseteq T /\ (\A x \in T : keep[x] \subseteq T) => h \in T}

Roots == held \cup (UNION {Mentioned(frame[g]) : g \in Goroutine})
              \cup ({finalizing} \ {Null})

\* Go runs a finalizer when nothing reaches the handle, not even another
\* handle that waits for its own finalizer, or itself.
Finalizable(h) ==
  /\ h \in fin
  /\ h \notin Reach(Roots)
  /\ \A x \in fin : h \notin Reach(keep[x])

\* The handles whose memory is reclaimed: not even those reach them.
Garbage == made \ (fin \cup Reach(Roots \cup fin))
-----------------------------------------------------------------------------
Init ==
  /\ O!Init
  /\ refs = [o \in Object |-> {}]
  /\ handler = [o \in Object |-> Null]
  /\ lost = {}
  /\ ptr = [h \in Handle |-> Null]
  /\ made = {}
  /\ fin = {}
  /\ keep = [h \in Handle |-> {}]
  /\ cb = [h \in Handle |-> Null]
  /\ held = {}
  /\ frame = [g \in Goroutine |-> Idle]
  /\ callbacks = {}
  /\ finalizing = Null
  /\ freeing = "none"

\* The handles that the call of g was given.
Given(g) == {frame[g].self} \cup frame[g].borrowed \cup frame[g].owned

\* The application calls with handles it holds and has not handed over.
Usable(h) == h \in held /\ ptr[h] # Null

\* Handles to hand over: each is the one handle its object is freed by, in no
\* other call, and nothing else depends on it.
Consumable(h) ==
  /\ Usable(h) /\ h \in fin
  /\ \A g \in Goroutine : h \notin Given(g)
  /\ "viewed" \in Careless \/ \A x \in Handle : h \notin keep[x]

\* It needs no other handle, and none of its own after it is handed over.
SelfContained(h) == "unpinned" \in Careless \/ (keep[h] = {} /\ cb[h] = Null)

InFlight(h) == \E g \in Goroutine : h \in frame[g].owned

\* The arguments are encoded and the call is under way.
Call(g, op, self, B, A, pins, id) ==
  /\ A \cap (B \cup {self}) = {}
  /\ Cardinality(A \cup B) <= MaxArguments
  /\ \A h \in B \cup ({self} \ {Null}) : Usable(h) /\ ~InFlight(h)
  /\ \A h \in A : Consumable(h)
  /\ frame' = [frame EXCEPT ![g] =
       [pc |-> "encoded", op |-> op, self |-> self, borrowed |-> B, owned |-> A,
        pins |-> pins, at |-> IF self = Null THEN Null ELSE ptr[self],
        in |-> Ptrs(B), taken |-> Ptrs(A), result |-> Null, id |-> id]]

\* New<X>, a static factory, or a free function that makes an object.
Construct(g, B, A) ==
  /\ \A h \in A : SelfContained(h)
  /\ Call(g, "new", Null, B, A, FALSE, Null)
  /\ UNCHANGED <<cpp, handles, held, callbacks, collector>>

\* New<X>FromImpl registers the adapter first.  Its request does not say what
\* is handed over, so nothing is cleared: A must be empty.
ConstructImpl(g, id, B, A) ==
  /\ id \notin callbacks \cup {handler[o] : o \in Object} \cup {cb[h] : h \in Handle}
  /\ A # {} => "implArgs" \in Careless
  /\ \A h \in A : SelfContained(h)
  /\ Call(g, "impl", Null, B, A, FALSE, id)
  /\ callbacks' = callbacks \cup {id}
  /\ UNCHANGED <<cpp, handles, held, collector>>

\* A method of h, op = "access" if it returns a handle, as accessors do.  One
\* named Add..., Set... pins all its arguments on the receiver before the call.
Method(g, op, h, B, A, pins) ==
  /\ h \notin B
  /\ pins => B \cup A # {}
  /\ \/ pins /\ (h \in fin \/ "mutateView" \in Careless)
     \/ \A a \in A : SelfContained(a)
  /\ ptr[h] \notin O!Owned(Ptrs(A))
  /\ Call(g, op, h, B, A, pins, Null)
  /\ keep' = IF pins THEN [keep EXCEPT ![h] = @ \cup B \cup A] ELSE keep
  /\ UNCHANGED <<cpp, ptr, made, fin, cb, held, callbacks, collector>>
-----------------------------------------------------------------------------
(***************************************************************************)
(* The C++ side of a call, in the module.                                    *)
(***************************************************************************)
Return(g, o) ==
  frame' = [frame EXCEPT ![g].pc = "returned", ![g].result = o]

Fail(g) == frame' = [frame EXCEPT ![g].pc = "failed"]

\* The new object holds the borrowed arguments and owns the unique_ptrs.  A free
\* function may instead return an object that it does not give away.
RunConstruct(g, o) ==
  LET f == frame[g]
  IN  /\ f.op \in {"new", "impl"}
      /\ \/ /\ o \notin live
            /\ live' = live \cup {o}
            /\ owner' = [x \in Object |-> IF x \in f.taken THEN o ELSE owner[x]]
            /\ refs' = [refs EXCEPT ![o] = f.in]
            /\ handler' = [handler EXCEPT ![o] = f.id]
         \/ /\ "borrowed" \in Careless /\ f.op = "new" /\ f.owned = {}
            /\ o \in live
            /\ UNCHANGED <<live, owner, refs, handler>>
      /\ Return(g, o)
      /\ UNCHANGED <<lost, handles, held, callbacks, collector>>

\* A method may store plain pointers to arguments that are pinned.
MayStore(f) ==
  \/ f.pins /\ (f.self \in fin \/ "mutateView" \in Careless)
  \/ "otherName" \in Careless

\* What belongs to p or p refers to, and p.
Related(p, W, R) == {p} \cup R[p] \cup {o \in Object : W[o] = p}

\* A method takes over the unique_ptrs and may store the other arguments, S.  It
\* returns what is related to the object, or nothing, or it fails after all.
RunMethod(g, o, S) ==
  LET f == frame[g]
      given == [x \in Object |-> IF x \in f.taken THEN f.at ELSE owner[x]]
      found == {Null} \cup
               (IF f.op = "access" THEN Related(f.at, given, refs') ELSE {}) \cup
               (IF "argument" \in Careless /\ f.op = "access"
                THEN UNION {Related(p, given, refs) : p \in f.in} ELSE {})
  IN  /\ f.op \in {"access", "method"}
      /\ S = {} \/ (S = f.in /\ MayStore(f))
      /\ refs' = [refs EXCEPT ![f.at] = @ \cup S]
      /\ o \in found
      /\ owner' = IF "released" \in Careless
                  THEN [x \in Object |-> IF x = o THEN Null ELSE given[x]] ELSE given
      /\ Return(g, o) \/ (o = Null /\ Fail(g))
      /\ UNCHANGED <<live, handler, lost, handles, held, callbacks, collector>>

\* An accessor makes the part it returns.
RunMakePart(g, o) ==
  LET f == frame[g]
  IN  /\ f.op = "access" /\ f.owned = {}
      /\ o \notin live
      /\ live' = live \cup {o}
      /\ owner' = [owner EXCEPT ![o] = f.at]
      /\ Return(g, o)
      /\ UNCHANGED <<refs, handler, lost, handles, held, callbacks, collector>>

\* Objects are deleted with all they own.
Delete(A) ==
  LET gone == O!Owned(A)
  IN  /\ live' = live \ gone
      /\ owner' = [x \in Object |-> IF x \in gone THEN Null ELSE owner[x]]
      /\ refs' = [x \in Object |-> IF x \in gone THEN {} ELSE refs[x]]
      /\ handler' = [x \in Object |-> IF x \in gone THEN Null ELSE handler[x]]

\* The callee fails: the unique_ptrs it was given delete their objects.
RunFails(g) ==
  /\ Delete(frame[g].taken)
  /\ Fail(g)
  /\ UNCHANGED <<lost, handles, held, callbacks, collector>>

\* The call does not get that far: the function is not exported, there is no
\* memory for the request, an argument is nil, or C++ traps.  What was to be
\* handed over stays, but Go will not free it any more.
RunRefused(g) ==
  /\ Fail(g)
  /\ lost' = lost \cup frame[g].taken
  /\ UNCHANGED <<live, owner, refs, handler, handles, held, callbacks, collector>>
-----------------------------------------------------------------------------
(***************************************************************************)
(* The Go function after the call.                                           *)
(***************************************************************************)
\* Mutant: what was handed over keeps its pointer.
ClearedNothing(f) == ptr

\* emitOwnershipTransfer: what was handed over is cleared, but by FromImpl.
Cleared(f) ==
  IF f.op = "impl" THEN ptr ELSE [h \in Handle |-> IF h \in f.owned THEN Null ELSE ptr[h]]

\* Mutant: the arguments are not pinned.
FinishUnpinned(g, h) ==
  LET f == frame[g]
  IN  /\ f.pc = "returned" /\ f.op \in {"new", "impl"}
      /\ h \notin made
      /\ made' = made \cup {h}
      /\ fin' = fin \cup {h}
      /\ ptr' = [Cleared(f) EXCEPT ![h] = f.result]
      /\ cb' = [cb EXCEPT ![h] = f.id]
      /\ held' = held \cup {h}
      /\ frame' = [frame EXCEPT ![g] = Idle]
      /\ UNCHANGED <<cpp, keep, callbacks, collector>>

\* new<X> with its finalizer; the borrowed arguments are pinned.  An abstract
\* result gets new<X>NoFinalizer.
FinishConstruct(g, h) ==
  LET f == frame[g]
  IN  /\ f.pc = "returned" /\ f.op \in {"new", "impl"}
      /\ h \notin made
      /\ made' = made \cup {h}
      /\ \/ fin' = fin \cup {h}
         \/ "abstract" \in Careless /\ f.op = "new" /\ UNCHANGED fin
      /\ ptr' = [Cleared(f) EXCEPT ![h] = f.result]
      /\ keep' = [keep EXCEPT ![h] = f.borrowed]
      /\ cb' = [cb EXCEPT ![h] = f.id]
      /\ held' = held \cup {h}
      /\ frame' = [frame EXCEPT ![g] = Idle]
      /\ UNCHANGED <<cpp, callbacks, collector>>

\* Mutant: the result of an accessor is given a finalizer.
FinishAccessOwned(g, h) ==
  LET f == frame[g]
  IN  /\ f.pc = "returned" /\ f.op = "access" /\ f.result # Null
      /\ h \notin made
      /\ made' = made \cup {h}
      /\ fin' = fin \cup {h}
      /\ ptr' = [Cleared(f) EXCEPT ![h] = f.result]
      /\ keep' = [keep EXCEPT ![h] = {f.self}]
      /\ held' = held \cup {h}
      /\ frame' = [frame EXCEPT ![g] = Idle]
      /\ UNCHANGED <<cpp, cb, callbacks, collector>>

\* Mutant: the result of an accessor does not keep the receiver.
FinishAccessUnpinned(g, h) ==
  LET f == frame[g]
  IN  /\ f.pc = "returned" /\ f.op = "access" /\ f.result # Null
      /\ h \notin made
      /\ made' = made \cup {h}
      /\ ptr' = [Cleared(f) EXCEPT ![h] = f.result]
      /\ held' = held \cup {h}
      /\ frame' = [frame EXCEPT ![g] = Idle]
      /\ UNCHANGED <<cpp, fin, keep, cb, callbacks, collector>>

\* new<X>NoFinalizer, with the receiver pinned; an inherited accessor pins the
\* embedded base, which shares the keepAlive list but not the finalizer.
FinishAccess(g, h) ==
  LET f == frame[g]
  IN  /\ f.pc = "returned" /\ f.op = "access" /\ f.result # Null
      /\ h \notin made
      /\ made' = made \cup {h}
      /\ ptr' = [Cleared(f) EXCEPT ![h] = f.result]
      /\ \E base \in BOOLEAN :
           /\ base => "inherited" \in Careless
           /\ keep' = [keep EXCEPT ![h] = IF base THEN keep[f.self] ELSE {f.self}]
      /\ held' = held \cup {h}
      /\ frame' = [frame EXCEPT ![g] = Idle]
      /\ UNCHANGED <<cpp, fin, cb, callbacks, collector>>

\* There is no result, or none that Go knows the class of.
FinishCall(g) ==
  LET f == frame[g]
  IN  /\ f.pc = "returned" /\ f.op \in {"access", "method"}
      /\ ptr' = Cleared(f)
      /\ frame' = [frame EXCEPT ![g] = Idle]
      /\ UNCHANGED <<cpp, made, fin, keep, cb, held, callbacks, collector>>

\* Mutant: an error leaves the arguments and the registry as they are.
FinishFailedOnly(g) ==
  LET f == frame[g]
  IN  /\ f.pc = "failed"
      /\ frame' = [frame EXCEPT ![g] = Idle]
      /\ UNCHANGED <<cpp, handles, held, callbacks, collector>>

\* An error is returned; FromImpl unregisters its adapter.
FinishFailed(g) ==
  LET f == frame[g]
  IN  /\ f.pc = "failed"
      /\ ptr' = Cleared(f)
      /\ callbacks' = callbacks \ {f.id}
      /\ frame' = [frame EXCEPT ![g] = Idle]
      /\ UNCHANGED <<cpp, made, fin, keep, cb, held, collector>>
-----------------------------------------------------------------------------
\* Handles that nothing but the application keeps during a call.
Unguarded(f) == IF f.op = "method" THEN {f.self} \cup f.borrowed
                ELSE IF f.op = "access" THEN f.borrowed ELSE {}

\* The application drops its last reference.
Drop(h) ==
  /\ h \in held
  /\ "temporary" \in Careless \/ \A g \in Goroutine : h \notin Unguarded(frame[g])
  /\ held' = held \ {h}
  /\ UNCHANGED <<cpp, handles, frame, callbacks, collector>>

Finalize(h) ==
  /\ finalizing = Null
  /\ Finalizable(h)
  /\ finalizing' = h
  /\ freeing' = "free"
  /\ UNCHANGED <<cpp, handles, held, frame, callbacks>>

\* free(): nothing if the pointer is cleared.  A call that is refused is not
\* made again.
Free ==
  /\ freeing = "free"
  /\ \/ ptr[finalizing] # Null /\ Delete({ptr[finalizing]}) /\ UNCHANGED lost
     \/ /\ lost' = lost \cup ({ptr[finalizing]} \ {Null})
        /\ UNCHANGED <<live, owner, refs, handler>>
  /\ ptr' = [ptr EXCEPT ![finalizing] = Null]
  /\ freeing' = "unregister"
  /\ UNCHANGED <<made, fin, keep, cb, held, frame, callbacks, finalizing>>

Unregister ==
  /\ freeing = "unregister"
  /\ callbacks' = callbacks \ {cb[finalizing]}
  /\ fin' = fin \ {finalizing}
  /\ cb' = [cb EXCEPT ![finalizing] = Null]
  /\ finalizing' = Null
  /\ freeing' = "none"
  /\ UNCHANGED <<cpp, ptr, made, keep, held, frame>>

Collect ==
  /\ Garbage # {}
  /\ made' = made \ Garbage
  /\ ptr' = [h \in Handle |-> IF h \in Garbage THEN Null ELSE ptr[h]]
  /\ keep' = [h \in Handle |-> IF h \in Garbage THEN {} ELSE keep[h]]
  /\ UNCHANGED <<cpp, fin, cb, held, frame, callbacks, collector>>

\* The sets of handles a call is given.
Arguments == {S \in SUBSET held : Cardinality(S) <= MaxArguments}

Begin(g) ==
  /\ frame[g] = Idle
  /\ \/ \E B \in Arguments, A \in Arguments :
          Construct(g, B, A) \/ \E id \in Id : ConstructImpl(g, id, B, A)
     \/ \E op \in {"access", "method"}, h \in held, B \in Arguments, A \in Arguments,
           pins \in BOOLEAN : Method(g, op, h, B, A, pins)

Run(g) ==
  /\ frame[g].pc = "encoded"
  /\ \/ \E o \in Object : RunConstruct(g, o) \/ RunMakePart(g, o)
     \/ \E o \in Object \cup {Null}, S \in {{}, frame[g].in} : RunMethod(g, o, S)
     \/ RunFails(g) \/ RunRefused(g)

Finish(g) ==
  \/ \E h \in Handle : FinishConstruct(g, h) \/ FinishAccess(g, h)
  \/ FinishCall(g) \/ FinishFailed(g)

Next ==
  \/ \E g \in Goroutine : Begin(g) \/ Run(g) \/ Finish(g)
  \/ \E h \in Handle : Drop(h) \/ Finalize(h)
  \/ Free \/ Unregister \/ Collect

Spec == Init /\ [][Next]_vars
-----------------------------------------------------------------------------
TypeOK ==
  /\ live \subseteq Object
  /\ owner \in [Object -> Object \cup {Null}]
  /\ refs \in [Object -> SUBSET Object]
  /\ handler \in [Object -> Id \cup {Null}]
  /\ lost \subseteq live
  /\ ptr \in [Handle -> Object \cup {Null}]
  /\ made \subseteq Handle
  /\ fin \subseteq made
  /\ keep \in [Handle -> SUBSET made]
  /\ cb \in [Handle -> Id \cup {Null}]
  /\ held \subseteq made
  /\ frame \in [Goroutine ->
       [pc : {"idle", "encoded", "returned", "failed"},
        op : {"none", "new", "impl", "access", "method"},
        self : Handle \cup {Null}, borrowed : SUBSET Handle, owned : SUBSET Handle,
        pins : BOOLEAN, at : Object \cup {Null}, in : SUBSET Object, taken : SUBSET Object,
        result : Object \cup {Null}, id : Id \cup {Null}]]
  /\ callbacks \subseteq Id
  /\ finalizing \in fin \cup {Null}
  /\ freeing \in {"none", "free", "unregister"}

\* The handles that have been handed over but are not cleared yet.
HandedOver(g) == IF frame[g].pc \in {"returned", "failed"} THEN frame[g].owned ELSE {}

\* A handle that the application can still get at points to a live object,
\* whatever it has dropped and whenever the collector has run: accessors keep
\* the owner of what they return alive, and so do the views of views.
HandlesLive ==
  \A h \in Reach(held) :
    ptr[h] # Null /\ (\A g \in Goroutine : h \notin HandedOver(g)) => ptr[h] \in live

\* A live object never holds a pointer to a freed one, unless it was lost with
\* all that belongs to it: the keepAlive lists follow what the C++ objects store,
\* through finalizers in any order.
Kept == live \ O!Owned(lost)
RefsLive == \A o \in Kept : refs[o] \subseteq live

\* The objects a request names are still there when the C++ function runs.
RequestLive ==
  \A g \in Goroutine :
    frame[g].pc = "encoded" =>
      ({frame[g].at} \ {Null}) \cup frame[g].in \cup frame[g].taken \subseteq live

\* No object is freed twice, and none is lost but those a refused call was to
\* take or to free: a live object that belongs to no other has exactly one
\* finalizer that will free it, or is the result of a call that is about to make
\* its handle; one that belongs to another, or was lost, has none.
Freers(o) == {h \in fin : ptr[h] = o /\ \A g \in Goroutine : h \notin HandedOver(g)}
Makers(o) == {g \in Goroutine : /\ frame[g].pc = "returned"
                                /\ frame[g].op \in {"new", "impl"}
                                /\ frame[g].result = o}
FreedOnce ==
  \A o \in Object :
    IF o \in live \ lost /\ owner[o] = Null
    THEN Cardinality(Freers(o)) + Cardinality(Makers(o)) = 1
    ELSE Freers(o) \cup Makers(o) = {}

\* C++ calls only handlers that are there: a live object implemented in Go has
\* its adapter registered, unless it was lost, and every adapter has somebody to
\* unregister it.
HandlersRegistered ==
  /\ \A o \in Kept : handler[o] # Null => handler[o] \in callbacks
  /\ \A id \in callbacks : \/ \E h \in fin : cb[h] = id
                           \/ \E g \in Goroutine : frame[g].id = id

\* The bindings implement the abstract ownership.
OwnershipKept == O!Spec
=============================================================================
