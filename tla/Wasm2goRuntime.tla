--------------------------- MODULE Wasm2goRuntime ---------------------------
(***************************************************************************)
(* The Go runtime emitted for the wasm2go backend                           *)
(* (protoc-plugins/protoc-gen-wasmify-go/runtime_wasm2go.go).               *)
(*                                                                          *)
(* Every call takes m.mu, runs the transpiled function and releases m.mu.   *)
(* A callback from C++ releases m.mu around the Go handler, so that the     *)
(* handler, or any other goroutine, can call in again while the C++         *)
(* activation that called back is suspended in the middle of its frame.     *)
(*                                                                          *)
(* All activations share one C stack: an activation puts its frame at the   *)
(* stack pointer, a wasm global, and puts the pointer back where it found   *)
(* it on its way out.  slot and sp model exactly that.                      *)
(***************************************************************************)
EXTENDS Integers, FiniteSets

CONSTANTS
  Goroutine,           \* goroutines of the program, the finalizer's included
  CallbackGoroutine,   \* those whose calls reach C++ code that calls back
  NoGoroutine,         \* the owner of an unlocked mutex
  MaxDepth,            \* bound: calls nested on one goroutine
  MaxStack,            \* bound: no new call starts above this stack pointer
  MaxWork,             \* bound: callbacks and calls under one outermost call
  AllocMayFail,        \* WasmAlloc may return 0 (Options.MaxMemoryBytes)
  TypeNameMayTrap      \* wasmify_get_type_name may trap (a stale pointer)

ASSUME ConstantsAssumption ==
  /\ CallbackGoroutine \subseteq Goroutine
  /\ NoGoroutine \notin Goroutine
  /\ MaxDepth \in Nat \ {0}
  /\ MaxStack \in Nat \ {0}
  /\ MaxWork \in Nat
  /\ AllocMayFail \in BOOLEAN
  /\ TypeNameMayTrap \in BOOLEAN

VARIABLES
  init,       \* "no", "running" or "done": sync.Once around initModule
  mu,         \* m.mu: the goroutine that locked it
  depth,      \* depth[g]: calls in progress on g, outermost first
  pc,         \* pc[g]: where the innermost call of g is
  kind,       \* kind[g][d]: "invoke" or "typename"
  slot,       \* slot[g][d]: the stack pointer the d-th activation of g found
  sp,         \* the module's stack pointer, in frames
  heap,       \* buffers in linear memory: <<g, d, "req" | "resp" | "cb">>
  clobbered,  \* the static data at offset 0 was overwritten
  hostDesc,   \* the call whose callback result m.cbDesc describes
  guestDesc,  \* the call whose response the C++ bridge's static pair describes
  awaiting,   \* awaiting[g]: the goroutine whose call the handler on g awaits
  work        \* work[g]: callbacks and calls so far under g's outermost call

vars == <<init, mu, depth, pc, kind, slot, sp, heap, clobbered,
          hostDesc, guestDesc, awaiting, work>>

NoCall == <<NoGoroutine, 0>>

PCs == {"go", "init", "lock", "alloc", "enter", "wasm", "relock", "encode",
        "result", "trapped", "read", "free", "unlock"}

\* The steps of a call that touch the transpiled module's state.
InModule == {"alloc", "enter", "wasm", "encode", "result", "trapped",
             "read", "free"}

\* The steps at which the innermost call of a goroutine has a frame on the
\* C stack: it runs C++, or C++ is suspended in a callback.
FrameOnStack == {"go", "lock", "wasm", "relock", "encode", "result", "trapped"}

Top(g) == <<g, depth[g]>>

Init ==
  /\ init = "no"
  /\ mu = NoGoroutine
  /\ depth = [g \in Goroutine |-> 0]
  /\ pc = [g \in Goroutine |-> "go"]
  /\ kind = [g \in Goroutine |-> [d \in 1..MaxDepth |-> "invoke"]]
  /\ slot = [g \in Goroutine |-> [d \in 1..MaxDepth |-> 0]]
  /\ sp = 0
  /\ heap = {}
  /\ clobbered = FALSE
  /\ hostDesc = NoCall
  /\ guestDesc = NoCall
  /\ awaiting = [g \in Goroutine |-> NoGoroutine]
  /\ work = [g \in Goroutine |-> 0]

Goto(g, l) == pc' = [pc EXCEPT ![g] = l]

\* Go code runs on g: the application, or the handler of g's innermost call.
InGo(g) == pc[g] = "go" /\ awaiting[g] = NoGoroutine

(***************************************************************************)
(* Initialisation.  initModule runs once, without m.mu; a panic in a static *)
(* initialiser is recovered and leaves the module usable, so its outcome    *)
(* does not matter here.                                                    *)
(***************************************************************************)
InitModule(g) ==
  /\ init = "no"
  /\ InGo(g)
  /\ init' = "running"
  /\ Goto(g, "init")
  /\ UNCHANGED <<mu, depth, kind, slot, sp, heap, clobbered, hostDesc,
                 guestDesc, awaiting, work>>

InitModuleDone(g) ==
  /\ pc[g] = "init"
  /\ init' = "done"
  /\ Goto(g, "go")
  /\ UNCHANGED <<mu, depth, kind, slot, sp, heap, clobbered, hostDesc,
                 guestDesc, awaiting, work>>

(***************************************************************************)
(* A call: Module.invoke, or resolveTypeName, which is the same sequence    *)
(* with a request that is never empty, outside the trap-safe entry point.   *)
(***************************************************************************)
\* C++ functions and handlers make finitely many callbacks and calls.
Work(g) == /\ work[g] < MaxWork
           /\ work' = [work EXCEPT ![g] = @ + 1]

CanCall(g) == init = "done" /\ depth[g] < MaxDepth /\ sp < MaxStack

Call(g, k) ==
  /\ InGo(g)
  /\ CanCall(g)
  /\ IF depth[g] = 0 THEN UNCHANGED work ELSE Work(g)
  /\ kind' = [kind EXCEPT ![g][depth[g] + 1] = k]
  /\ Goto(g, "lock")
  /\ UNCHANGED <<init, mu, depth, slot, sp, heap, clobbered, hostDesc,
                 guestDesc, awaiting>>

\* Mutant: a call does not wait for m.mu.
LockNoWait(g) ==
  /\ pc[g] = "lock"
  /\ mu' = g
  /\ depth' = [depth EXCEPT ![g] = @ + 1]
  /\ Goto(g, "alloc")
  /\ UNCHANGED <<init, kind, slot, sp, heap, clobbered, hostDesc, guestDesc,
                 awaiting, work>>

Lock(g) ==
  /\ pc[g] = "lock"
  /\ mu = NoGoroutine
  /\ mu' = g
  /\ depth' = [depth EXCEPT ![g] = @ + 1]
  /\ Goto(g, "alloc")
  /\ UNCHANGED <<init, kind, slot, sp, heap, clobbered, hostDesc, guestDesc,
                 awaiting, work>>

\* The request is copied to linear memory at what WasmAlloc returned, at
\* offset 0 when it returned NULL.
Alloc(g) ==
  /\ pc[g] = "alloc"
  /\ \/ /\ kind[g][depth[g]] = "invoke"       \* len(req) = 0
        /\ UNCHANGED <<heap, clobbered>>
     \/ /\ heap' = heap \cup {<<g, depth[g], "req">>}
        /\ UNCHANGED clobbered
     \/ /\ AllocMayFail                        \* WasmAlloc returned 0
        /\ clobbered' = TRUE
        /\ UNCHANGED heap
  /\ Goto(g, "enter")
  /\ UNCHANGED <<init, mu, depth, kind, slot, sp, hostDesc, guestDesc,
                 awaiting, work>>

Enter(g) ==
  /\ pc[g] = "enter"
  /\ slot' = [slot EXCEPT ![g][depth[g]] = sp]
  /\ sp' = sp + 1
  /\ Goto(g, "wasm")
  /\ UNCHANGED <<init, mu, depth, kind, heap, clobbered, hostDesc, guestDesc,
                 awaiting, work>>

\* The exported function returns and puts the stack pointer back; a response
\* is a buffer of the C++ side described by its static pair.
Return(g) ==
  /\ pc[g] = "wasm"
  /\ sp' = slot[g][depth[g]]
  /\ \/ /\ heap' = heap \cup {<<g, depth[g], "resp">>}
        /\ guestDesc' = Top(g)
        /\ Goto(g, "read")
     \/ /\ UNCHANGED <<heap, guestDesc>>
        /\ Goto(g, "free")
  /\ UNCHANGED <<init, mu, depth, kind, slot, clobbered, hostDesc, awaiting,
                 work>>

ReadResponse(g) ==
  /\ pc[g] = "read"
  /\ heap' = heap \ {<<g, depth[g], "resp">>}
  /\ guestDesc' = NoCall                    \* nothing reads it again
  /\ Goto(g, "free")
  /\ UNCHANGED <<init, mu, depth, kind, slot, sp, clobbered, hostDesc,
                 awaiting, work>>

\* Mutant: a trap leaves the wasm globals as they are.
TrapNoRestore(g) ==
  /\ \/ pc[g] = "trapped"
     \/ pc[g] = "wasm" /\ kind[g][depth[g]] = "invoke"
  /\ sp' = sp
  /\ Goto(g, "free")
  /\ UNCHANGED <<init, mu, depth, kind, slot, heap, clobbered, hostDesc,
                 guestDesc, awaiting, work>>

\* Mutant: the free of the request is not deferred, so a trap skips it.
TrapSkipsFree(g) ==
  /\ \/ pc[g] = "trapped"
     \/ pc[g] = "wasm" /\ kind[g][depth[g]] = "invoke"
  /\ sp' = slot[g][depth[g]]
  /\ Goto(g, "unlock")
  /\ UNCHANGED <<init, mu, depth, kind, slot, heap, clobbered, hostDesc,
                 guestDesc, awaiting, work>>

\* A wasm trap, or the panic of a handler: Inv_ recovers and restores the
\* globals it saved at entry.
Trap(g) ==
  /\ \/ pc[g] = "trapped"
     \/ pc[g] = "wasm" /\ kind[g][depth[g]] = "invoke"
  /\ sp' = slot[g][depth[g]]
  /\ Goto(g, "free")
  /\ UNCHANGED <<init, mu, depth, kind, slot, heap, clobbered, hostDesc,
                 guestDesc, awaiting, work>>

\* resolveTypeName calls the export directly: the panic unwinds past it with
\* the globals as they are and before the request's WasmFree is deferred.
TypeNameTrap(g) ==
  /\ TypeNameMayTrap
  /\ pc[g] = "wasm"
  /\ kind[g][depth[g]] = "typename"
  /\ Goto(g, "unlock")
  /\ UNCHANGED <<init, mu, depth, kind, slot, sp, heap, clobbered, hostDesc,
                 guestDesc, awaiting, work>>

\* The deferred WasmFree(reqPtr).
FreeRequest(g) ==
  /\ pc[g] = "free"
  /\ heap' = heap \ {<<g, depth[g], "req">>}
  /\ Goto(g, "unlock")
  /\ UNCHANGED <<init, mu, depth, kind, slot, sp, clobbered, hostDesc,
                 guestDesc, awaiting, work>>

\* The deferred m.mu.Unlock(); the end of an outermost call wakes the handler
\* that awaits it.
Unlock(g) ==
  /\ pc[g] = "unlock"
  /\ mu' = NoGoroutine
  /\ depth' = [depth EXCEPT ![g] = @ - 1]
  /\ kind' = [kind EXCEPT ![g][depth[g]] = "invoke"]   \* its locals are gone
  /\ slot' = [slot EXCEPT ![g][depth[g]] = 0]
  /\ work' = [work EXCEPT ![g] = IF depth[g] = 1 THEN 0 ELSE @]
  /\ awaiting' = [h \in Goroutine |->
                    IF depth[g] = 1 /\ awaiting[h] = g THEN NoGoroutine
                                                       ELSE awaiting[h]]
  /\ Goto(g, "go")
  /\ UNCHANGED <<init, sp, heap, clobbered, hostDesc, guestDesc>>

(***************************************************************************)
(* A callback: handleCallback and encodeCallbackResult.                     *)
(***************************************************************************)
\* Mutant: m.mu is kept while the handler runs.
CallbackKeepsLock(g) ==
  /\ g \in CallbackGoroutine
  /\ pc[g] = "wasm"
  /\ kind[g][depth[g]] = "invoke"
  /\ Work(g)
  /\ mu' = mu
  /\ Goto(g, "go")
  /\ UNCHANGED <<init, depth, kind, slot, sp, heap, clobbered, hostDesc,
                 guestDesc, awaiting>>

\* C++ calls back with an id whose handler is registered: the request is
\* copied out and m.mu released.  (For any other id it gets 0 at once and
\* goes on: no step.)
Callback(g) ==
  /\ g \in CallbackGoroutine
  /\ pc[g] = "wasm"
  /\ kind[g][depth[g]] = "invoke"
  /\ Work(g)
  /\ mu' = NoGoroutine
  /\ Goto(g, "go")
  /\ UNCHANGED <<init, depth, kind, slot, sp, heap, clobbered, hostDesc,
                 guestDesc, awaiting>>

\* The handler hands a call to an idle goroutine h and waits for its end.
HandlerAwaits(g, h) ==
  /\ InGo(g) /\ depth[g] > 0
  /\ h # g /\ InGo(h) /\ depth[h] = 0
  /\ CanCall(h)
  /\ Work(g)
  /\ awaiting' = [awaiting EXCEPT ![g] = h]
  /\ kind' = [kind EXCEPT ![h][1] = "invoke"]
  /\ Goto(h, "lock")
  /\ UNCHANGED <<init, mu, depth, slot, sp, heap, clobbered, hostDesc,
                 guestDesc>>

\* Mutant: the result is encoded before m.mu is taken again.
EncodeUnlocked(g) ==
  /\ InGo(g) /\ depth[g] > 0
  /\ Goto(g, "encode")
  /\ UNCHANGED <<init, mu, depth, kind, slot, sp, heap, clobbered, hostDesc,
                 guestDesc, awaiting, work>>

HandlerReturn(g) ==
  /\ InGo(g) /\ depth[g] > 0
  /\ Goto(g, "relock")
  /\ UNCHANGED <<init, mu, depth, kind, slot, sp, heap, clobbered, hostDesc,
                 guestDesc, awaiting, work>>

\* Mutant: C++ goes on without waiting for m.mu.
RelockNoWait(g) ==
  /\ pc[g] = "relock"
  /\ mu' = g
  /\ \E l \in {"wasm", "encode", "trapped"} : Goto(g, l)
  /\ UNCHANGED <<init, depth, kind, slot, sp, heap, clobbered, hostDesc,
                 guestDesc, awaiting, work>>

\* Mutant: C++ goes on without taking m.mu again.
RelockNotTaken(g) ==
  /\ pc[g] = "relock"
  /\ mu = NoGoroutine
  /\ mu' = mu
  /\ \E l \in {"wasm", "encode", "trapped"} : Goto(g, l)
  /\ UNCHANGED <<init, depth, kind, slot, sp, heap, clobbered, hostDesc,
                 guestDesc, awaiting, work>>

\* The deferred m.mu.Lock(), then: an empty response, one to encode (an error
\* is one), or the handler's panic goes on.
Relock(g) ==
  /\ pc[g] = "relock"
  /\ mu = NoGoroutine
  /\ mu' = g
  /\ \E l \in {"wasm", "encode", "trapped"} : Goto(g, l)
  /\ UNCHANGED <<init, depth, kind, slot, sp, heap, clobbered, hostDesc,
                 guestDesc, awaiting, work>>

\* The codec of a memory64 module: m.cbDesc, allocated once, describes the
\* buffer; wasm32 packs the same pair in the result itself.
EncodeCallbackResult(g) ==
  /\ pc[g] = "encode"
  /\ \/ /\ heap' = heap \cup {<<g, depth[g], "cb">>}
        /\ UNCHANGED clobbered
     \/ /\ AllocMayFail                        \* WasmAlloc returned 0
        /\ clobbered' = TRUE
        /\ UNCHANGED heap
  /\ hostDesc' = Top(g)
  /\ Goto(g, "result")
  /\ UNCHANGED <<init, mu, depth, kind, slot, sp, guestDesc, awaiting, work>>

\* The C++ trampoline decodes the result and frees the buffer.
DecodeResult(g) ==
  /\ pc[g] = "result"
  /\ heap' = heap \ {<<g, depth[g], "cb">>}
  /\ hostDesc' = NoCall                     \* nothing reads it again
  /\ Goto(g, "wasm")
  /\ UNCHANGED <<init, mu, depth, kind, slot, sp, clobbered, guestDesc,
                 awaiting, work>>

Next ==
  \E g \in Goroutine :
    \/ InitModule(g) \/ InitModuleDone(g)
    \/ \E k \in {"invoke", "typename"} : Call(g, k)
    \/ Lock(g) \/ Alloc(g) \/ Enter(g)
    \/ Return(g) \/ ReadResponse(g) \/ Trap(g) \/ TypeNameTrap(g)
    \/ FreeRequest(g) \/ Unlock(g)
    \/ Callback(g) \/ HandlerReturn(g) \/ Relock(g)
    \/ EncodeCallbackResult(g) \/ DecodeResult(g)
    \/ \E h \in Goroutine : HandlerAwaits(g, h)

(***************************************************************************)
(* Fairness.  A goroutine in the runtime goes on; sync.Mutex does not       *)
(* starve a waiter (strong fairness of the two Locks); C++ functions and    *)
(* handlers end (Work bounds what they call first).                         *)
(***************************************************************************)
Fairness ==
  \A g \in Goroutine :
    /\ WF_vars(\/ InitModuleDone(g) \/ Alloc(g) \/ Enter(g) \/ Return(g)
               \/ ReadResponse(g) \/ FreeRequest(g) \/ Unlock(g)
               \/ HandlerReturn(g) \/ EncodeCallbackResult(g)
               \/ DecodeResult(g) \/ Trap(g))
    /\ SF_vars(Lock(g) \/ Relock(g))

Spec == Init /\ [][Next]_vars

FairSpec == Spec /\ Fairness

-----------------------------------------------------------------------------
TypeOK ==
  /\ init \in {"no", "running", "done"}
  /\ mu \in Goroutine \cup {NoGoroutine}
  /\ depth \in [Goroutine -> 0..MaxDepth]
  /\ pc \in [Goroutine -> PCs]
  /\ kind \in [Goroutine -> [1..MaxDepth -> {"invoke", "typename"}]]
  /\ slot \in [Goroutine -> [1..MaxDepth -> Nat]]
  /\ sp \in Nat
  /\ heap \subseteq Goroutine \X (1..MaxDepth) \X {"req", "resp", "cb"}
  /\ clobbered \in BOOLEAN
  /\ hostDesc \in (Goroutine \X (1..MaxDepth)) \cup {NoCall}
  /\ guestDesc \in (Goroutine \X (1..MaxDepth)) \cup {NoCall}
  /\ awaiting \in [Goroutine -> Goroutine \cup {NoGoroutine}]
  /\ work \in [Goroutine -> 0..MaxWork]

\* The calls with a frame on the C stack.
Live == {c \in Goroutine \X (1..MaxDepth) :
            \/ c[2] < depth[c[1]]
            \/ c[2] = depth[c[1]] /\ pc[c[1]] \in FrameOnStack}

\* Whoever touches the module's state, memory, stack or descriptors, holds
\* m.mu, although callbacks give it up and take it again in mid-call; and
\* initModule, which runs without the lock, is alone.
ModuleTouchedUnderLock ==
  \A g \in Goroutine :
    /\ pc[g] \in InModule \cup {"unlock"} => mu = g
    /\ pc[g] = "init" => \A h \in Goroutine \ {g} : pc[h] = "go" /\ depth[h] = 0

\* "the outer call never observes a mid-flight inner call" (the comment on
\* Module): C++ code runs only while its frame is the top of the C stack.
RunningFrameOnTop ==
  \A g \in Goroutine :
    pc[g] \in {"wasm", "encode", "result", "trapped"}
      => sp = slot[g][depth[g]] + 1

\* No activation's frame is reused while it is suspended in a callback, none
\* lies above the stack pointer, where the next call would overwrite it, and
\* when no call is in progress the C stack is empty again, whatever trapped on
\* the way: a trap leaks no activation frame.
FramesIntact ==
  /\ \A c1, c2 \in Live :
       /\ slot[c1[1]][c1[2]] < sp
       /\ c1 # c2 => slot[c1[1]][c1[2]] # slot[c2[1]][c2[2]]
  /\ Live = {} => \A g \in Goroutine : pc[g] # "enter" => sp = 0

\* A request, response or callback buffer belongs to a call in progress: none
\* outlives its call, on any path out of it.
BuffersFreed ==
  \A b \in heap :
    /\ b[2] <= depth[b[1]]
    /\ b[3] # "req" => b[2] = depth[b[1]]
                       /\ pc[b[1]] = IF b[3] = "resp" THEN "read" ELSE "result"

\* The single result descriptor of each side still describes this call's
\* result when it is decoded ("both safe because bridge calls are serialized
\* under m.mu"), even though other calls run between callback and result.
DescriptorIsOwn ==
  \A g \in Goroutine :
    /\ pc[g] = "result" => hostDesc = Top(g)
    /\ pc[g] = "read" => guestDesc = Top(g)

\* "a workload bigger than expected fails inside the guest": a request that
\* does not fit never overwrites the module's static data.
StaticDataIntact == ~clobbered

\* Every call returns, also when handlers wait for calls they handed to other
\* goroutines: the window in handleCallback lets those calls in.
CallsReturn ==
  \A g \in Goroutine : pc[g] = "lock" ~> (pc[g] = "go" /\ depth[g] = 0)

\* The live activations in the order of their frames: with FramesIntact, the
\* abstract stack this runtime implements.
FrameAt(i) ==
  CHOOSE c \in Live :
    Cardinality({b \in Live : slot[b[1]][b[2]] < slot[c[1]][c[2]]}) = i - 1

LiveStack == [i \in 1..Cardinality(Live) |-> FrameAt(i)[1]]

Stack == INSTANCE WasmStack WITH stack <- LiveStack

\* Calls nest strictly on the C stack.
StackDiscipline == Stack!Spec
=============================================================================
