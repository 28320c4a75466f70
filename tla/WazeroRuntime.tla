---------------------------- MODULE WazeroRuntime ----------------------------
(***************************************************************************)
(* The Go runtime emitted for the wazero backend                            *)
(* (protoc-plugins/protoc-gen-wasmify-go/main.go).                          *)
(*                                                                          *)
(* m.mu serialises calls between goroutines.  It stays locked while C++     *)
(* calls back into Go, and a call made by the handler finds its own         *)
(* goroutine in m.holderGID and skips the mutex.  holderGID is written only *)
(* under m.mu but read without it, and two separate mutex regions, that of  *)
(* exportFor and that of callExport, make up one call.                      *)
(***************************************************************************)
EXTENDS Integers, FiniteSets, Sequences

CONSTANTS
  Goroutine,        \* goroutines of the program, the finalizer's included
  NoGoroutine,      \* the goroutine id 0: nobody
  Export,           \* exported functions w_<service>_<method>
  NoExport,         \* no lookup in progress
  Missing,          \* the exports the wasm binary does not have
  MaxDepth,         \* bound: calls nested on one goroutine
  MaxWork           \* bound: callbacks and calls under one outermost call

ASSUME ConstantsAssumption ==
  /\ NoGoroutine \notin Goroutine
  /\ NoExport \notin Export
  /\ Missing \subseteq Export
  /\ MaxDepth \in Nat \ {0}
  /\ MaxWork \in Nat

VARIABLES
  module,     \* globalModule: "nil", "initializing", "ready" or "closed"
  mu,         \* m.mu: the goroutine that locked it
  holderGID,  \* m.holderGID
  exportFns,  \* m.exportFns: the exports already looked up
  depth,      \* depth[g]: activations of callExport on g, outermost first
  pc,         \* pc[g]: where the innermost call of g is
  fn,         \* fn[g]: the export that exportFor looks up for g
  reentrant,  \* reentrant[g]: the flag exportFor computed on g
  nested,     \* nested[g][d]: the flag the d-th callExport computed on g
  heap,       \* buffers in linear memory: <<g, d, "req" | "resp" | "cb">>
  work        \* work[g]: callbacks and calls so far under g's outermost call

vars == <<module, mu, holderGID, exportFns, depth, pc, fn, reentrant, nested,
          heap, work>>

\* Go code, application or handler, and initModule; exportFor; callExport.
PCs == {"go", "init", "find", "lookup", "miss", "store", "insert", "call",
        "lock", "hold", "alloc", "wasm", "respond", "result", "read", "free",
        "clear", "unlock"}

\* The steps of callExport between its Lock and its deferred Unlock.
InCall == {"alloc", "wasm", "respond", "result", "read", "free", "clear",
           "unlock"}

\* The steps that use what m.mu protects: the export map, or the module.
UsesModule == {"lookup", "insert", "hold"} \cup InCall

Init ==
  /\ module = "nil"
  /\ mu = NoGoroutine
  /\ holderGID = NoGoroutine
  /\ exportFns = {}
  /\ depth = [g \in Goroutine |-> 0]
  /\ pc = [g \in Goroutine |-> "go"]
  /\ fn = [g \in Goroutine |-> NoExport]
  /\ reentrant = [g \in Goroutine |-> FALSE]
  /\ nested = [g \in Goroutine |-> [d \in 1..MaxDepth |-> FALSE]]
  /\ heap = {}
  /\ work = [g \in Goroutine |-> 0]

Goto(g, l) == pc' = [pc EXCEPT ![g] = l]

\* Lock and Unlock of m.mu, skipped by a reentrant call.
Acquire(g, skip) == IF skip THEN UNCHANGED mu
                            ELSE mu = NoGoroutine /\ mu' = g
Release(g, skip) == mu' = IF skip THEN mu ELSE NoGoroutine

\* C++ functions and handlers make finitely many callbacks and calls.
Work(g) == /\ work[g] < MaxWork
           /\ work' = [work EXCEPT ![g] = @ + 1]

(***************************************************************************)
(* Init, once; Close, at any time after it and without m.mu.  (When Init    *)
(* fails globalModule stays nil and every call panics.)                     *)
(***************************************************************************)
InitModule(g) ==
  /\ module = "nil"
  /\ pc[g] = "go"
  /\ module' = "initializing"
  /\ Goto(g, "init")
  /\ UNCHANGED <<mu, holderGID, exportFns, depth, fn, reentrant, nested, heap,
                 work>>

InitModuleDone(g) ==
  /\ pc[g] = "init"
  /\ module' = "ready"
  /\ Goto(g, "go")
  /\ UNCHANGED <<mu, holderGID, exportFns, depth, fn, reentrant, nested, heap,
                 work>>

Close(g) ==
  /\ module = "ready"
  /\ pc[g] = "go"
  /\ module' = "closed"
  /\ UNCHANGED <<mu, holderGID, exportFns, depth, pc, fn, reentrant, nested,
                 heap, work>>

(***************************************************************************)
(* A call by Go code: invoke looks the export up with exportFor, then both  *)
(* invoke and resolveTypeName, whose export is known, run callExport.       *)
(***************************************************************************)
BeginCall(g) ==
  /\ pc[g] = "go"
  /\ module \in {"ready", "closed"}
  /\ depth[g] < MaxDepth
  /\ IF depth[g] = 0 THEN UNCHANGED work ELSE Work(g)

Invoke(g, f) ==
  /\ BeginCall(g)
  /\ fn' = [fn EXCEPT ![g] = f]
  /\ reentrant' = [reentrant EXCEPT ![g] = holderGID = g]
  /\ Goto(g, "find")
  /\ UNCHANGED <<module, mu, holderGID, exportFns, depth, nested, heap>>

ResolveTypeName(g) ==
  /\ BeginCall(g)
  /\ Goto(g, "call")
  /\ UNCHANGED <<module, mu, holderGID, exportFns, depth, fn, reentrant,
                 nested, heap>>

\* Mutant: the cache is read without the mutex.
FindUnlocked(g) ==
  /\ pc[g] = "find"
  /\ Goto(g, "lookup")
  /\ UNCHANGED <<module, mu, holderGID, exportFns, depth, fn, reentrant, nested,
                 heap, work>>

\* exportFor: look in the cache under the mutex ...
FindLock(g) ==
  /\ pc[g] = "find"
  /\ Acquire(g, reentrant[g])
  /\ Goto(g, "lookup")
  /\ UNCHANGED <<module, holderGID, exportFns, depth, fn, reentrant, nested,
                 heap, work>>

\* Mutant: the mutex is released without the test for reentrancy.
LookupReleases(g) ==
  /\ pc[g] = "lookup"
  /\ Release(g, FALSE)
  /\ Goto(g, IF fn[g] \in exportFns THEN "call" ELSE "miss")
  /\ UNCHANGED <<module, holderGID, exportFns, depth, fn, reentrant, nested,
                 heap, work>>

Lookup(g) ==
  /\ pc[g] = "lookup"
  /\ Release(g, reentrant[g])
  /\ Goto(g, IF fn[g] \in exportFns THEN "call" ELSE "miss")
  /\ UNCHANGED <<module, holderGID, exportFns, depth, fn, reentrant, nested,
                 heap, work>>

\* ... ask the module without it ...
Miss(g) ==
  /\ pc[g] = "miss"
  /\ Goto(g, IF fn[g] \in Missing THEN "go" ELSE "store")
  /\ UNCHANGED <<module, mu, holderGID, exportFns, depth, fn, reentrant,
                 nested, heap, work>>

\* ... and insert under the mutex again.
StoreLock(g) ==
  /\ pc[g] = "store"
  /\ Acquire(g, reentrant[g])
  /\ Goto(g, "insert")
  /\ UNCHANGED <<module, holderGID, exportFns, depth, fn, reentrant, nested,
                 heap, work>>

Insert(g) ==
  /\ pc[g] = "insert"
  /\ exportFns' = exportFns \cup {fn[g]}
  /\ Release(g, reentrant[g])
  /\ Goto(g, "call")
  /\ UNCHANGED <<module, holderGID, depth, fn, reentrant, nested, heap, work>>

\* Mutant: reentrancy is not detected.
EnterNeverNested(g) ==
  /\ pc[g] = "call"
  /\ IF FALSE
       THEN /\ depth' = [depth EXCEPT ![g] = @ + 1]
            /\ nested' = [nested EXCEPT ![g][depth[g] + 1] = TRUE]
            /\ Goto(g, "alloc")
       ELSE /\ UNCHANGED <<depth, nested>>
            /\ Goto(g, "lock")
  /\ fn' = [fn EXCEPT ![g] = NoExport]            \* exportFor's locals are gone
  /\ reentrant' = [reentrant EXCEPT ![g] = FALSE]
  /\ UNCHANGED <<module, mu, holderGID, exportFns, heap, work>>

\* callExport: its own test of holderGID.
Enter(g) ==
  /\ pc[g] = "call"
  /\ IF holderGID = g
       THEN /\ depth' = [depth EXCEPT ![g] = @ + 1]
            /\ nested' = [nested EXCEPT ![g][depth[g] + 1] = TRUE]
            /\ Goto(g, "alloc")
       ELSE /\ UNCHANGED <<depth, nested>>
            /\ Goto(g, "lock")
  /\ fn' = [fn EXCEPT ![g] = NoExport]            \* exportFor's locals are gone
  /\ reentrant' = [reentrant EXCEPT ![g] = FALSE]
  /\ UNCHANGED <<module, mu, holderGID, exportFns, heap, work>>

\* Mutant: the outermost call does not wait for m.mu.
LockNoWait(g) ==
  /\ pc[g] = "lock"
  /\ mu' = g
  /\ Goto(g, "hold")
  /\ UNCHANGED <<module, holderGID, exportFns, depth, fn, reentrant, nested,
                 heap, work>>

Lock(g) ==
  /\ pc[g] = "lock"
  /\ Acquire(g, FALSE)
  /\ Goto(g, "hold")
  /\ UNCHANGED <<module, holderGID, exportFns, depth, fn, reentrant, nested,
                 heap, work>>

Hold(g) ==
  /\ pc[g] = "hold"
  /\ holderGID' = g
  /\ depth' = [depth EXCEPT ![g] = @ + 1]
  /\ nested' = [nested EXCEPT ![g][depth[g] + 1] = FALSE]
  /\ Goto(g, "alloc")
  /\ UNCHANGED <<module, mu, exportFns, fn, reentrant, heap, work>>

\* An empty request needs no buffer; allocFn fails on a closed module and
\* returns NULL when memory is full, and both end the call.
Alloc(g) ==
  /\ pc[g] = "alloc"
  /\ \/ /\ module = "ready"
        /\ heap' = heap \cup {<<g, depth[g], "req">>}
        /\ Goto(g, "wasm")
     \/ /\ UNCHANGED heap
        /\ \E l \in {"wasm", "clear"} : Goto(g, l)
  /\ UNCHANGED <<module, mu, holderGID, exportFns, depth, fn, reentrant,
                 nested, work>>

\* Mutant: the request is not freed when the call fails.
ReturnErrorKeepsRequest(g) ==
  /\ pc[g] = "wasm"
  /\ \/ /\ module = "ready"
        /\ heap' = heap \cup {<<g, depth[g], "resp">>}
        /\ Goto(g, "read")
     \/ /\ UNCHANGED heap
        /\ Goto(g, "clear")
  /\ UNCHANGED <<module, mu, holderGID, exportFns, depth, fn, reentrant,
                 nested, work>>

\* The function returns; on a module closed meanwhile wazero reports an error.
Return(g) ==
  /\ pc[g] = "wasm"
  /\ \/ /\ module = "ready"
        /\ heap' = heap \cup {<<g, depth[g], "resp">>}
        /\ Goto(g, "read")
     \/ /\ UNCHANGED heap
        /\ Goto(g, "free")
  /\ UNCHANGED <<module, mu, holderGID, exportFns, depth, fn, reentrant,
                 nested, work>>

\* The response is copied and its deferred free runs, then the request's.
ReadResponse(g) ==
  /\ pc[g] = "read"
  /\ heap' = heap \ {<<g, depth[g], "resp">>}
  /\ Goto(g, "free")
  /\ UNCHANGED <<module, mu, holderGID, exportFns, depth, fn, reentrant,
                 nested, work>>

FreeRequest(g) ==
  /\ pc[g] = "free"
  /\ heap' = heap \ {<<g, depth[g], "req">>}
  /\ Goto(g, "clear")
  /\ UNCHANGED <<module, mu, holderGID, exportFns, depth, fn, reentrant,
                 nested, work>>

\* The deferred release: holderGID first, then the mutex; a nested call has none.
ClearHolder(g) ==
  /\ pc[g] = "clear"
  /\ ~nested[g][depth[g]]
  /\ holderGID' = NoGoroutine
  /\ Goto(g, "unlock")
  /\ UNCHANGED <<module, mu, exportFns, depth, fn, reentrant, nested, heap,
                 work>>

Unlock(g) ==
  /\ pc[g] = "unlock"
  /\ Release(g, FALSE)
  /\ depth' = [depth EXCEPT ![g] = @ - 1]
  /\ work' = [work EXCEPT ![g] = 0]
  /\ Goto(g, "go")
  /\ UNCHANGED <<module, holderGID, exportFns, fn, reentrant, nested, heap>>

ReturnNested(g) ==
  /\ pc[g] = "clear"
  /\ nested[g][depth[g]]
  /\ depth' = [depth EXCEPT ![g] = @ - 1]
  /\ nested' = [nested EXCEPT ![g][depth[g]] = FALSE]    \* its local is gone
  /\ Goto(g, "go")
  /\ UNCHANGED <<module, mu, holderGID, exportFns, fn, reentrant, heap, work>>

(***************************************************************************)
(* handleCallback, on the goroutine of the call, with m.mu held throughout. *)
(***************************************************************************)
\* C++ calls back with a registered id.  (Any other id gets 0 at once.)
Callback(g) ==
  /\ pc[g] = "wasm"
  /\ Work(g)
  /\ Goto(g, "go")
  /\ UNCHANGED <<module, mu, holderGID, exportFns, depth, fn, reentrant,
                 nested, heap>>

\* The handler ends: with no response, with one (an error is one), or by a
\* panic, which wazero turns into the error of the outer call.
HandlerReturn(g) ==
  /\ pc[g] = "go"
  /\ depth[g] > 0
  /\ \E l \in {"wasm", "respond", "free"} : Goto(g, l)
  /\ UNCHANGED <<module, mu, holderGID, exportFns, depth, fn, reentrant,
                 nested, heap, work>>

AllocResponse(g) ==
  /\ pc[g] = "respond"
  /\ \/ /\ module = "ready"
        /\ heap' = heap \cup {<<g, depth[g], "cb">>}
        /\ Goto(g, "result")
     \/ /\ UNCHANGED heap                    \* an error or NULL: C++ gets 0
        /\ Goto(g, "wasm")
  /\ UNCHANGED <<module, mu, holderGID, exportFns, depth, fn, reentrant,
                 nested, work>>

\* The C++ trampoline decodes the result and frees the buffer.
DecodeResult(g) ==
  /\ pc[g] = "result"
  /\ heap' = heap \ {<<g, depth[g], "cb">>}
  /\ Goto(g, "wasm")
  /\ UNCHANGED <<module, mu, holderGID, exportFns, depth, fn, reentrant,
                 nested, work>>

Next ==
  \E g \in Goroutine :
    \/ InitModule(g) \/ InitModuleDone(g) \/ Close(g)
    \/ \E f \in Export : Invoke(g, f)
    \/ ResolveTypeName(g)
    \/ FindLock(g) \/ Lookup(g) \/ Miss(g) \/ StoreLock(g) \/ Insert(g)
    \/ Enter(g) \/ Lock(g) \/ Hold(g) \/ Alloc(g)
    \/ Return(g) \/ ReadResponse(g) \/ FreeRequest(g)
    \/ ClearHolder(g) \/ Unlock(g) \/ ReturnNested(g)
    \/ Callback(g) \/ HandlerReturn(g) \/ AllocResponse(g) \/ DecodeResult(g)

(***************************************************************************)
(* Fairness.  A goroutine in the runtime goes on; sync.Mutex does not       *)
(* starve a waiter (strong fairness of the three Locks); C++ functions and  *)
(* handlers end: Work bounds what they call first, and handlers do not wait *)
(* for calls of other goroutines, which m.mu keeps out until they return.   *)
(***************************************************************************)
Fairness ==
  \A g \in Goroutine :
    /\ WF_vars(\/ InitModuleDone(g) \/ Lookup(g) \/ Miss(g) \/ Insert(g)
               \/ Enter(g) \/ Hold(g) \/ Alloc(g) \/ Return(g)
               \/ ReadResponse(g) \/ FreeRequest(g) \/ ClearHolder(g)
               \/ Unlock(g) \/ ReturnNested(g) \/ HandlerReturn(g)
               \/ AllocResponse(g) \/ DecodeResult(g))
    /\ SF_vars(FindLock(g) \/ StoreLock(g) \/ Lock(g))

Spec == Init /\ [][Next]_vars

FairSpec == Spec /\ Fairness

-----------------------------------------------------------------------------
TypeOK ==
  /\ module \in {"nil", "initializing", "ready", "closed"}
  /\ mu \in Goroutine \cup {NoGoroutine}
  /\ holderGID \in Goroutine \cup {NoGoroutine}
  /\ exportFns \subseteq Export \ Missing
  /\ depth \in [Goroutine -> 0..MaxDepth]
  /\ pc \in [Goroutine -> PCs]
  /\ fn \in [Goroutine -> Export \cup {NoExport}]
  /\ reentrant \in [Goroutine -> BOOLEAN]
  /\ nested \in [Goroutine -> [1..MaxDepth -> BOOLEAN]]
  /\ heap \subseteq Goroutine \X (1..MaxDepth) \X {"req", "resp", "cb"}
  /\ work \in [Goroutine -> 0..MaxWork]

\* The export map and the module are used only by the goroutine that holds
\* m.mu, although a reentrant call takes no lock and exportFor, in between,
\* gives up the one it took ("wasm execution stays single-threaded per
\* module (wazero requires this)").
ModuleUsedUnderLock ==
  \A g \in Goroutine : pc[g] \in UsesModule => mu = g

\* Calls of two goroutines never overlap, not even while one of them is
\* suspended in a handler ("only same-goroutine reentry is permitted").
Serial ==
  \A g, h \in Goroutine : depth[g] > 0 /\ depth[h] > 0 => g = h

\* holderGID, read without the mutex, never names a goroutine that does not
\* hold it, and exactly the outermost call of a goroutine took the mutex: it
\* is the one that gives it back.
HolderIsOwner ==
  /\ holderGID \in {NoGoroutine, mu}
  /\ \A g \in Goroutine : \A d \in 1..depth[g] : nested[g][d] <=> d > 1

\* No buffer outlives its call, on any path out of it, while the module is
\* open.
BuffersFreed ==
  module # "closed" =>
    \A b \in heap :
      /\ b[2] <= depth[b[1]]
      /\ b[3] # "req" =>
           /\ b[2] = depth[b[1]]
           /\ pc[b[1]] = IF b[3] = "resp" THEN "read" ELSE "result"

\* From its outermost call's lock to that call's end a goroutine keeps m.mu:
\* no callback, nested call or nested lookup gives it up.
LockKept ==
  [][\A g \in Goroutine : depth[g] > 0 /\ depth'[g] > 0 => mu' = mu]_vars

\* Every call returns, with a result or an error: no path leaves m.mu locked
\* and no nested call waits for the mutex its own goroutine holds.
CallsReturn ==
  \A g \in Goroutine : pc[g] \in {"find", "call"}
                        ~> (pc[g] = "go" /\ depth[g] = 0)

\* The activations in progress, by their depths: those of one goroutine.
StackFor(dep) ==
  LET active == {g \in Goroutine : dep[g] > 0}
  IN IF active = {} THEN <<>>
     ELSE LET g == CHOOSE h \in active : TRUE
          IN [i \in 1..dep[g] |-> g]

Stack == INSTANCE WasmStack WITH stack <- StackFor(depth)

\* Calls nest strictly on the C stack, whatever goroutines and handlers do.
StackDiscipline == Stack!Spec
=============================================================================
