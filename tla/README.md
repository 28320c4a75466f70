# A TLA+ model of wasmify

wasmify turns a C/C++ project into a WebAssembly module and a Go package that
calls it. It captures the project's native build, replays it with wasi-sdk,
parses the headers with clang, generates a C++ bridge and a .proto file, and a
protoc plugin emits Go code with a runtime that calls the module.

These modules model the parts of wasmify that have state and an order of steps
that can go wrong: the two Go runtimes, the life of the objects behind the
generated Go handles, the incremental build, the update pipeline, the caches of
the header parser; and three translations whose results have to fit together:
the header parser, the export filter, and the generators of the .proto, the C++
bridge and the Go bindings. TLC checks them on small instances; TLAPS proves
safety properties of the two runtimes, of the handles, of the build, of update,
of the parser's caches, of the export filter and of the numbers that the
generators give for every instance. Paths below are relative to the
repository.

## The system

### Inventory

| Part | State | Operations | What is hard | What makes it correct |
|---|---|---|---|---|
| wazero runtime, emitted by `protoc-gen-wasmify-go/main.go` | `globalModule`, `m.mu`, `m.holderGID`, `m.exportFns`, the module's memory and C stack | Init, Close, invoke, resolveTypeName, callExport, handleCallback, (Un)RegisterCallback | goroutines, handlers that call back in, two lock regions in one call, a holder id read without the lock | one goroutine in the module at a time; strict nesting; every buffer freed; every call returns |
| wasm2go runtime, `runtime_wasm2go.go` | `m.mu`, transpiled module with its stack pointer, two static descriptors | Init, invoke, resolveTypeName, handleCallback, (Un)RegisterCallback | the lock is *released* around handlers; traps unwind Go frames only | the module is touched under the lock; frames and descriptors survive other goroutines' calls |
| Generated handles, `protoc-gen-wasmify-go/main.go` | `ptr`, `keepAlive`, finalizers, callback ids; the C++ objects | construct, access, store, hand over, implement in Go, collect | the garbage collector frees C++ objects at any point of a call | one free per object, none before its last use |
| C++ bridge, `internal/protogen/bridge.go` | static response descriptor | dispatch, callback trampolines | shared descriptors, ownership of buffers | who allocates and who frees |
| wasm-build, `internal/wasmbuild` | outputs on disk with times, `build-cache.json`, `wasm_skip` in `build.json` | replay, skip, retry with stub headers, archive, link, save | crashes, flags and targets that change, cached steps, a user who skips | an incremental build equals a clean one; an unchanged project runs no tool; builds end |
| update, `cmd/wasmify/main.go` and `internal/state` | `wasmify.json` (recorded commit, phase records, bridge section), products of the phases | update, each phase, edits, git pull | a process that holds an old copy of a file others write; failures between phases | "up to date" is true; what the user wrote survives |
| parse-headers, `cmd/wasmify/main.go` and `internal/apispec/parsecache` | `groups.json`, `batch-<digest>.json`, `api-spec.json` | discover, split, look up, parse, merge, save, prune, retry | stale keys, interrupted writes, edits under way | cached and cold runs agree |
| clang AST parser, `internal/apispec/clangast` | `Parser` during a walk; the merged specification | walk, classify, promote, merge, post-process | a name is seen before its class, nested before outer, in another batch, through a typedef | every reference has its full name and kind; classes and members as in C++ |
| export filter, `internal/protogen/export_filter.go` | the kept classes | closure, filtering | members, bases and subclasses call for each other | nothing dangles, nothing is kept for no reason |
| proto generator and bridge generator, `internal/protogen`; Go plugin | none between runs | number services, methods and fields; name messages; mark ownership | three programs number, filter and name the same members apart from each other | a call by number runs the function it is for, with the fields it expects |
| compiler wrapper and capture | one log file, many wrapper processes | exec, append | parallel builds | every command captured once |
| build.json normalisation | steps, transient steps, skips | normalise, carry over skips | renumbering | skips stay on their step |
| tool installers | directories and stamp files | download, unpack, detect | interruption | no partial installation is used |
| cache.json, arch, config, scaffold, skill, CLI | files written once | | | |

### How the parts interact

`build` runs the native build under the wrapper, `generate-build` writes
`build.json` from the log, `parse-headers` reads it and the headers and writes
`api-spec.json`, `gen-proto` turns that into the .proto file and the bridge,
`wasm-build` replays `build.json` with the bridge injected. They share files,
not memory: `wasmify.json` and `build.json` are read and written by several of
them, and `update` runs them as function calls while it holds the
`wasmify.json` it loaded first. At run time the Go program, its goroutines and
finalizers call the module through the runtime; C++ calls back into Go through
the host function `callback_invoke`.

## Modules

| Module | Models | Source |
|---|---|---|
| `WasmStack` | abstract: activations on one C stack, strictly nested | the promise of both runtimes |
| `WazeroRuntime` | the wazero runtime | `protoc-gen-wasmify-go/main.go` 1325-1895 and the trampolines of `bridge.go` |
| `Wasm2goRuntime` | the wasm2go runtime | `runtime_wasm2go.go` 150-525 |
| `Ownership` | abstract: every object is destroyed once, by its owner | the promise of the handles |
| `HandleLifetime`, `MCHandleLifetime` | generated handles and the collector | the `write*` functions of `protoc-gen-wasmify-go/main.go`, their C++ side in `bridge.go` |
| `ApiSpec`, `MCApiSpec` | from declarations to `api-spec.json` | `clangast/parser.go`, the merge in `cmdParseHeaders` |
| `ExportFilter` | the part of the specification that is bridged | `export_filter.go` |
| `GenProto`, `MCGenProto` (extend it) | .proto, bridge and bindings of a specification | `proto.go`, `bridge.go`, `protoc-gen-wasmify-go/main.go` |
| `WasmBuild`, `MCWasmBuild` | wasm-build | `execute.go`, `cache.go`, `link_library.go`, parts of `transform.go` and `cmdWasmBuild` |
| `UpdatePipeline`, `MCUpdatePipeline` | update and wasmify.json | `cmdUpdate`, `classifyChanges`, `updateState`, `cmdGenProto`, `state.go` |
| `ParseHeaders`, `MCParseHeaders` | parse-headers and its caches | `cmdParseHeaders`, `runBatchesWithCache`, `splitAndMerge`, `parsecache/cache.go` |
| `WazeroRuntime_proofs`, `Wasm2goRuntime_proofs`, `WasmBuild_proofs`, `GenProto_proofs`, `UpdatePipeline_proofs`, `ParseHeaders_proofs`, `HandleLifetime_proofs`, `HandleReach_proofs` | theorems about these modules | |

**The runtimes.** Each goroutine has a `pc` naming its place in the innermost
call and a depth of nested calls; each handler that runs is a goroutine with
`pc = "go"` and a depth above 0. A step is what happens between two lock
operations or two calls into the module, so that every interleaving the mutex
permits is there. Buffers are triples of goroutine, depth and role. In
`WazeroRuntime` the C stack is implied by the depths; in `Wasm2goRuntime` it is
explicit (`sp`, `slot`), because that runtime lets another goroutine in while
an activation is suspended. Both are shown to implement `WasmStack` where they
do: always for wazero, and for wasm2go as long as one goroutine at a time is in
a handler.

**Handles.** A handle has what the Go struct has: `ptr`, `keepAlive` (`keep`),
a finalizer (`fin`), the id its finalizer unregisters (`cb`). A C++ object has
an owner, the objects it holds plain pointers to, and its Go adapter. A call is
three steps - arguments read into the request, the C++ function, the handle of
the result - so that the collector can run between any two; what it sees as used
in the rest of a call is `Mentioned`, since Go frees what no later statement
names. A method borrows arguments, takes others over and returns a handle, in
any combination; C++ may store the borrowed ones if the method's name had them
pinned (`MayStore`). The C++ step of a call succeeds, fails in the callee
(`RunFails`, which frees the unique_ptrs it was given), or does not happen or is
cut short (`RunRefused`: no export, no memory for the request, a nil receiver, a
trap). After a refused call Go clears what it would have handed over all the
same, so those objects are `lost`; so are those whose free is refused. A
finalizer is two steps, `Free` and `Unregister`. The bindings are not safe for
every use: what the application, or the C++ library, must not do is `Careless`,
a constant that is empty in the run and whose members each have a counterexample
(see "Known divergences").

**The parser.** `ApiSpec` walks the declarations in order, one action per kind
of AST node, with the parser's tables; then each pass over the batch's
specification is an action, then the merge, then the three passes that run
again. The input carries what C++ means by each name as ghost data, which the
parser does not read and the properties compare with.

**Filter and generators.** `ExportFilter` is one action per round of the
filter's loop; what it should reach is stated by quantifying over sets closed
under reference. `GenProto` goes on from the filtered specification: steps
write the free functions and one handle or callback service each into the
.proto, validate it, write the bridge, and write the bindings. Each of the
three has its own operators for what it leaves out, renames, sorts and
numbers, as the three programs have. Names are sequences of words, so that
joining and case conversion can make two equal. A message is its fields: number,
class, whether it carries a pointer, and who owns that.

**wasm-build.** A file's content is what it was made of, so that "equals a
clean build" is an equation; of modification times only the comparisons
`IsCached` makes are kept (`newer`). One step of the model is a tool that
starts, a tool that exits, a truncation of the cache file or its write, so that
a crash can fall between any two. `Schedule` is Execute's three phases, each
the steps of its kind in list order (`Phase`, a recursive function, which the
prover can unfold where it cannot `SelectSeq`). What is
built and what may happen to it is a `Project`, a scenario chosen at the start,
so that one run covers several.

**update.** A commit is a version of each kind of file `classifyChanges` tells
apart. A product is what its phase read: file versions, the bridge section, and
the products before it. `RunPhase` does a phase's work, `Record` is the
`updateState` at its end, `Finish` the last save of `cmdUpdate`, which writes
the `State` it loaded before any phase ran. parse-headers writes two files,
api-spec.json and then wasmify.json; `torn` says that the last one was cut off
between them. An upstream wasmify.json is a kind of file of its own (`config`).

**parse-headers.** What clang makes of a header is the record of all it
depends on: the texts it reads, the flags, and the inputs no key covers
(`extra`: the bridge's external types, clang). A digest is the record of what
it hashes; that hashes do not collide is assumed. Cache files can be left cut
short by a crash (`Corrupt`).

## Runs

| Run | Instance | Shows |
|---|---|---|
| `wazero` | 2 goroutines, 2 exports, one of them missing, nesting 3, at most 4 callbacks and calls under an outermost call | one goroutine at a time, buffers freed, the lock kept through nested calls, `StackDiscipline` (refinement of `WasmStack`), and under fairness that every call returns |
| `wasm2go_nested` | 3 goroutines, callbacks on one, nesting 3 | the running frame is on top; frames intact, and no frame left when nothing runs, also after traps; buffers freed; `StackDiscipline` |
| `wasm2go_shared` | 2 goroutines, both with callbacks, handlers that wait for other goroutines' calls, allocations that fail, lookups that trap | the module and its descriptors are touched under `m.mu` only, descriptors are not overwritten, every call returns |
| `wasm2go_out_of_order` | 2 goroutines in callbacks | **violated**: the outer call can resume under another goroutine's frame |
| `handles` | 2 goroutines, 3 objects, 3 handles, 1 callback id, calls that fail or are refused, the collector at every step | no handle or stored pointer to a freed object; requests name live objects; each object freed once, and none lost but those of refused calls; handlers registered as long as they can be called; refinement of `Ownership` |
| `api_spec` | some three thousand sets of headers in one or several batches | the nameable classes and no others, with their members; references resolved; nothing with hidden state passed by value; the passes after the merge leave nothing to do |
| `gen_proto` | a class with any three of thirteen members, with and without a base; graphs of four classes with up to two bases, one reference, one abstract class, a choice of exports, external classes or equal names | the filter is exact and keeps subclasses; the three outputs agree on numbers, fields and ownership; the .proto is valid; Go names do not hide each other |
| `build` | three scenarios: changing flags and targets; sources that fail, retries, skips; a library with a bridge, killed at any step | incremental equals clean; an unchanged project runs no tool; cache entries are true; builds end |
| `build_target_switch` | 2 target triples | **violated**: outputs of the old target are reused |
| `update` | 4 kinds of files, 2 versions, HEAD forth and back, phases by hand, edits, failures | undisturbed updates leave fresh products; api-spec.json belongs to the recorded commit unless parse-headers was cut off between its two files; the user's section is kept |
| `update_interrupted` | updates only, one fails | **violated**: the next update says "up to date" |
| `parse_headers` | 2 headers, one including the other, texts that clash or do not compile, 2 flag sets, crashes, failed saves, edits under way | cached runs equal cold ones unless something changed that no key covers; batch files tell the truth; a run after a successful one calls clang for nothing; runs end |

`TypeOK` of each module, and `Serial` and `HolderIsOwner` of the wazero runtime,
are parts of the inductive invariants below rather than of the runs.

### Bounds, and why they are enough

* *Goroutines, nesting.* Two goroutines are the least that can interfere. A
  third in `wasm2go_nested` lets one wait while two alternate. Nesting of 3 has
  a call with both a nested call and a caller. `MaxWork` bounds the number of
  callbacks and calls under one outermost call: it makes C++ functions and
  handlers end, and is more than the nesting so that a handler calls twice in
  sequence. `MaxStack` bounds the stack pointer when frames are lost.
* *Files.* Two sources give an archive a fresh and a stale member. Two versions
  let a file change and change back. Two flag sets distinguish a stale
  configuration. The longest dependency chain (source, object, archive,
  program) is complete.
* *Retries.* `retries` is 1 or 2, not the source's larger constant: one retry
  is the step in question, two show that they are counted.
* *Scenarios of `build`.* Flags, skips and crashes come in projects of their own:
  each needs several builds in sequence, and together they are out of reach.
* *Handles.* Three objects and handles give a receiver, an argument and a
  result; a chain of views of views; an object freed between the two others.
  `MaxArguments = 1`: a call borrows one argument or hands one over; the theorems
  have both, and any number. `MaxTotal = 7` objects, lost objects, handles and
  pins together, of which `MaxPins = 2` and `MaxLost = 1`: a lost object and
  another that takes its place. Two calls
  overlap only while there are no Go-implemented and no lost objects and at most
  `MaxShared = 2` objects and handles (`MCBound`): the interference of two
  calls is over one shared handle.
* *Members.* Any three of the thirteen members of `MCGenProto` meet in one class:
  a collision takes two, and a third shifts the numbers of both. Graphs have
  four classes: a seed, a base, its sibling and a member's type.
* *Headers of `api_spec`.* One header names what another declares, alone, before
  or after it; classes nest to depth three.
* *Updates.* `MaxDisturbed = 2`: two things besides complete updates happen, for
  example an interruption and an edit; HEAD moves as often as it likes. Sources
  are in `update_interrupted`; in `update` the kinds that call for more phases
  stand for them. `VersionSymmetry` is sound because
  versions are only compared for equality.
* *Headers.* `MaxUnkeyed = 1` kind of change escapes the keys in one behaviour;
  an edit while the command runs is the last edit. `MaxFiles = 2`: a command
  finds at most two batch files, those of one complete run or leftovers of
  killed and failed ones; it can itself add two. With two headers every split
  that can be made is a split of one batch into two.

`CHECK_DEADLOCK FALSE` stands in `wasm2go_shared` and `wasm2go_out_of_order`,
where lost frames use up `MaxStack` and no call starts any more; in `handles`,
where all handles can be in use with nothing left to do; and in `gen_proto` and
`api_spec`, which end.

### Fairness, and why the code justifies it

* Runtimes: weak fairness of a goroutine's own steps (Go schedules runnable
  goroutines), strong fairness of taking `m.mu` (`sync.Mutex` has a starvation
  mode: a waiter is served). That C++ functions and handlers return is an
  assumption on user code, expressed by `MaxWork`. In wazero handlers must not
  wait for other goroutines' calls: `m.mu` is kept while they run, and
  `HandlerAwaits` exists in `Wasm2goRuntime` only, where it is freed.
* `ParseHeaders`: weak fairness of the command's own steps (clang exits).
  Nothing is assumed of edits, crashes, or of commands being started.
* `WasmBuild` needs none: `BuildEnds` says that every step of a build leaves
  less to do (`Remaining`), or ends it. That the tools exit is assumed.
* `UpdatePipeline`, `HandleLifetime`, `ApiSpec` and `GenProto` have no liveness
  property: an update is a loop over at most five phases, translations end by
  their structure, and nobody is promised that the collector runs.

## Proofs

`WazeroRuntime_proofs` proves for every number of goroutines and exports and
every `MaxDepth` and `MaxWork`, from `ConstantsAssumption` alone:

| Theorem | Property |
|---|---|
| `TypeCorrect` | `TypeOK` |
| `Exclusion` | `ModuleUsedUnderLock` |
| `CallsSerial` | `Serial` |
| `HolderCorrect` | `HolderIsOwner` |
| `LockIsKept` | `LockKept` |
| `BuffersAreFreed` | `BuffersFreed` |
| `StackRefinement` | `StackDiscipline`: `WazeroRuntime` implements `WasmStack` |

*The argument.* `ModuleUsedUnderLock` is not inductive: `callExport` skips the
lock when `holderGID` is its own goroutine, and reads it without the lock, so
exclusion rests on what that value can be at that moment. `Discipline(g)`
ties together where `g` is, its depth, the owner of `m.mu` and the holder:
a goroutine with a call in progress owns `m.mu`; it is the holder except
between `ClearHolder` and `Unlock`; being the holder implies both. Hence the
read of `holderGID` answers "is it me?" correctly even when another goroutine
writes it at the same time: only `g` itself can make it `g`, or stop it from
being `g`. The rest of `Discipline` is what `exportFor` computed before it
(`reentrant`), and that exactly the outermost call is not `nested`. `TypeStep`
and `DisciplineStep` have a step for every action. `StackRefinement` shows that
a change of depth is a push or a pop of `WasmStack`, everything else a
stutter, since by the invariant all activations belong to one goroutine.
`BuffersAreFreed` adds `BuffersOwned`: every buffer belongs to an activation in
progress, of a role that the step it is at accounts for.

`Wasm2goRuntime_proofs` proves for any number of goroutines, any of them in
callbacks at once, and every `MaxDepth`, `MaxStack` and `MaxWork`, failing
allocations included, from `ConstantsAssumption`:

| Theorem | Property |
|---|---|
| `TypeCorrect` | `TypeOK` |
| `Exclusion` | `ModuleTouchedUnderLock` |
| `DescriptorsHold` | `DescriptorIsOwn` |
| `BuffersAreFreed` | `BuffersFreed`, if `TypeNameMayTrap = FALSE` |

*The argument.* Here the lock changes hands in the middle of a call, so nothing
can be said of a goroutine with a call in progress as such; `Discipline(g)`
speaks of the step it is at: at a step inside the module, or about to unlock,
it owns `m.mu`. `Lock` and `Relock` establish that, and every other step that
takes a goroutine into the module starts inside it. The bound
`depth[g] > 0` at those steps and `depth[g] < MaxDepth` before `Lock` make the
types inductive. `initModule` takes no lock; `InitAlone` says that until it has
ended no goroutine has begun a call. `DescriptorIsOwn` is inductive on top of
these: whoever writes a descriptor owns `m.mu`, and so does whoever still has to
read it. `BuffersFreed` needs `BuffersOwned`: a call that comes to its unlock has
no buffer left. The trap in `resolveTypeName` is the one step that does not
keep it.

Its second part proves of the same runtime, still for any number of
goroutines, but with callbacks on one of them, `a`
(`CallbackGoroutine \subseteq {a}`), and `TypeNameMayTrap = FALSE`:

| Theorem | Property |
|---|---|
| `OnTop` | `RunningFrameOnTop` |
| `FramesAreIntact` | `FramesIntact` |
| `StackImplemented` | `StackDiscipline`: `Wasm2goRuntime` implements `WasmStack` |

*The argument.* Neither property is inductive, since a frame is reused long
before anything reads it. The invariant is the whole shape of the stack,
`Shape(a)`: the `Frames(a)` frames of `a` fill the stack from the bottom in the
order of its calls, and at most one other goroutine runs C++, in one frame on
top of them, because a goroutine without callbacks keeps `m.mu` to the end of
its call. A trap puts the pointer back to what the frame found, hence drops that
frame and nothing else. `LiveCells` reads off the shape which call is at each
place, `StackIsCells` that the abstract stack of the refinement, chosen by
counting the frames below, is that sequence. `Enter` then appends to it,
`Return` and `Trap` take its last element. With callbacks on two goroutines the
shape, and the properties, do fail: run `wasm2go_out_of_order`. So they do after
a trap in `resolveTypeName`.

`UpdatePipeline_proofs` proves for any kinds of files, any number of versions
and any number of disturbances:

| Theorem | Property | Assumes besides |
|---|---|---|
| `RecordedHeadIsParsed` | `SpecMatchesRecord`, which excepts a parse-headers cut off before `updateState` (`torn`) | gen-proto is not run by hand |
| `EditsAreKept` | `UserEditsKept` | the user edits between commands |
| `UpdatesAreFresh` | `UndisturbedIsFresh` | the project has been built once |

*The argument.* The assumptions are those of the run; without each there is a
counterexample (below). `SpecMatchesRecord` needs `Recorded`: the headers of the
recorded commit are those parsed, or parse-headers has written api-spec.json and
is about to record its HEAD (`Unrecorded`), or was cut off there and none that
came through has followed (`torn`). HEAD may go back to any commit, so what HEAD
is at the moment is no part of it. `Running` says where parse-headers is still in
`todo`. `UndisturbedIsFresh` needs, in `Undisturbed`, that every phase
no longer in `todo` has made its product of HEAD, and that the set of those is
`Closed`: it contains, with a phase, every phase whose product it reads. The
fact behind it is `NotNeeded`: a phase that the changed files do not call for,
read off `classifyChanges`, makes the same product of the old tree and of the
new. Products are defined by a circular-looking choice over what phases read of
each other; `AllOfExists` and `AllOfAgrees` show that there is exactly one.

`WasmBuild_proofs` proves, for any steps, files, versions, flags, projects and
numbers of builds, with failing tools, retries, skips, new captures, edits and
kills:

| Theorem | Property | Assumes besides |
|---|---|---|
| `EveryBuildEnds` | `BuildEnds` | nothing |
| `EntriesAreTrue` | `EntriesDescribeOutputs` | `Assumed` |
| `SettledAlways` | `Settled` | `Assumed` |
| `ArtifactsAreFresh` | `FreshArtifacts` | `Assumed` |

`Assumed` is what the code needs of its input for incremental builds to be
right. Two parts are about the captured build: tools read what earlier phases
make (`InPhases`, the order of `Execute`), and a step is captured together with
those whose outputs its command line names (in `Steady`). One says that the
markers `Absent` and `Corrupt` are nothing a tool or `Save` makes (`Markers`).
Without any of the others there is a counterexample under "Known divergences":

| Assumption | Without it |
|---|---|
| no two steps write one file (`OwnOutputs`) | `execute.go:315` |
| tools read their operands only (`Headers`) | `transform.go:1258` |
| `IsCached` finds every operand (`Unresolved = {}`) | `cache.go:128`, `transform.go:302` |
| one numbering of the steps | `cache.go:142` |
| one target | run `build_target_switch` |
| a library's plans have the same archives | `link_library.go:25` |
| a project whose builds are killed has one configuration, and skips no source | `execute.go:92`, `cache.go:155` |

*The argument.* `EveryBuildEnds` is arithmetic over `Remaining`, once the length
of the schedule is known not to change under a running build (`Types`).
For the others, the invariant follows the loop. `Passed`: every step behind the
one at hand is skipped or `Good`, it was made of what it would read now, nothing
of that is newer, and the next build will know it. It needs `Runs`, what command
lines and the running tool's input are at each place; the phases, so that a
step never writes what one behind it has read; and `Disk`, that a file not newer
than an output is the one the output was made of, or gone. Why a step found in
the cache is `Good` depends on the project: without kills the entries describe
every output on disk (`Known`), with them there are outputs without entries, and
what those and the entries can say is one thing for each step (`Killable`).
`OutputsClean` compares with a clean build, phase by phase. `Clean` is recursive
over the files, and that there is such a function is itself an induction over
the phases (`CleanExists`); `ScheduleLists` is one over the list of steps.

`ParseHeaders_proofs` proves, for any headers, texts, lists, flags, batch sizes
and caches, with every failure, kill and cut-off write the model has:

| Theorem | Property | Needs |
|---|---|---|
| `BatchFilesDescribe` | `BatchesDescribeTexts` | `DigestCurrent` |
| `KeyedAlways` | `KeyedSpecIsFresh` | `Keyed` |
| `WarmAlways` | `WarmAfterSuccess` | `Warm` |

*The argument.* `DigestCurrent`: while clang runs, the digest taken before is
still that of the batch's headers, unless one was edited meanwhile. For
`KeyedSpecIsFresh`, nothing that any key leaves out has changed (`unkeyed = {}`,
as the property has it), and `Keyed` says what the caches and the command then
hold: a batch file that a lookup would find, and the part of the specification
already merged, are what clang makes of the headers now; and a list of batches,
of the cache or at hand, `Covers` the headers it is for, it holds exactly those
that compile alone. The last is a fact about `Split`, which halves a batch that
does not compile. It is defined by recursion, so the proof shows that a function
with those equations exists (`HalveExists`, `SplitIs`) and then, by induction on
the length of the list, what it returns (`SplitCovers`). `Induction` states that
principle for sets of numbers, from the well-foundedness of finite sets, since
the library's own takes an operator the provers cannot instantiate. For
`WarmAfterSuccess`, `Warm` follows the loop: every batch it has passed is
`Filed`, under a digest that is among those kept, and `groups.json`, once it has
been a hit, still names the batches at hand.

`HandleLifetime_proofs` proves `FreedOnceAlways` (`FreedOnce`) for any goroutines,
objects, handles, ids and number of arguments, if `OwnershipCare`: none of
`implArgs`, `borrowed`, `released` and `abstract` is in `Careless` (each has its
counterexample below; the other uses cannot break this property). The objects of
refused calls are `lost`: the property asks that nothing frees them, and is false
if it asks the contrary. `FreedOnce`
counts handles and calls; the invariant names them (`Single`): the one handle
that will free an object, or the one call about to make that handle. It needs
`HandsOver` and `Apart`: what a call hands over has a finalizer, its pointer is
what the request says, and no other call hands it over; and `Finalizer`: a
finalizer runs only for a handle that is neither held nor handed over. Of the
collector it uses only that it leaves alone what is held and what a call still
mentions (`ReachContains`), not what else it can reach; and of C++ deletion,
that an object deleted with its owner has no handle of its own to free it
(`OwnedHasOwner`).

`HandleReach_proofs` proves the rest of what the handles promise, for any
goroutines, objects, handles and ids, if the application does none of the
things in `Careless` (`Careless = {}`; each member has its counterexample
below):

| Theorem | Property |
|---|---|
| `HandlesLiveAlways` | `HandlesLive` |
| `RefsLiveAlways` | `RefsLive` |
| `RequestLiveAlways` | `RequestLive` |
| `HandlersAreRegistered` | `HandlersRegistered` |
| `OwnershipKeptAlways` | `OwnershipKept`: `HandleLifetime` implements `Ownership` |

*The argument.* That a handle names a live object says nothing of what the next
finalizer frees, so none of the first three is inductive. An object lives
exactly as long as one handle is not finalized: the *guard* of the tree of
objects it belongs to. The invariant therefore asks of everybody who needs an
object that they *reach* its guard, through keepAlive lists, from where they
stand (`Anchor`): handles in use from themselves (`HandlesAnchored`), requests
from what the call holds or mentions, and every object of a tree, for what it
points to, from the guard of that tree (`ObjectsAnchored`). Whatever the
collector picks is not reached from what is used or waited for (`Known`), so
its tree is needed by nobody outside it; and a handle waiting for its finalizer
holds its list, so finalizers may come in any order. Reaching is a least fixed
point, and the proof works with that alone: `ClosureLeast`, `ClosureGrows` and
`ClosureWithin` for lists, the same for trees of owners, and `Graft`, what a
tree becomes when others are hung into it. A lost object has no guard, so nothing
is claimed of its tree, `Kept` is what is left (`KeptRooted`). Lists count only without what a call
is about to give away (`Solid`), because `Cleared` will take that out of use
while other lists still name it. `Rooted`, that every live object hangs from one
that belongs to no other, makes `RefsLive` cover objects no handle names any
more, and gives, with `Single`, every step of the refinement: `Construct` and
the calls that make objects are `Make`, `RunMethod` is `Transfer`, a finalizer and
a failing call are `Release`, everything else, a refused call too, a stutter. `HandlersRegistered` needs
`IdInv`, an id has one finalizer or one call to unregister it (for any
`Careless`), and `HInv`, the guard of a tree also reaches whoever unregisters
the adapters in it: this is where the adapter of an object handed over must be
pinned on the one that takes it.

`GenProto_proofs` proves, for any specification, exports and bridge section,
`ApisTyped` (what the parser writes has the fields of `apispec/types.go`)
assumed:

| Theorem | Property | Assumes besides |
|---|---|---|
| `FilterIsExact`, `FilteredToTheEnd` | `FilterExact`, of the filter alone and of every step of gen-proto | no exported function is overloaded (`NoOverloadedExports`) |
| `SubclassesAreKept`, `SubclassesToTheEnd` | `SubclassesKept`, the same | bases that are not the first are mixins (`OnlyMixins`) |
| `RpcsNumberedAlike` | `DispatchAgrees` | `NumberedAlike` |

*The argument for the filter* is that of every worklist: the loop ends when a
round adds nothing, which makes the kept set a fixed point (`Settled`) and hence
closed; and since `Round` is monotone (`RoundMonotone`), it never leaves a
closed set that contains the seeds. `OnlyMixins` says that classes are finitely
many, and that a base that is not the first of its class has no bases and that
class no subclasses (the run's graphs are of this kind). `hasAncestor` follows
first bases; `AncestorsFound` shows, step by step up the hierarchy, that then
nothing above a class escapes it. `Above` is a recursive function of the depth,
so that first `HigherExists` has to show that there is one. `overloadedExport`
and `secondaryBase` below are the counterexamples without these assumptions.

*The argument for the numbers.* The .proto generator leaves methods out, counts
overloads and sorts statics before methods; the bridge generator counts first and
leaves out then, and takes the rest from its own tables. `NumberedAlike` is what
they need of the input to come out alike, and has a part for each of the three
ways in which they do not (`Lenient`, below):

| Part | Without it |
|---|---|
| `FieldsBridged`: the bridge can read every field of a class that gets a service | `hiddenField` |
| `SkipsNoOverload`: SkipStaticMethods names no method with overloads, counted or not | `skippedOverload` |
| `OverridesNamedAlike`: a virtual method and what it overrides are counted alike | `inherited` |

`MCGenProto` assumes it of the run's specifications whenever `Lenient` is empty,
so TLC evaluates it on all of them, and it fails with any of the three members.
Every selection in both generators is `Chosen`, the elements of a sequence at
some of its places in their order, and `Brief` is what a list says about
numbers: kind and member. The lemmas on these two (`ChosenIs`, `ChosenTwice`
and so on) turn a claim about two programs into one about two sets of places,
and `HandleDispatchAgrees`, `FunctionsAgree` and `CallbacksAgree` settle those.
That no slot is overridden twice (`SlotsDistinct`) needs the lineage of a class,
which is again a recursive function of the depth. The invariant `ProtoInv` has
three parts: `SpecInv`, the filtered specification is a closed part of the
parser's, with the members as they were; `Progress`, the services written so far
are that of the functions, if any, those of the first *k* handle classes and
those of the first *l* callback classes, and `todo` is the rest; and
`DispatchAgrees`, which `GenerateBridge` establishes from a complete `Progress`
(`BridgeAgrees`).

*Only model-checked*: `WireAgrees`, `SchemaValid` and `GoNamesFree` of `GenProto`,
the properties of `ApiSpec`, and all liveness (fairness and ENABLED are outside
the prover's reach). The three of `GenProto` are about `messages` and names,
which are built by folds and by turning numbers into strings, the properties of
`ApiSpec` about recursive operators, folds and sorts: what those compute is
induction over data.

## Known divergences

What the code, its comments or its documents promise and the model does not
find. Three are runs with a counterexample (the **violated** rows above). The
others are kept out of the passing runs by a constant; changing it in the
named configuration gives the counterexample.

### Runtimes, build, update, parse-headers

| Where | What happens | How to see it |
|---|---|---|
| `runtime_wasm2go.go:276` | a failed allocation returns 0 and the request overwrites static data; wazero guards this (`main.go:1834`) | `MC_Wasm2goShared` with `INVARIANT StaticDataIntact` |
| `runtime_wasm2go.go:301` | a trap in resolveTypeName leaves its frame | `MC_Wasm2goNested` with `TypeNameMayTrap = TRUE`: `FramesIntact` |
| `cache.go:128` | operands relative to the step's directory are not found, so never newer | `MC_Build` with `Unresolved <- MCRelative` |
| `transform.go:302` | operands re-pointed in Args only | `Unresolved <- MCMoved` |
| `transform.go:1258` | header edits rebuild nothing | `Headers <- MCHeaders`, `header` among the sources |
| `execute.go:315` | an archive appended to by a second command loses its first members | `append` among the steps, `Operands <- MCAppendOperands` |
| `link_library.go:25` | archives of an earlier `build.json` are linked | `append` among the steps, `Project <- MCDropping`, `Out <- MCOwnOut` |
| `cache.go:142` | keys hold step numbers, a new capture renumbers | `Project <- MCRenumbered` |
| `execute.go:92` | killed, then flags set back: entry and output disagree | `crashes` in the scenario `Reconfigured` |
| `cache.go:155` | killed before the cache is saved, then a source is skipped: its old object stays in the archive, which has no entry and no newer operand | `crashes` in the scenario `Skipping` |
| `main.go:1715` | a skipped bridge step's old object is linked | drop the exemption in `FreshArtifacts` |
| `main.go:2733` | gen-proto by hand records HEAD for everything | `MC_Update` with `gen-proto` in `Manual`: `SpecMatchesRecord` |
| `main.go:2941` | the first update leaves out wasm-build | `MC_UpdateInterrupted` with `Built = FALSE`, `MayFail = FALSE` |
| `main.go:2820` | build files other than Bazel's start no phase | `other` among the files, `UpdatedIsFresh` |
| `main.go:2826` | an edited bridge section starts no phase | `EditableAt = {"idle"}`, `UpdatedIsFresh` |
| `main.go:2990` | edits made during an update are overwritten, as are phase records and discovered libraries | `EditableAt = {"phase"}`: `UserEditsKept` |
| `main.go:419` | `init` records HEAD before anything is built | not modelled |
| `main.go:2026` | parse-headers killed between api-spec.json and `updateState` (2041); upstream returns to the recorded commit, and `update` says up to date over a specification of other headers | `MC_Update` with `~torn` dropped from `SpecMatchesRecord` |
| `main.go:1934` | a header left out because it did not compile stays out after it is repaired | `MC_ParseHeaders` with `INVARIANT SpecIsFresh` |
| `parsecache/cache.go:176` | includes of other batches, external types and clang are in no key | the same |
| `main.go:2069` | a header edited between digest and parse is cached under the old digest | `BatchesDescribeTexts` without its exemption |
| `main.go:1995` | the deferred function writes the caches on failing exits too, against its comment | `SaveFails`: compare `groups` around `Deferred` |

### Handles

A call that is refused, or traps, loses the objects it was to hand over, and a
free that is refused loses its object: the generated code clears the Go pointer
whether or not C++ took it (`protoc-gen-wasmify-go/main.go:3258`, `3302`, `3420`,
`3425`), after an error for a missing export (1784) or a failed allocation
(1834) or a null handle in the bridge (`bridge.go:5956`). This is in the runs and
the theorems, as `lost`: `MC_Handles` with `lost` dropped from `FreedOnce` gives
the counterexample. The rest are members of `Careless`, to be added in
`MC_Handles`:

| Member | What the bindings do not make safe | Violates |
|---|---|---|
| `temporary` | the last reference to a receiver, or to an argument of a method, is dropped during the call: no `runtime.KeepAlive` (`main.go:3362`) | `RequestLive`, `RefsLive` |
| `inherited` | an inherited accessor pins the embedded base, which has no finalizer | `HandlesLive` |
| `viewed` | an object is handed over while views of it are in use | `HandlesLive`, `RefsLive` |
| `unpinned` | an object that needs others is handed to a callee that keeps no handle of it | `HandlersRegistered`, `RefsLive` |
| `mutateView` | an argument stored through a view is pinned on the view | `RefsLive` |
| `otherName` | a method that is not named Add..., Set..., Register..., Insert..., Attach..., Push... stores an argument, and nothing pins it (`main.go:3406`) | `RefsLive` |
| `argument` | a method returns a part of an argument, or the argument: the result is pinned on the receiver only (`main.go:3395`, `3418`) | `HandlesLive` |
| `abstract` | a free function makes an object of an abstract class: its handle gets no finalizer (`main.go:3683`, `2097`), and nobody frees it | `FreedOnce` |
| `implArgs` | a unique_ptr argument of `New...FromImpl` is not cleared | `FreedOnce` |
| `borrowed` | a free function returns an object it does not give away, and Go frees it | `FreedOnce` |
| `released` | a method gives its result away, and nobody frees it | `FreedOnce` |

### Generators: members of `Lenient` in `MC_GenProto`

| Member | What it is | Violates |
|---|---|---|
| `hiddenField` | a field that is not bridged shifts the ids of later ones (`proto.go:1543`, `bridge.go:5614`) | `DispatchAgrees` |
| `skippedOverload` | SkipStaticMethods names a method that has overloads: one generator has renamed it | `DispatchAgrees` |
| `inherited` | overloads of one virtual in a class and its base | `DispatchAgrees` |
| `ctorOutput`, `ctorValue` | constructor parameters the .proto counts otherwise than the bridge (`bridge.go:241`, `5807`) | `WireAgrees` |
| `ownHandle` | a constructor that takes an object of its class: Go leaves it out (`main.go:3239`) | `WireAgrees` |
| `filledValue`, `noDefault`, `nestedValue` | values filled through a pointer, without a default constructor, or inside values (`bridge.go:295`) | `WireAgrees` |
| `callbackNamed`, `sharedWords` | names that collide once they are joined (`proto.go:1583`) | `WireAgrees` |
| `implUnique`, `keepingCtor` | ownership marks of constructors (`proto.go:1858`, `1915`; `bridge.go:5690`) | `WireAgrees` |
| `fromCallback`, `freeAndRelease`, `functionTwins`, `outFirst` | RPCs, messages or fields with one name | `SchemaValid` |
| `newStatic`, `functionClass` | Go functions and types with one name | `GoNamesFree` |
| `overloadedExport` | of an exported overloaded function the last overload's types only are kept (`export_filter.go:65`) | `FilterExact` |
| `secondaryBase` | subclasses through a base that is not the first (`export_filter.go:219`) | `SubclassesKept` |

Seen while modelling and not in the model: a response's error field 15 is also
the number of a fifteenth output; only the first output of a callback reaches
C++; pointers to secondary bases are not adjusted (`main.go:3071`);
`export_filter.go:44` panics on a qualified name shorter than its namespace.

### Parser: members of `Lenient` in `MC_ApiSpec`

| Member | What it is | Violates |
|---|---|---|
| `overloads` | the merge keeps one free function of a name (`main.go:2529`) | `MembersKept` |
| `externalNested`, `privateOutOfLine`, `privateDeep`, `latePart` | nested classes of external, private or later defined classes (`parser.go:1491`, `2376`) | `ClassesCommitted` |
| `otherBatchName`, `elsewhereTypedef`, `partlyQualified`, `aliasOther`, `classTypedef` | spellings no pass resolves (`main.go:1984`) | `ReferencesResolve` |

## Not modelled

* Texts: C++ and Go bodies of what `bridge.go` and the plugin emit besides the
  numbers, fields, names and ownership in `GenProto`; shims, scaffolds.
* In wasm-build: ranlib steps, flags rewritten inside a command, the contents
  of stub headers and host shims, copying into the output directory, edits to a
  source while a tool reads it.
* In the runtimes: WASI functions, codecs, unregistering a handler that another
  goroutine is being dispatched to, a failing Init, Init after Close.
* In the handles: containers of handles, accessors that copy, exceptions in
  finalizers, callbacks made during a call (the runtimes have them).
* In the parser: enum values, deleted `operator new`, comments, rvalue-reference
  methods, `Parse` without streaming, template arguments other than a vector's
  and a unique_ptr's.
* In the generators: destructors and operators, enum types, error strings, the
  Bazel rules.
* In update: two processes at once, an unreadable `wasmify.json`, the skip,
  build and selection sections.
* In parse-headers: `--header`, headers that cannot be read; a header always
  declares something.
* The compiler wrapper (one atomic append per command), build.json
  normalisation, Bazel capture, the installers, cache.json, arch, config,
  scaffold, skill and CLI: see the components in `PROJECT.json`.

## What is left

In this order.

1. Proofs: what of `ApiSpec` and of the wire forms in `GenProto` is not induction
   over data.
2. `CallbackRegistry`: register, unregister, dispatch and Close against running
   handlers, in both backends.
3. `Capture`: wrapper processes, log, normalisation, transient steps and the
   skips carried over to a new `build.json`.
4. `ToolInstall`: download, unpack, stamp, detect, with interruption.
