------------------------------ MODULE WasmBuild ------------------------------
(***************************************************************************)
(* `wasmify wasm-build`: the replay of the captured build by Execute        *)
(* (internal/wasmbuild/execute.go), the incremental-build cache it consults *)
(* (cache.go) and the link of a library artifact (link_library.go).         *)
(*                                                                          *)
(* A file's content is what it was made of: for a source its version, for   *)
(* an output the configuration and the operands the tool ran with and the   *)
(* content each file it read had at the time.  Of the modification times     *)
(* only the comparisons IsCached makes are kept.                            *)
(***************************************************************************)
EXTENDS Integers, Sequences, FiniteSets, Functions, SequencesExt

CONSTANTS
  Step,          \* the steps of build.json and the injected bridge steps
  Captured,      \* Captured: the steps in the order of their list
  Kind,          \* Kind[s]: "compile", "archive" or "link"
  Out,           \* Out[s]: its output file
  Operands,      \* Operands[s]: the files on its command line
  Headers,       \* Headers[s]: the files it reads that are not
  Unresolved,    \* <<s, f>>: IsCached cannot stat operand f of s
  Source,        \* files of the upstream project
  Version,       \* texts a source can have
  External,      \* archives on link lines that no step builds
  Artifact,      \* the library's output/<name>.wasm
  Absent,        \* content of a file that does not exist
  Corrupt,       \* content of a build-cache.json that does not parse
  Flags, Target, \* configurations of wasmify.json
  Project        \* what is built, and what may happen to it:
                 \*   plans    what build.json can be: [steps: SUBSET Step,
                 \*            ids: the numbering]
                 \*   bridge   the injected steps, which build.json has not
                 \*   library  the selected target is a library
                 \*   flags    the flags wasmify.json may give
                 \*   retries  maxMissingHeaderRetries
                 \*   skips    the user accepts to skip a source that fails
                 \*   crashes  builds are killed

File == Source \cup External \cup {Out[s] : s \in Step}

ASSUME ConstantsAssumption ==
  /\ Captured \in Seq(Step) /\ Step = Range(Captured)
  /\ Kind \in [Step -> {"compile", "archive", "link"}]
  /\ \A s \in Step : /\ Operands[s] \subseteq File
                     /\ Headers[s] \subseteq Source
                     /\ Out[s] \notin Source \cup External \cup {Artifact}
  /\ Source \cap External = {} /\ Artifact \notin Source \cup External
  /\ Absent \notin Version
  /\ Unresolved \subseteq Step \X File
  /\ \A q \in Project :
       /\ \A p \in q.plans : p.steps \subseteq Step
       /\ q.bridge \subseteq {s \in Step : Kind[s] = "compile"}
       /\ q.flags \subseteq Flags
       /\ q.retries \in Nat \ {0}
       /\ {q.library, q.skips, q.crashes} \subseteq BOOLEAN

VARIABLES
  project,    \* one of Project, the same for ever
  content,    \* content[f]: what the file on disk was made of
  newer,      \* <<f, o>>: f was modified after o, which is made from it
  plan,       \* build.json
  wasmSkip,   \* the steps build.json marks wasm_skip
  cacheFile,  \* build-cache.json
  pc,         \* where the process is; "idle" when none runs
  cfg,        \* configuration of the running, or else the last, build
  at,         \* index of the current step in Schedule
  args,       \* args[s]: operands left on the command line of s
  skipped,    \* steps with Skipped set
  entries,    \* BuildCache.Entries
  tries,      \* retries of the current compile
  read,       \* what the running tool has read
  ok,         \* no step of this build failed
  done        \* the last build succeeded and nothing has changed since

disk == <<project, content, newer, plan, wasmSkip, cacheFile>>
process == <<pc, cfg, at, args, skipped, entries, tries, read, ok>>
vars == <<disk, process, done>>

Injected == project.bridge
Library == project.library
NoArgs == [s \in Step |-> {}]
NoEntries == << >>
Compiles == {s \in Step : Kind[s] = "compile"}
Outputs(S) == {Out[s] : s \in S}

\* The steps of build.json and the injected ones.
Live == plan.steps \cup Injected

\* The steps of one phase, in list order.
Phase(k) ==
  LET list[n \in 0..Len(Captured)] ==
        IF n = 0 THEN << >>
        ELSE IF Captured[n] \in Live /\ Kind[Captured[n]] = k
             THEN Append(list[n - 1], Captured[n]) ELSE list[n - 1]
  IN  list[Len(Captured)]

\* The steps Execute goes through, phase by phase.
Schedule == Phase("compile") \o Phase("archive") \o Phase("link")

Current == Schedule[at]

\* The flags a tool's command line takes from the configuration: llvm-ar none.
Config(s) == IF Kind[s] = "archive" THEN << >> ELSE <<cfg.flags, cfg.target>>

\* cacheKey: OriginalID (0 for an injected step) and the output file.
Key(s) == <<IF s \in Injected THEN 0 ELSE plan.ids, s>>

\* hashArgs(step.Args).
Hash(s, ops) == <<Config(s), ops>>

\* The outputs on disk made from f.
MadeFrom(f) == {o \in {Out[s] : s \in {s \in Step : f \in Operands[s]}} :
                  content[o] # Absent}

\* f is written now, or removed.
Touch(f) == {n \in newer : n[2] # f} \cup ({f} \X MadeFrom(f))
Forget(f) == {n \in newer : f \notin {n[1], n[2]}}

\* An archive step's InputFiles hold its own output too.
HasInputFiles(s, ops) == Kind[s] = "archive" \/ ops # {}

\* Mutant: a changed command line is not noticed.
IsCachedAnyArgs(s, ops, known) ==
  /\ content[Out[s]] # Absent
  /\ HasInputFiles(s, ops)
  /\ \A f \in ops : <<s, f>> \notin Unresolved => <<f, Out[s]>> \notin newer

\* Tier 1: an entry with the same arguments; tier 2: no entry.  Both: no
\* input that stat finds is newer than the output.
IsCached(s, ops, known) ==
  /\ content[Out[s]] # Absent
  /\ IF Key(s) \in DOMAIN known THEN known[Key(s)] = Hash(s, ops)
                                ELSE HasInputFiles(s, ops)
  /\ \A f \in ops : <<s, f>> \notin Unresolved => <<f, Out[s]>> \notin newer

\* LoadBuildCache: a missing, malformed or other-target file reads as empty.
LoadBuildCache(target) ==
  IF cacheFile \in {Absent, Corrupt} THEN NoEntries
  ELSE IF cacheFile.target # target THEN NoEntries ELSE cacheFile.entries

\* scrubPersistedSkips and applySkip: no command names a skipped object.
Scrub(ops, S) == [s \in Step |-> ops[s] \ Outputs(S)]

\* A source's text, or what the tool of step s makes of the files it read.
Product(s, r) == [config |-> Config(s), from |-> r]
-----------------------------------------------------------------------------
Init ==
  /\ project \in Project
  /\ content \in [File \cup {Artifact} -> {Absent} \cup Version]
  /\ \A f \in DOMAIN content : content[f] = Absent <=> f \notin Source
  /\ newer = {}
  /\ plan \in project.plans
  /\ wasmSkip = {}
  /\ cacheFile = Absent
  /\ pc = "idle"
  /\ cfg \in [flags : project.flags, target : Target, noCache : {FALSE}]
  /\ at = 1
  /\ args = NoArgs
  /\ skipped = {}
  /\ entries = NoEntries
  /\ tries = 0
  /\ read = << >>
  /\ ok = TRUE
  /\ done = FALSE

\* The upstream project changes a file, between two builds.
Edit(f, v) ==
  /\ pc = "idle"
  /\ content' = [content EXCEPT ![f] = v]
  /\ newer' = Touch(f)
  /\ done' = FALSE
  /\ UNCHANGED <<project, plan, wasmSkip, cacheFile, process>>

\* generate-build captures the build anew; carryOverWasmSkip keeps the skips.
GenerateBuild(p) ==
  /\ pc = "idle"
  /\ p # plan
  /\ plan' = p
  /\ done' = FALSE
  /\ UNCHANGED <<project, content, newer, wasmSkip, cacheFile, process>>

\* cmdWasmBuild up to Execute's loop.
Start(c) ==
  /\ pc = "idle"
  /\ pc' = "step"
  /\ cfg' = c
  /\ at' = 1
  /\ skipped' = wasmSkip
  /\ args' = Scrub(Operands, wasmSkip)
  /\ entries' = LoadBuildCache(c.target)
  /\ ok' = TRUE
  /\ done' = FALSE
  /\ UNCHANGED <<disk, tries, read>>

AtStep == pc = "step" /\ at <= Len(Schedule)

Cached(s) == ~cfg.noCache /\ IsCached(s, args[s], entries)

Pass ==
  /\ AtStep
  /\ Current \in skipped \/ Cached(Current)
  /\ at' = at + 1
  /\ UNCHANGED <<disk, pc, cfg, args, skipped, entries, tries, read, ok, done>>

Exists(f) == content[f] # Absent

\* filterMissingArchives, for links only.
Filter(s) == IF Kind[s] = "link" THEN {f \in args[s] : Exists(f)} ELSE args[s]

Input(s, ops) == [f \in ops \cup Headers[s] |-> content[f]]

\* The tool starts; an archive's old file is removed first (executeStep).
Launch ==
  LET s == Current
      ops == Filter(s)
  IN  /\ AtStep
      /\ s \notin skipped /\ ~Cached(s)
      /\ args' = [args EXCEPT ![s] = ops]
      /\ read' = Input(s, ops)
      /\ IF Kind[s] = "archive"
         THEN /\ content' = [content EXCEPT ![Out[s]] = Absent]
              /\ newer' = Forget(Out[s])
         ELSE UNCHANGED <<content, newer>>
      /\ pc' = "tool"
      /\ UNCHANGED <<project, plan, wasmSkip, cacheFile, cfg, at, skipped, entries,
                     tries, ok, done>>

\* To the step after the current one.
Advance == /\ pc' = "step"
           /\ at' = at + 1
           /\ tries' = 0
           /\ read' = << >>

\* Mutant: an entry is written once and kept.
UpdateOnce(s) == [k \in DOMAIN entries \cup {Key(s)} |->
                    IF k \in DOMAIN entries THEN entries[k] ELSE Hash(s, args[s])]

\* bc.Update(steps[i]).
Update(s) == [k \in DOMAIN entries \cup {Key(s)} |->
                IF k = Key(s) THEN Hash(s, args[s]) ELSE entries[k]]

\* The tool exits with 0; llvm-ar does only if every member exists.
Succeed ==
  LET s == Current
  IN  /\ pc = "tool"
      /\ \A f \in DOMAIN read : read[f] # Absent
      /\ content' = [content EXCEPT ![Out[s]] = Product(s, read)]
      /\ newer' = Touch(Out[s])
      /\ entries' = Update(s)
      /\ Advance
      /\ UNCHANGED <<project, plan, wasmSkip, cacheFile, cfg, args, skipped, ok, done>>

\* Mutant: deploying a stub starts the count again.
RetryForever ==
  /\ pc = "tool"
  /\ Kind[Current] = "compile"
  /\ tries' = IF tries + 1 < project.retries THEN tries + 1 ELSE 0
  /\ read' = Input(Current, args[Current])
  /\ UNCHANGED <<disk, pc, cfg, at, args, skipped, entries, ok, done>>

\* A compile misses headers, a stub is deployed, the compiler runs again.
Retry ==
  /\ pc = "tool"
  /\ Kind[Current] = "compile"
  /\ tries + 1 < project.retries
  /\ tries' = tries + 1
  /\ read' = Input(Current, args[Current])
  /\ UNCHANGED <<disk, pc, cfg, at, args, skipped, entries, ok, done>>

\* Mutant: the commands that follow keep the skipped object.
SkipKeepsArgs ==
  LET s == Current
  IN  /\ pc = "tool"
      /\ project.skips
      /\ Kind[s] = "compile"
      /\ skipped' = skipped \cup {s}
      /\ wasmSkip' = wasmSkip \cup ({s} \ Injected)
      /\ Advance
      /\ UNCHANGED <<project, content, newer, plan, cacheFile, cfg, args, entries, ok, done>>

\* A compile fails and the user skips it: applySkip, then OnSkipPersist.
SkipStep ==
  LET s == Current
  IN  /\ pc = "tool"
      /\ project.skips
      /\ Kind[s] = "compile"
      /\ skipped' = skipped \cup {s}
      /\ args' = Scrub(args, {s})
      /\ wasmSkip' = wasmSkip \cup ({s} \ Injected)
      /\ Advance
      /\ UNCHANGED <<project, content, newer, plan, cacheFile, cfg, entries, ok, done>>

\* The step fails for good; clang drops the output of a failed run, or has
\* not got as far as touching it.
Fail ==
  LET o == Out[Current]
  IN  /\ pc = "tool"
      /\ \/ UNCHANGED <<content, newer>>
         \/ /\ content' = [content EXCEPT ![o] = Absent]
            /\ newer' = Forget(o)
      /\ pc' = "save"
      /\ ok' = FALSE
      /\ tries' = 0
      /\ read' = << >>
      /\ UNCHANGED <<project, plan, wasmSkip, cacheFile, cfg, at, args, skipped,
                     entries, done>>

AllStepsDone ==
  /\ pc = "step"
  /\ at > Len(Schedule)
  /\ pc' = "save"
  /\ UNCHANGED <<disk, cfg, at, args, skipped, entries, tries, read, ok, done>>

\* Save: WriteFile truncates the file, then writes it.
Truncate ==
  /\ pc = "save"
  /\ cacheFile' = Corrupt
  /\ pc' = "write"
  /\ UNCHANGED <<project, content, newer, plan, wasmSkip, cfg, at, args, skipped, entries,
                 tries, read, ok, done>>

\* The process's memory is gone; what the last build was is kept for done.
Exit == /\ pc' = "idle"
        /\ at' = 1
        /\ args' = NoArgs
        /\ entries' = NoEntries
        /\ tries' = 0
        /\ read' = << >>
        /\ ok' = TRUE
        /\ UNCHANGED <<cfg, skipped>>

Write ==
  /\ pc = "write"
  /\ cacheFile' = [target |-> cfg.target, entries |-> entries]
  /\ IF ok /\ Library
     THEN /\ pc' = "link"
          /\ UNCHANGED <<cfg, at, args, skipped, entries, tries, read, ok, done>>
     ELSE Exit /\ done' = ok
  /\ UNCHANGED <<project, content, newer, plan, wasmSkip>>

\* collectArchives walks lib/; the bridge objects are those that exist.
LibraryInputs ==
  {f \in Outputs({s \in Step : Kind[s] = "archive" \/ s \in Injected}) : Exists(f)}

LinkLibrary ==
  /\ pc = "link"
  /\ \E s \in Step : Kind[s] = "archive" /\ Exists(Out[s])
  /\ content' = [content EXCEPT ![Artifact] =
                   [config |-> <<cfg.flags, cfg.target>>,
                    from |-> [f \in LibraryInputs |-> content[f]]]]
  /\ Exit
  /\ done' = TRUE
  /\ UNCHANGED <<project, newer, plan, wasmSkip, cacheFile>>

LinkLibraryFails ==
  /\ pc = "link"
  /\ Exit
  /\ UNCHANGED <<disk, done>>

\* The process is killed between two steps or in the middle of one.
Crash ==
  /\ project.crashes
  /\ pc # "idle"
  /\ Exit
  /\ UNCHANGED <<disk, done>>

\* Everything the process does by itself.
Work ==
  \/ Pass \/ Launch \/ Succeed \/ Retry \/ SkipStep \/ Fail
  \/ AllStepsDone \/ Truncate \/ Write \/ LinkLibrary \/ LinkLibraryFails

Next ==
  \/ \E f \in Source, v \in Version : Edit(f, v)
  \/ \E p \in project.plans : GenerateBuild(p)
  \/ \E c \in [flags : project.flags, target : Target, noCache : BOOLEAN] : Start(c)
  \/ Work
  \/ Crash

Spec == Init /\ [][Next]_vars
-----------------------------------------------------------------------------
(***************************************************************************)
(* What the build promises.                                                 *)
(***************************************************************************)
\* What a build from an empty directory makes of the sources as they are:
\* an output holds what all the steps that write it read.
Clean[f \in File] ==
  IF f \in Source THEN content[f]
  ELSE LET makers == {s \in Live \ skipped : Out[s] = f}
           reads(s) == {g \in Operands[s] : Clean[g] # Absent} \cup Headers[s]
       IN  IF makers = {} THEN Absent
           ELSE [config |-> Config(CHOOSE s \in makers : TRUE),
                 from |-> [g \in UNION {reads(s) : s \in makers} |-> Clean[g]]]

CleanLibraryInputs ==
  {f \in Outputs({s \in Live : Kind[s] = "archive" \/ s \in Injected}) :
     Clean[f] # Absent}

TypeOK ==
  /\ DOMAIN content = File \cup {Artifact}
  /\ \A f \in Source : content[f] \in Version
  /\ newer \subseteq UNION {Operands[s] \X {Out[s]} : s \in Step}
  /\ project \in Project /\ plan \in project.plans
  /\ wasmSkip \subseteq Step \ Injected
  /\ pc \in {"idle", "step", "tool", "save", "write", "link"}
  /\ cfg \in [flags : Flags, target : Target, noCache : BOOLEAN]
  /\ at \in 1..(Len(Schedule) + 1)
  /\ \A s \in Step : args[s] \subseteq Operands[s]
  /\ skipped \subseteq Step
  /\ DOMAIN entries \subseteq {Key(s) : s \in Step} \cup {<<p.ids, s>> : p \in project.plans, s \in Step}
  /\ tries \in 0..(project.retries - 1)
  /\ {ok, done} \subseteq BOOLEAN

\* An incremental build ends with what a build from nothing would produce:
\* every output, and the library's artifact, is made of the current sources,
\* flags and target and of nothing else.  (The object of a bridge step that
\* was built before and is skipped now is linked all the same.)
FreshArtifacts ==
  done =>
    /\ \A s \in Live \ skipped : content[Out[s]] = Clean[Out[s]]
    /\ Library /\ skipped \cap Injected = {} =>
         content[Artifact].from = [f \in CleanLibraryInputs |-> Clean[f]]

\* A build that follows a successful one with nothing changed runs no tool:
\* the cache on disk vouches for every step whose operands exist.
Settled ==
  done /\ skipped \subseteq wasmSkip =>
    LET ops == Scrub(Operands, wasmSkip)
    IN  \A s \in Live \ skipped :
          (\A f \in ops[s] : Exists(f))
             => IsCached(s, ops[s], LoadBuildCache(cfg.target))

\* The cache file tells the truth: an entry names the configuration and the
\* operands that the output on disk was really made with.
EntriesDescribeOutputs ==
  pc = "idle" /\ cacheFile \notin {Absent, Corrupt} =>
    \A s \in Step :
      Key(s) \in DOMAIN cacheFile.entries /\ Exists(Out[s]) =>
        LET e == cacheFile.entries[Key(s)]
        IN  /\ content[Out[s]].config = e[1]
            /\ DOMAIN content[Out[s]].from = e[2] \cup Headers[s]

\* What a running build has left to do, counted in steps.
Remaining ==
  LET perStep == project.retries + 1
      steps == (Len(Schedule) + 1 - at) * perStep
  IN  CASE pc = "step"  -> 3 + steps
        [] pc = "tool"  -> 3 + steps - (1 + tries)
        [] pc = "save"  -> 2
        [] pc = "write" -> 1
        [] pc = "link"  -> 0
        [] pc = "idle"  -> 0

\* A build ends, whatever the compilers report: no step of it leaves as much
\* to do as before, whether a header stub is tried, a source skipped, a step
\* passed over or failed.
BuildEnds == [][pc # "idle" => pc' = "idle" \/ Remaining' < Remaining]_vars
=============================================================================
