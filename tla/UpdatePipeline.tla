---------------------------- MODULE UpdatePipeline ----------------------------
(***************************************************************************)
(* `wasmify update` (cmdUpdate in cmd/wasmify/main.go): it compares the     *)
(* commit recorded in wasmify.json with the upstream project's HEAD, runs   *)
(* the phases the changed files call for, and records the new commit.       *)
(*                                                                          *)
(* The phases run as commands of their own, and two of them record the      *)
(* commit themselves while the update holds the wasmify.json it loaded      *)
(* before.  A commit is what matters of its tree: a version of each kind of *)
(* file.  What a phase produces is the versions and products it read.       *)
(***************************************************************************)
EXTENDS Integers, Sequences, FiniteSets

CONSTANTS
  FileKind,     \* kinds of files the upstream project changes
  Version,      \* versions of a kind of file, or of the bridge section
  None,         \* no commit recorded; a product that does not exist
  Manual,       \* phases the user also runs by hand
  EditableAt,   \* values of pc at which the user may edit wasmify.json
  MayFail,      \* phases fail, and runs are interrupted
  MaxDisturbed, \* bound on what goes wrong, by `disturbed`
  Built         \* the project has been through all the phases

\* phaseOrder of cmdUpdate.
PhaseOrder ==
  <<"build", "generate-build", "parse-headers", "gen-proto", "wasm-build">>
Phase == {"build", "generate-build", "parse-headers", "gen-proto",
          "wasm-build"}

\* The first of some phases in phaseOrder.
First(phases) ==
  LET Position(p) == CHOOSE i \in 1..5 : PhaseOrder[i] = p
  IN  CHOOSE p \in phases : \A q \in phases : Position(p) <= Position(q)

\* Phases that end with updateState.
Recording == {"parse-headers", "gen-proto"}

ASSUME ConstantsAssumption ==
  /\ FileKind \subseteq {"header", "source", "bazel", "config", "other"}
  /\ "header" \in FileKind
  /\ None \notin Version \cup [FileKind -> Version]
  /\ Manual \subseteq Phase
  /\ EditableAt \subseteq {"idle", "phase", "record"}
  /\ MaxDisturbed \in Nat
  /\ {MayFail, Built} \subseteq BOOLEAN

Tree == [FileKind -> Version]

\* What a phase reads: files of the upstream project and earlier products.  A
\* wasmify.json among the upstream files ("config") is none of them: the phases
\* read the one in the output directory.
Files == [p \in Phase |->
  CASE p = "build"         -> {"bazel", "other"}
    [] p = "parse-headers" -> {"header"}
    [] p = "wasm-build"    -> {"source", "header"}
    [] OTHER               -> {}]
Needs == [p \in Phase |->
  CASE p = "build"          -> {}
    [] p = "generate-build" -> {"build"}
    [] p = "parse-headers"  -> {"generate-build"}
    [] p = "gen-proto"      -> {"parse-headers"}
    [] p = "wasm-build"     -> {"generate-build", "gen-proto"}]

VARIABLES
  head,       \* HEAD of the upstream project
  file,       \* wasmify.json: Upstream.Commit, Phases, what the user wrote in
              \* the Bridge section, and its ExportDependentLibraries
  product,    \* product[p]: what phase p has left on disk
  pc,         \* "idle", or in the middle of a command
  todo,       \* phases still to run
  updating,   \* the command is `update`, not a phase run by hand
  s,          \* the wasmify.json cmdUpdate has loaded
  current,    \* currentCommit
  fresh,      \* the last command was an update that succeeded on this HEAD
  torn,       \* the last parse-headers that wrote api-spec.json was cut off
              \* before it recorded its HEAD
  disturbed   \* how many times so far something else happened than an update
              \* that ran to its end, on trees that differ in files
              \* classifyChanges knows

vars == <<head, file, product, pc, todo, updating, s, current, fresh, torn,
          disturbed>>

\* The dependent libraries gen-proto exports: the ones wasmify.json lists, or
\* the ones it discovers in the headers parse-headers has seen.
Libraries(config, made) ==
  IF config.libs = None THEN made["parse-headers"].files["header"] ELSE config.libs

\* What phase p makes of tree t and wasmify.json config, given products.
Make(p, t, config, made) ==
  [files |-> [k \in Files[p] \cap FileKind |-> t[k]],
   bridge |-> IF p = "gen-proto" THEN <<config.bridge, Libraries(config, made)>>
                                 ELSE None,
   from |-> [q \in Needs[p] |-> made[q]]]

\* All the products of a tree, made one after the other from nothing.
AllOf(t, config) ==
  LET made[p \in Phase] == Make(p, t, config, [q \in Needs[p] |-> made[q]])
  IN  made

\* Mutant: headers do not call for gen-proto.
ClassifyHeadersOnly(changed) ==
  UNION {CASE k = "header" -> {"parse-headers", "wasm-build"}
           [] k = "source" -> {"wasm-build"}
           [] k = "bazel"  -> Phase
           [] k = "config" -> {"gen-proto", "wasm-build"}
           [] OTHER        -> {} : k \in changed}

\* classifyChanges.
Classify(changed) ==
  UNION {CASE k = "header" -> {"parse-headers", "gen-proto", "wasm-build"}
           [] k = "source" -> {"wasm-build"}
           [] k = "bazel"  -> Phase
           [] k = "config" -> {"gen-proto", "wasm-build"}
           [] OTHER        -> {} : k \in changed}

\* gitDiffFiles.
Diff(old, new) == {k \in FileKind : old[k] # new[k]}

\* The phases for a step from the recorded commit to the new one.
Needed(old, new) == IF old = None THEN {"parse-headers", "gen-proto"}
                                  ELSE Classify(Diff(old, new))
-----------------------------------------------------------------------------
Init ==
  /\ head \in Tree
  /\ \E b \in Version :
       file = [commit |-> IF Built THEN head ELSE None,
               phases |-> [p \in Recording |-> IF Built THEN head ELSE None],
               bridge |-> b, libs |-> None]
  /\ product = [p \in Phase |-> IF Built \/ p \in {"build", "generate-build"}
                                 THEN AllOf(head, file)[p] ELSE None]
  /\ pc = "idle"
  /\ todo = {}
  /\ updating = FALSE
  /\ s = file
  /\ current = None
  /\ fresh = FALSE
  /\ torn = FALSE
  /\ disturbed = 0

\* Something goes wrong, or at least not by `wasmify update` alone.
Disturb ==
  /\ disturbed < MaxDisturbed
  /\ disturbed' = disturbed + 1

\* The upstream project moves, between two commands, forth or back.
Pull(t) ==
  /\ pc = "idle"
  /\ t # head
  /\ head' = t
  /\ fresh' = FALSE
  /\ IF "other" \in Diff(head, t) THEN Disturb ELSE UNCHANGED disturbed
  /\ UNCHANGED <<file, product, pc, todo, updating, s, current, torn>>

\* The user edits the bridge section of wasmify.json.
EditConfig(b) ==
  /\ pc \in EditableAt
  /\ b # file.bridge
  /\ file' = [file EXCEPT !.bridge = b]
  /\ fresh' = FALSE
  /\ Disturb
  /\ UNCHANGED <<head, product, pc, todo, updating, s, current, torn>>

\* cmdUpdate when the recorded commit is HEAD.
UpToDate ==
  /\ pc = "idle"
  /\ file.commit = head
  /\ fresh' = TRUE
  /\ UNCHANGED <<head, file, product, pc, todo, updating, s, current, torn,
                 disturbed>>

\* cmdUpdate when no changed file calls for a phase.
NothingRelevant ==
  /\ pc = "idle"
  /\ file.commit # head
  /\ Needed(file.commit, head) = {}
  /\ file' = [file EXCEPT !.commit = head]
  /\ fresh' = TRUE
  /\ UNCHANGED <<head, product, pc, todo, updating, s, current, torn,
                 disturbed>>

\* cmdUpdate up to its loop over the phases.
Update ==
  /\ pc = "idle"
  /\ file.commit # head
  /\ Needed(file.commit, head) # {}
  /\ s' = file
  /\ current' = head
  /\ todo' = Needed(file.commit, head)
  /\ updating' = TRUE
  /\ pc' = "phase"
  /\ fresh' = FALSE
  /\ UNCHANGED <<head, file, product, torn, disturbed>>

\* The user runs one phase.
RunByHand(p) ==
  /\ pc = "idle"
  /\ todo' = {p}
  /\ updating' = FALSE
  /\ pc' = "phase"
  /\ fresh' = FALSE
  /\ Disturb
  /\ UNCHANGED <<head, file, product, s, current, torn>>

\* A phase does its work on wasmify.json as it is now; gen-proto writes the
\* libraries it has discovered into it.
Work(p) ==
  /\ \A q \in Needs[p] : product[q] # None
  /\ product' = [product EXCEPT ![p] = Make(p, head, file, product)]
  /\ file' = IF p = "gen-proto"
             THEN [file EXCEPT !.libs = Libraries(file, product)] ELSE file

\* The next phase does its work, if the products it reads exist.
RunPhase ==
  /\ pc = "phase"
  /\ todo # {}
  /\ Work(First(todo))
  /\ IF First(todo) \in Recording THEN pc' = "record" /\ UNCHANGED todo
                                 ELSE todo' = todo \ {First(todo)} /\ UNCHANGED pc
  /\ UNCHANGED <<head, updating, s, current, fresh, torn, disturbed>>

\* Mutant: HEAD is recorded before the phase has run.
RecordEarly ==
  /\ pc \in {"phase", "record"}
  /\ todo # {} /\ First(todo) \in Recording
  /\ file' = [file EXCEPT !.commit = head, !.phases[First(todo)] = head]
  /\ IF pc = "record" THEN pc' = "phase" /\ todo' = todo \ {First(todo)}
                      ELSE UNCHANGED <<pc, todo>>
  /\ torn' = (torn /\ First(todo) # "parse-headers")
  /\ UNCHANGED <<head, product, updating, s, current, fresh, disturbed>>

\* Mutant: updateState starts from state.New every time.
RecordInNewState ==
  /\ pc = "record"
  /\ file' = [commit |-> head,
              phases |-> [p \in Recording |-> IF p = First(todo) THEN head ELSE None],
              bridge |-> CHOOSE b \in Version : TRUE, libs |-> None]
  /\ pc' = "phase"
  /\ todo' = todo \ {First(todo)}
  /\ torn' = (torn /\ First(todo) # "parse-headers")
  /\ UNCHANGED <<head, product, updating, s, current, fresh, disturbed>>

\* updateState: load, UpdateUpstream, CompletePhase, save.
Record ==
  /\ pc = "record"
  /\ file' = [file EXCEPT !.commit = head, !.phases[First(todo)] = head]
  /\ pc' = "phase"
  /\ todo' = todo \ {First(todo)}
  /\ torn' = (torn /\ First(todo) # "parse-headers")
  /\ UNCHANGED <<head, product, updating, s, current, fresh, disturbed>>

\* The command is over; its memory is gone.
Exit == /\ pc' = "idle"
        /\ todo' = {}
        /\ updating' = FALSE
        /\ s' = file'
        /\ current' = None

\* The end of cmdUpdate, or of a phase run by hand.
Finish ==
  /\ pc = "phase" /\ todo = {}
  /\ file' = IF updating THEN [s EXCEPT !.commit = current] ELSE file
  /\ fresh' = updating
  /\ Exit
  /\ UNCHANGED <<head, product, torn, disturbed>>

\* A phase returns an error, or the process is interrupted, maybe between the
\* two files that parse-headers writes, api-spec.json and wasmify.json.
Abort ==
  /\ pc # "idle"
  /\ MayFail \/ (pc = "phase" /\ todo # {}
                   /\ \E q \in Needs[First(todo)] : product[q] = None)
  /\ Disturb
  /\ torn' = (torn \/ (pc = "record" /\ First(todo) = "parse-headers"))
  /\ UNCHANGED <<head, file, product, fresh>>
  /\ Exit

Next ==
  \/ \E t \in Tree : Pull(t)
  \/ \E b \in Version : EditConfig(b)
  \/ UpToDate \/ NothingRelevant \/ Update
  \/ \E p \in Manual : RunByHand(p)
  \/ RunPhase \/ Record \/ Finish \/ Abort

Spec == Init /\ [][Next]_vars
-----------------------------------------------------------------------------
Commit == Tree \cup {None}

WasmifyJson == [commit : Commit, phases : [Recording -> Commit],
                bridge : Version, libs : Version \cup {None}]

TypeOK ==
  /\ head \in Tree
  /\ file \in WasmifyJson /\ s \in WasmifyJson
  /\ DOMAIN product = Phase
  /\ pc \in {"idle", "phase", "record"}
  /\ pc = "record" => todo # {} /\ First(todo) \in Recording
  /\ todo \subseteq Phase
  /\ current \in Commit
  /\ disturbed \in 0 .. MaxDisturbed
  /\ {updating, fresh, torn} \subseteq BOOLEAN

\* When `wasmify update` has succeeded, or says that the project is up to
\* date, every product is what all the phases would make of HEAD.
UpdatedIsFresh == fresh => product = AllOf(head, file)

\* So it is as long as nothing has failed, been run by hand or edited.
UndisturbedIsFresh == disturbed = 0 => UpdatedIsFresh

\* api-spec.json was made from the headers of the commit in wasmify.json, so
\* that `wasmify update` may skip parse-headers when HEAD has the same headers,
\* be it a commit the project has been at before: updateState comes last in a
\* phase.  Only a parse-headers cut off between its two files breaks this, and
\* the next one that is not repairs it.
SpecMatchesRecord ==
  pc = "idle" /\ file.commit # None /\ ~torn =>
    product["parse-headers"].files = [k \in {"header"} |-> file.commit[k]]

\* Only the user changes the bridge section of wasmify.json.
UserEditsKept ==
  [][file'.bridge # file.bridge => \E b \in Version : EditConfig(b)]_vars
=============================================================================
