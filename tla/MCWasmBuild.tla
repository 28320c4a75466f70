----------------------------- MODULE MCWasmBuild -----------------------------
(***************************************************************************)
(* Instances of WasmBuild: two sources, two objects, an archive of both,    *)
(* and a program linked from the archive and an external library that has   *)
(* no wasm build; or a library of one object with an injected bridge.       *)
(***************************************************************************)
EXTENDS WasmBuild, TLC

CONSTANTS compileA, compileB, compileBridge, archive, archiveA, append, link,
          srcA, srcB, header, objA, objB, objBridge, lib, libA, libOther, prog, extLib

AllSteps == <<compileA, archive, archiveA, compileB, append, link, compileBridge>>
MCCaptured == SelectSeq(AllSteps, LAMBDA s : s \in Step)

OnSteps(f) == [s \in Step |-> f[s]]
MCKind == OnSteps(
  compileA :> "compile" @@ compileB :> "compile" @@ compileBridge :> "compile"
  @@ archive :> "archive" @@ archiveA :> "archive" @@ append :> "archive" @@ link :> "link")
MCOut == OnSteps(
  compileA :> objA @@ compileB :> objB @@ compileBridge :> objBridge
  @@ archive :> lib @@ archiveA :> libA @@ append :> lib @@ link :> prog)
MCOperands == OnSteps(
  compileA :> {srcA} @@ compileB :> {srcB} @@ compileBridge :> {srcB}
  @@ archive :> {objA, objB} @@ archiveA :> {objA} @@ append :> {objB} @@ link :> {lib, extLib})
MCNoHeaders == OnSteps([s \in Step |-> {}])
MCHeaders == OnSteps([s \in Step |-> IF Kind[s] = "compile" THEN {header} ELSE {}])
MCNone == {}

Plan(steps) == [steps |-> steps, ids |-> 1]
Program == {compileA, compileB, archive, link}

Defaults == [plans |-> {Plan(Program)}, bridge |-> {}, library |-> FALSE,
             flags |-> {CHOOSE f \in Flags : TRUE}, retries |-> 1, skips |-> FALSE, crashes |-> FALSE]

\* The flags change, and the program is a target of the captured build or not.
Reconfigured == [Defaults EXCEPT !.flags = Flags, !.plans = @ \cup {Plan(Program \ {link})}]
\* The user skips the sources that fail.
Skipping == [Defaults EXCEPT !.plans = {Plan(Program \ {link})}, !.skips = TRUE, !.retries = 2]
\* A library with a bridge, killed while it is built.
Killed == [Defaults EXCEPT !.plans = {Plan({compileA, archiveA})}, !.bridge = {compileBridge},
                           !.library = TRUE, !.crashes = TRUE]
MCProject == {Reconfigured, Skipping, Killed}
MCProgram == {Defaults}
MCVersions == Permutations(Version)

\* An archive built by two commands: the second appends objB.
MCAppendOperands == [MCOperands EXCEPT ![archive] = {objA}]
\* The sources are named relative to the upstream directory.
MCRelative == {<<compileA, srcA>>, <<compileB, srcB>>}
\* The archive's members are built in other work directories.
MCMoved == {<<archive, objA>>, <<archive, objB>>}
\* Each archive of a library in a file of its own.
MCOwnOut == [MCOut EXCEPT ![append] = libOther]
\* The upstream project drops the archive libOther from its build.
Dropping == [Killed EXCEPT !.plans = {Plan({compileA, archiveA, append}), Plan({compileA, archiveA})}]
\* The upstream project's build is captured anew and its steps renumbered.
Renumbered == [Defaults EXCEPT !.flags = Flags, !.plans = @ \cup {[steps |-> Program, ids |-> 2]}]
MCDropping == {Dropping}
MCRenumbered == {Renumbered}
=============================================================================
