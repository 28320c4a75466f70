------------------------ MODULE UpdatePipeline_proofs ------------------------
(***************************************************************************)
(* UpdatePipeline for any kinds of files, any number of versions and any    *)
(* number of failures.  The inductive invariant says what holds between two *)
(* steps of an interrupted update: the headers of the recorded commit have  *)
(* been parsed last, unless parse-headers is about to record those of HEAD  *)
(* or has been cut off there.                                               *)
(***************************************************************************)
EXTENDS UpdatePipeline, TLAPS

\* parse-headers has last seen the headers of tree t.
Parsed(t) == product["parse-headers"].files = [k \in {"header"} |-> t["header"]]

\* The fields of wasmify.json that the model has.
Fields(f) == f = [commit |-> f.commit, phases |-> f.phases,
                  bridge |-> f.bridge, libs |-> f.libs]

Json(f) == Fields(f) /\ f.commit \in Commit

Types ==
  /\ head \in Tree
  /\ Json(file) /\ Json(s)
  /\ product = [p \in Phase |-> product[p]]
  /\ pc \in {"idle", "phase", "record"}
  /\ todo \subseteq Phase
  /\ updating \in BOOLEAN
  /\ current \in Commit
  /\ torn \in BOOLEAN
  /\ disturbed \in Nat

\* parse-headers has done its work and not recorded it yet.
Unrecorded == pc = "record" /\ First(todo) = "parse-headers"

Recorded == file.commit # None => torn \/ Unrecorded \/ Parsed(file.commit)

Running ==
  /\ pc = "idle" => ~updating
  /\ pc # "idle" /\ updating =>
       /\ current = head
       /\ torn \/ "parse-headers" \in todo \/ Parsed(head)
  /\ pc # "idle" /\ ~updating => todo \subseteq Manual
  /\ pc = "record" =>
       /\ todo # {} /\ First(todo) \in Recording
       /\ Parsed(head) \/ (torn /\ First(todo) # "parse-headers")

IInv == Types /\ Recorded /\ Running

-----------------------------------------------------------------------------
\* What Make leaves does not depend on products its phase does not read.
LEMMA MakeFiles ==
  ASSUME NEW t, NEW config, NEW made
  PROVE  Make("parse-headers", t, config, made).files
           = [k \in {"header"} |-> t[k]]
<1>1. Files["parse-headers"] \cap FileKind = {"header"}
  BY ConstantsAssumption DEF Files, Phase
<1> QED BY <1>1 DEF Make

\* The products of a tree exist: the phases read one another in no circle.
LEMMA AllOfExists ==
  ASSUME NEW t, NEW config
  PROVE  \E m : m = [p \in Phase |-> Make(p, t, config, [q \in Needs[p] |-> m[q]])]
<1> DEFINE Step(m) == [p \in Phase |-> Make(p, t, config, [q \in Needs[p] |-> m[q]])]
           m1 == Step([p \in Phase |-> None])
           m2 == Step(m1)
           m3 == Step(m2)
           m4 == Step(m3)
           m5 == Step(m4)
<1>1. ASSUME NEW m, NEW n, NEW p \in Phase, \A q \in Needs[p] : m[q] = n[q]
      PROVE  Step(m)[p] = Step(n)[p]
  <2>1. [q \in Needs[p] |-> m[q]] = [q \in Needs[p] |-> n[q]]
    BY <1>1
  <2> QED BY <2>1
<1>2. /\ Needs["build"] = {}
      /\ Needs["generate-build"] = {"build"}
      /\ Needs["parse-headers"] = {"generate-build"}
      /\ Needs["gen-proto"] = {"parse-headers"}
      /\ Needs["wasm-build"] = {"generate-build", "gen-proto"}
  BY DEF Needs, Phase
<1> HIDE DEF Step
<1>3. m2["build"] = m1["build"]
  BY <1>1, <1>2 DEF Phase
<1>4. m3["build"] = m2["build"] /\ m3["generate-build"] = m2["generate-build"]
  BY <1>1, <1>2, <1>3 DEF Phase
<1>5. /\ m4["build"] = m3["build"] /\ m4["generate-build"] = m3["generate-build"]
      /\ m4["parse-headers"] = m3["parse-headers"]
  BY <1>1, <1>2, <1>4 DEF Phase
<1>6. /\ m5["build"] = m4["build"] /\ m5["generate-build"] = m4["generate-build"]
      /\ m5["parse-headers"] = m4["parse-headers"]
      /\ m5["gen-proto"] = m4["gen-proto"]
  BY <1>1, <1>2, <1>5 DEF Phase
<1>7. \A p \in Phase : Step(m5)[p] = m5[p]
  BY <1>1, <1>2, <1>6 DEF Phase
<1>8. Step(m5) = m5
  BY <1>7 DEF Step
<1> QED BY <1>8 DEF Step

\* What all the phases make of a tree holds its headers.
LEMMA AllOfParsed ==
  ASSUME NEW t, NEW config
  PROVE  AllOf(t, config)["parse-headers"].files = [k \in {"header"} |-> t[k]]
<1> DEFINE M == CHOOSE m : m = [p \in Phase |-> Make(p, t, config, [q \in Needs[p] |-> m[q]])]
<1>1. M = [p \in Phase |-> Make(p, t, config, [q \in Needs[p] |-> M[q]])]
  BY AllOfExists
<1>2. AllOf(t, config) = M
  BY DEF AllOf
<1> HIDE DEF M
<1>3. M["parse-headers"]
        = Make("parse-headers", t, config, [q \in Needs["parse-headers"] |-> M[q]])
  BY <1>1 DEF Phase
<1> QED BY <1>2, <1>3, MakeFiles

\* The first of some phases is one of them, and gen-proto only when the
\* headers need not be parsed any more.
LEMMA FirstPhase ==
  ASSUME NEW S \in SUBSET Phase, S # {}
  PROVE  /\ First(S) \in S
         /\ LET Position(p) == CHOOSE i \in 1..5 : PhaseOrder[i] = p
            IN  \A q \in S : Position(First(S)) <= Position(q)
         /\ First(S) = "gen-proto" => "parse-headers" \notin S
<1> DEFINE Position(p) == CHOOSE i \in 1..5 : PhaseOrder[i] = p
<1>1. /\ Position("build") = 1 /\ Position("generate-build") = 2
      /\ Position("parse-headers") = 3 /\ Position("gen-proto") = 4
      /\ Position("wasm-build") = 5
  BY DEF PhaseOrder
<1> HIDE DEF Position
<1>2. \E p \in S : \A q \in S : Position(p) <= Position(q)
  <2> DEFINE Least(p) == p \in S /\ \A q \in S : Position(p) <= Position(q)
  <2>1. CASE "build" \in S
    <3>1. Least("build")
      BY <2>1, <1>1 DEF Phase
    <3> QED BY <3>1
  <2>2. CASE "build" \notin S /\ "generate-build" \in S
    <3>1. Least("generate-build")
      BY <2>2, <1>1 DEF Phase
    <3> QED BY <3>1
  <2>3. CASE {"build", "generate-build"} \cap S = {} /\ "parse-headers" \in S
    <3>1. Least("parse-headers")
      BY <2>3, <1>1 DEF Phase
    <3> QED BY <3>1
  <2>4. CASE /\ {"build", "generate-build", "parse-headers"} \cap S = {}
             /\ "gen-proto" \in S
    <3>1. Least("gen-proto")
      BY <2>4, <1>1 DEF Phase
    <3> QED BY <3>1
  <2>5. CASE S = {"wasm-build"}
    <3>1. Least("wasm-build")
      BY <2>5, <1>1
    <3> QED BY <3>1
  <2> QED BY <2>1, <2>2, <2>3, <2>4, <2>5 DEF Phase
<1>3. First(S) \in S /\ \A q \in S : Position(First(S)) <= Position(q)
  BY <1>2 DEF First, Position
<1>4. First(S) = "gen-proto" => "parse-headers" \notin S
  BY <1>1, <1>3
<1> QED BY <1>3, <1>4 DEF Position

-----------------------------------------------------------------------------
\* The inductive invariant holds initially.
LEMMA InitIInv == Init => IInv
<1> SUFFICES ASSUME Init PROVE IInv
  OBVIOUS
<1>1. Json(file)
  BY ConstantsAssumption DEF Init, Json, Fields, Commit, Tree
<1>2. product = [p \in Phase |-> product[p]]
  BY DEF Init
<1>3. Types
  BY <1>1, <1>2 DEF Init, Types, Commit
<1>4. Recorded
  <2>1. CASE Built
    <3>1. product["parse-headers"] = AllOf(head, file)["parse-headers"]
      BY <2>1 DEF Init, Phase
    <3>2. file.commit = head
      BY <2>1 DEF Init
    <3> QED BY <3>1, <3>2, AllOfParsed DEF Recorded, Parsed
  <2>2. CASE ~Built
    BY <2>2 DEF Init, Recorded
  <2> QED BY <2>1, <2>2
<1>5. Running
  BY DEF Init, Running
<1> QED BY <1>3, <1>4, <1>5 DEF IInv

\* A commit recorded is a tree; its difference from HEAD calls for
\* parse-headers when it touches the headers.
LEMMA Differing ==
  ASSUME IInv, file.commit # None
  PROVE  /\ file.commit \in Tree
         /\ head["header"] # file.commit["header"]
              => "parse-headers" \in Needed(file.commit, head)
<1>1. file.commit \in Tree
  BY DEF IInv, Types, Json, Fields, Commit
<1>2. CASE head["header"] # file.commit["header"]
  <2>1. "header" \in Diff(file.commit, head)
    BY <1>2, ConstantsAssumption DEF Diff
  <2>2. "parse-headers" \in Classify(Diff(file.commit, head))
    BY <2>1 DEF Classify
  <2> QED BY <1>1, <2>2 DEF Needed
<1> QED BY <1>1, <1>2

\* Work on a phase leaves what the invariant says of wasmify.json, and the
\* headers of HEAD parsed if they were or if the phase is parse-headers.
LEMMA WorkDone ==
  ASSUME Types, UNCHANGED head, NEW p \in Phase, Work(p)
  PROVE  /\ Json(file)' /\ file'.commit = file.commit
         /\ file'.bridge = file.bridge
         /\ product' = [q \in Phase |-> product'[q]]
         /\ p = "parse-headers" => Parsed(head)'
         /\ p # "parse-headers" =>
              product'["parse-headers"] = product["parse-headers"]
<1> USE DEF Types
<1>1. /\ Json(file)' /\ file'.commit = file.commit
      /\ file'.bridge = file.bridge
  BY DEF Work, Json, Fields
<1>2. /\ product' = [q \in Phase |-> product'[q]]
      /\ p # "parse-headers" =>
           product'["parse-headers"] = product["parse-headers"]
  BY DEF Work, Phase
<1>3. p = "parse-headers" => Parsed(head)'
  BY MakeFiles DEF Work, Parsed
<1> QED BY <1>1, <1>2, <1>3

\* Every step keeps the types.
LEMMA TypesStep == ASSUME Types, [Next]_vars PROVE Types'
<1> USE DEF Types, Json, Fields
<1>1. CASE UNCHANGED vars
  BY <1>1 DEF vars
<1>2. ASSUME NEW t \in Tree, Pull(t) PROVE Types'
  BY <1>2 DEF Pull, Disturb
<1>3. ASSUME NEW b \in Version, EditConfig(b) PROVE Types'
  BY <1>3 DEF EditConfig, Disturb
<1>4. CASE UpToDate
  BY <1>4 DEF UpToDate
<1>5. CASE NothingRelevant
  BY <1>5 DEF NothingRelevant, Commit
<1>6. CASE Update
  <2>1. Needed(file.commit, head) \subseteq Phase
    BY DEF Needed, Classify, Phase
  <2> QED BY <1>6, <2>1 DEF Update, Commit
<1>7. ASSUME NEW p \in Manual, RunByHand(p) PROVE Types'
  <2>1. disturbed' \in Nat
    BY <1>7 DEF RunByHand, Disturb
  <2>2. UNCHANGED <<head, file, s, product, current, torn>> /\ todo' \subseteq Phase
    BY <1>7, ConstantsAssumption DEF RunByHand
  <2>3. pc' = "phase" /\ updating' = FALSE
    BY <1>7 DEF RunByHand
  <2> QED BY <2>1, <2>2, <2>3
<1>8. CASE RunPhase
  <2>1. First(todo) \in Phase /\ Work(First(todo)) /\ UNCHANGED head
    BY <1>8, FirstPhase DEF RunPhase
  <2>2. Json(file)' /\ product' = [q \in Phase |-> product'[q]]
    BY <2>1, WorkDone
  <2> QED BY <1>8, <2>2 DEF RunPhase
<1>9. CASE Record
  BY <1>9 DEF Record, Commit
<1>10. CASE Finish
  BY <1>10 DEF Finish, Exit, Commit
<1>11. CASE Abort
  <2>1. disturbed' \in Nat
    BY <1>11 DEF Abort, Disturb
  <2>2. UNCHANGED <<head, file, product>> /\ s' = file /\ todo' = {}
    BY <1>11 DEF Abort, Exit
  <2>3. pc' = "idle" /\ updating' = FALSE /\ current' = None /\ torn' \in BOOLEAN
    BY <1>11 DEF Abort, Exit
  <2> QED BY <2>1, <2>2, <2>3 DEF Commit
<1> QED
  BY <1>1, <1>2, <1>3, <1>4, <1>5, <1>6, <1>7, <1>8, <1>9, <1>10, <1>11
  DEF Next

\* Every step keeps the invariant, if gen-proto is not run by hand.
LEMMA InvariantStep ==
  ASSUME "gen-proto" \notin Manual, IInv, [Next]_vars PROVE IInv'
<1> USE DEF IInv
<1> Types'
  BY TypesStep
<1>1. CASE UNCHANGED vars
  BY <1>1 DEF vars, Types, Json, Fields, Recorded, Unrecorded, Running, Parsed
<1>2. ASSUME NEW t \in Tree, Pull(t) PROVE IInv'
  <2>1. Recorded'
    BY <1>2 DEF Pull, Recorded, Unrecorded, Parsed
  <2>2. Running'
    BY <1>2 DEF Pull, Running
  <2> QED BY <2>1, <2>2
<1>3. ASSUME NEW b \in Version, EditConfig(b) PROVE IInv'
  <2>1. file'.commit = file.commit
    BY <1>3 DEF EditConfig, Types, Json, Fields
  <2>2. Recorded'
    BY <1>3, <2>1 DEF EditConfig, Recorded, Unrecorded, Parsed
  <2>3. Running'
    BY <1>3 DEF EditConfig, Running, Parsed
  <2> QED BY <2>1, <2>2, <2>3
<1>4. CASE UpToDate
  BY <1>4 DEF UpToDate, Types, Json, Fields, Recorded, Unrecorded, Running, Parsed
<1>5. CASE NothingRelevant
  <2>1. file.commit # None
    BY <1>5 DEF NothingRelevant, Needed
  <2>2. head["header"] = file.commit["header"]
    BY <1>5, <2>1, Differing DEF NothingRelevant
  <2>3. torn \/ Parsed(head)
    BY <1>5, <2>1, <2>2 DEF NothingRelevant, Recorded, Unrecorded, Parsed
  <2>4. file'.commit = head
    BY <1>5 DEF NothingRelevant, Types, Json, Fields
  <2>5. Recorded'
    BY <1>5, <2>3, <2>4 DEF NothingRelevant, Recorded, Unrecorded, Parsed
  <2>6. Running'
    BY <1>5 DEF NothingRelevant, Running
  <2> QED BY <2>4, <2>5, <2>6
<1>6. CASE Update
  <2>1. torn \/ "parse-headers" \in Needed(file.commit, head) \/ Parsed(head)
    <3>1. CASE file.commit = None
      BY <3>1 DEF Needed
    <3>2. CASE file.commit # None
      BY <1>6, <3>2, Differing DEF Update, Recorded, Unrecorded, Parsed
    <3> QED BY <3>1, <3>2
  <2>2. Recorded'
    BY <1>6 DEF Update, Recorded, Unrecorded, Parsed
  <2>3. Running'
    BY <1>6, <2>1 DEF Update, Running, Parsed
  <2> QED BY <2>2, <2>3
<1>7. ASSUME NEW p \in Manual, RunByHand(p) PROVE IInv'
  <2>1. Recorded'
    BY <1>7 DEF RunByHand, Recorded, Unrecorded, Parsed
  <2>2. Running'
    BY <1>7 DEF RunByHand, Running
  <2> QED BY <2>1, <2>2
<1>8. CASE RunPhase
  <2> DEFINE p == First(todo)
  <2>1. /\ p \in todo /\ p \in Phase
        /\ p = "gen-proto" => "parse-headers" \notin todo
    BY <1>8, FirstPhase DEF RunPhase, Types
  <2>2. Work(p) /\ UNCHANGED head
    BY <1>8 DEF RunPhase
  <2>3. /\ file'.commit = file.commit
        /\ p = "parse-headers" => Parsed(head)'
        /\ p # "parse-headers" =>
             product'["parse-headers"] = product["parse-headers"]
    BY <2>1, <2>2, WorkDone
  <2> HIDE DEF p
  <2>4. UNCHANGED <<torn, updating, current>>
    BY <1>8 DEF RunPhase
  <2>5. Recorded'
    <3>1. CASE p = "parse-headers"
      <4>1. Unrecorded'
        BY <1>8, <3>1 DEF RunPhase, Unrecorded, Recording, p
      <4> QED BY <4>1 DEF Recorded
    <3>2. CASE p # "parse-headers"
      BY <1>8, <3>2, <2>3, <2>4 DEF RunPhase, Recorded, Unrecorded, Parsed
    <3> QED BY <3>1, <3>2
  <2>6. p \in Recording => Parsed(head)' \/ (torn' /\ p # "parse-headers")
    <3>1. CASE p = "parse-headers"
      BY <3>1, <2>3
    <3>2. CASE p = "gen-proto"
      <4>1. torn \/ Parsed(head)
        BY <1>8, <3>2, <2>1 DEF RunPhase, Running, Types
      <4> QED BY <4>1, <3>2, <2>2, <2>3, <2>4 DEF Parsed
    <3> QED BY <3>1, <3>2 DEF Recording
  <2>7. torn' \/ "parse-headers" \in todo' \/ Parsed(head)' \/ ~updating
    BY <1>8, <2>1, <2>2, <2>3, <2>4 DEF RunPhase, Running, Parsed, p
  <2>8. Running'
    BY <1>8, <2>6, <2>7 DEF RunPhase, Running, p
  <2> QED BY <2>5, <2>8
<1>9. CASE Record
  <2>1. file'.commit = head
    BY <1>9 DEF Record, Types, Json, Fields
  <2>2. Recorded'
    BY <1>9, <2>1 DEF Record, Recorded, Running, Parsed
  <2>3. Running'
    BY <1>9 DEF Record, Running, Parsed
  <2> QED BY <2>1, <2>2, <2>3
<1>10. CASE Finish
  <2>1. CASE updating
    <3>1. (torn \/ Parsed(head)) /\ current = head
      BY <1>10, <2>1 DEF Finish, Running
    <3>2. file'.commit = head
      BY <1>10, <2>1, <3>1 DEF Finish, Types, Json, Fields
    <3>3. Recorded'
      BY <1>10, <3>1, <3>2 DEF Finish, Recorded, Unrecorded, Parsed
    <3> QED BY <1>10, <3>2, <3>3 DEF Finish, Exit, Running
  <2>2. CASE ~updating
    <3>1. Recorded'
      BY <1>10, <2>2 DEF Finish, Exit, Recorded, Unrecorded, Parsed
    <3> QED BY <1>10, <3>1 DEF Finish, Exit, Running
  <2> QED BY <2>1, <2>2 DEF Types
<1>11. CASE Abort
  <2>1. Recorded'
    BY <1>11 DEF Abort, Exit, Recorded, Unrecorded, Parsed
  <2>2. Running'
    BY <1>11 DEF Abort, Exit, Running
  <2> QED BY <2>1, <2>2
<1> QED
  BY <1>1, <1>2, <1>3, <1>4, <1>5, <1>6, <1>7, <1>8, <1>9, <1>10, <1>11
  DEF Next

-----------------------------------------------------------------------------
LEMMA InductiveInvariant ==
  ASSUME "gen-proto" \notin Manual PROVE Spec => []IInv
<1>1. IInv /\ [Next]_vars => IInv'
  BY InvariantStep
<1> QED BY InitIInv, <1>1, PTL DEF Spec

\* However HEAD moves, forth or back, and whatever else fails or is interrupted:
\* api-spec.json was made from the headers of the commit in wasmify.json
\* (updateState comes last in cmdParseHeaders), unless the last parse-headers
\* that wrote it was cut off between the two files.  gen-proto run by hand would
\* record a HEAD that parse-headers has not seen.
THEOREM RecordedHeadIsParsed ==
  ASSUME "gen-proto" \notin Manual PROVE Spec => []SpecMatchesRecord
<1>1. IInv => SpecMatchesRecord
  <2> SUFFICES ASSUME IInv, pc = "idle", file.commit # None, ~torn
               PROVE  Parsed(file.commit)
    BY DEF SpecMatchesRecord, Parsed
  <2> QED BY DEF IInv, Recorded, Unrecorded
<1>2. Spec => []IInv
  BY InductiveInvariant
<1> QED BY <1>1, <1>2, PTL

\* While `wasmify update` runs, the wasmify.json it has loaded holds the
\* bridge section of the file, which the user edits between commands only.
BridgeHeld ==
  /\ Fields(file) /\ Fields(s)
  /\ pc = "idle" => ~updating
  /\ updating => s.bridge = file.bridge

\* No command touches the user's bridge section: not the phases, each of which
\* loads and saves wasmify.json, nor the end of the update, which saves what it
\* loaded before them.
THEOREM EditsAreKept ==
  ASSUME EditableAt \subseteq {"idle"} PROVE Spec => UserEditsKept
<1>1. Init => BridgeHeld
  BY InitIInv DEF Init, IInv, Types, Json, BridgeHeld
<1>2. ASSUME BridgeHeld, [Next]_vars
      PROVE  /\ BridgeHeld'
             /\ file'.bridge # file.bridge => \E b \in Version : EditConfig(b)
  <2>1. CASE UNCHANGED vars
    BY <1>2, <2>1 DEF vars, BridgeHeld, Fields
  <2>2. ASSUME NEW t \in Tree, Pull(t)
        PROVE  BridgeHeld' /\ file'.bridge = file.bridge
    BY <1>2, <2>2 DEF Pull, BridgeHeld, Fields
  <2>3. ASSUME NEW b \in Version, EditConfig(b) PROVE BridgeHeld'
    BY <1>2, <2>3 DEF EditConfig, BridgeHeld, Fields
  <2>4. CASE UpToDate
    BY <1>2, <2>4 DEF UpToDate, BridgeHeld, Fields
  <2>5. CASE NothingRelevant
    BY <1>2, <2>5 DEF NothingRelevant, BridgeHeld, Fields
  <2>6. CASE Update
    BY <1>2, <2>6 DEF Update, BridgeHeld, Fields
  <2>7. ASSUME NEW p \in Manual, RunByHand(p)
        PROVE  BridgeHeld' /\ file'.bridge = file.bridge
    BY <1>2, <2>7 DEF RunByHand, BridgeHeld, Fields
  <2>8. CASE RunPhase
    BY <1>2, <2>8 DEF RunPhase, Work, BridgeHeld, Fields
  <2>9. CASE Record
    BY <1>2, <2>9 DEF Record, BridgeHeld, Fields
  <2>10. CASE Finish
    BY <1>2, <2>10 DEF Finish, Exit, BridgeHeld, Fields
  <2>11. CASE Abort
    BY <1>2, <2>11 DEF Abort, Exit, BridgeHeld, Fields
  <2> QED
    BY <1>2, <2>1, <2>2, <2>3, <2>4, <2>5, <2>6, <2>7, <2>8, <2>9, <2>10,
       <2>11 DEF Next
<1> QED BY <1>1, <1>2, PTL DEF Spec, UserEditsKept

-----------------------------------------------------------------------------
(***************************************************************************)
(* As long as nothing is disturbed, an update leaves what all the phases    *)
(* would make from nothing: the phases that are not called for would make   *)
(* what they have left.                                                     *)
(***************************************************************************)
\* The libraries gen-proto exports for tree t.
LibrariesOf(config, t) == IF config.libs = None THEN t["header"] ELSE config.libs

\* Phases that read only products of phases among them.
Closed(S) == \A p \in S : Needs[p] \subseteq S

\* The phases S read the same files and configuration.
SameInputs(S, t, c, u, d) ==
  /\ \A p \in S : \A k \in Files[p] \cap FileKind : t[k] = u[k]
  /\ "gen-proto" \in S => /\ c.bridge = d.bridge
                          /\ LibrariesOf(c, t) = LibrariesOf(d, u)

\* What phase p makes depends on its inputs only.
LEMMA MakeAgrees ==
  ASSUME NEW p \in Phase, NEW t, NEW c, NEW m, NEW u, NEW d, NEW n,
         \A k \in Files[p] \cap FileKind : t[k] = u[k],
         \A q \in Needs[p] : m[q] = n[q],
         p = "gen-proto" => /\ c.bridge = d.bridge
                            /\ Libraries(c, m) = Libraries(d, n)
  PROVE  Make(p, t, c, m) = Make(p, u, d, n)
<1>1. [k \in Files[p] \cap FileKind |-> t[k]]
        = [k \in Files[p] \cap FileKind |-> u[k]]
  OBVIOUS
<1>2. [q \in Needs[p] |-> m[q]] = [q \in Needs[p] |-> n[q]]
  OBVIOUS
<1> QED BY <1>1, <1>2 DEF Make

\* The recursive definition of AllOf, unfolded once.
LEMMA AllOfUnfolds ==
  ASSUME NEW t, NEW c
  PROVE  AllOf(t, c) = [p \in Phase |-> Make(p, t, c, [q \in Needs[p] |->
                                                        AllOf(t, c)[q]])]
<1> DEFINE M == CHOOSE m : m = [p \in Phase |-> Make(p, t, c, [q \in Needs[p] |-> m[q]])]
<1>1. M = [p \in Phase |-> Make(p, t, c, [q \in Needs[p] |-> M[q]])]
  BY AllOfExists
<1>2. AllOf(t, c) = M
  BY DEF AllOf
<1> QED BY <1>1, <1>2

\* The libraries of a tree from nothing.
LEMMA LibrariesFromNothing ==
  ASSUME NEW t, NEW c, NEW m, m["parse-headers"] = AllOf(t, c)["parse-headers"]
  PROVE  \A d : Libraries(d, m) = LibrariesOf(d, t)
<1>1. m["parse-headers"].files["header"] = t["header"]
  <2>1. m["parse-headers"].files = [k \in {"header"} |-> t[k]]
    BY AllOfParsed
  <2> QED BY <2>1
<1> QED BY <1>1 DEF Libraries, LibrariesOf

\* Phases that read one another only, and the same inputs, make the same.
LEMMA AllOfAgrees ==
  ASSUME NEW S \in SUBSET Phase, Closed(S), NEW t, NEW c, NEW u, NEW d,
         SameInputs(S, t, c, u, d)
  PROVE  \A p \in S : AllOf(t, c)[p] = AllOf(u, d)[p]
<1> DEFINE A == AllOf(t, c)
           B == AllOf(u, d)
<1>1. ASSUME NEW p \in S, \A q \in Needs[p] : A[q] = B[q] PROVE A[p] = B[p]
  <2> DEFINE m == [q \in Needs[p] |-> A[q]]
             n == [q \in Needs[p] |-> B[q]]
  <2>1. A[p] = Make(p, t, c, m) /\ B[p] = Make(p, u, d, n)
    BY AllOfUnfolds
  <2>2. \A q \in Needs[p] : m[q] = n[q]
    BY <1>1
  <2>3. p = "gen-proto" => Libraries(c, m) = Libraries(d, n)
    <3> SUFFICES ASSUME p = "gen-proto" PROVE Libraries(c, m) = Libraries(d, n)
      OBVIOUS
    <3>1. "parse-headers" \in Needs[p]
      BY DEF Needs, Phase
    <3>2. /\ m["parse-headers"] = A["parse-headers"]
          /\ n["parse-headers"] = B["parse-headers"]
      BY <3>1
    <3> HIDE DEF m, n
    <3>3. Libraries(c, m) = LibrariesOf(c, t) /\ Libraries(d, n) = LibrariesOf(d, u)
      BY <3>2, LibrariesFromNothing
    <3> QED BY <3>3 DEF SameInputs
  <2> HIDE DEF A, B, m, n
  <2>4. Make(p, t, c, m) = Make(p, u, d, n)
    BY <2>2, <2>3, MakeAgrees DEF SameInputs
  <2> QED BY <2>1, <2>4
<1> HIDE DEF A, B
<1>2. "build" \in S => A["build"] = B["build"]
  BY <1>1 DEF Needs, Phase
<1>3. "generate-build" \in S => A["generate-build"] = B["generate-build"]
  BY <1>1, <1>2 DEF Closed, Needs, Phase
<1>4. "parse-headers" \in S => A["parse-headers"] = B["parse-headers"]
  BY <1>1, <1>3 DEF Closed, Needs, Phase
<1>5. "gen-proto" \in S => A["gen-proto"] = B["gen-proto"]
  BY <1>1, <1>4 DEF Closed, Needs, Phase
<1>6. "wasm-build" \in S => A["wasm-build"] = B["wasm-build"]
  BY <1>1, <1>3, <1>5 DEF Closed, Needs, Phase
<1>7. \A p \in S : A[p] = B[p]
  BY <1>2, <1>3, <1>4, <1>5, <1>6 DEF Phase
<1> QED BY <1>7 DEF A, B

-----------------------------------------------------------------------------
\* What holds while nothing is disturbed.  During an update the phases that
\* are done, or not called for, have left what HEAD makes from nothing; when
\* it ends it drops the libraries gen-proto has discovered meanwhile.
Undisturbed ==
  disturbed = 0 =>
    /\ file.commit \in Tree
    /\ \A k \in {"other"} \cap FileKind : head[k] = file.commit[k]
    /\ pc = "idle" => product = AllOf(file.commit, file)
    /\ fresh => pc = "idle" /\ file.commit = head
    /\ pc # "idle" =>
         /\ updating /\ current = head
         /\ s.bridge = file.bridge
         /\ \/ s.libs = file.libs
            \/ s.libs = None /\ file.libs = head["header"]
         /\ Closed(Phase \ todo)
         /\ \A p \in Phase \ todo : product[p] = AllOf(head, file)[p]
    /\ pc = "record" =>
         /\ todo # {}
         /\ product[First(todo)] = AllOf(head, file)[First(todo)]

\* The first phase reads no product of a phase still to run.
LEMMA FirstIsReady ==
  ASSUME NEW S \in SUBSET Phase, S # {}
  PROVE  /\ First(S) \in S
         /\ \A q \in Needs[First(S)] : q \in Phase \ S
<1> DEFINE Position(p) == CHOOSE i \in 1..5 : PhaseOrder[i] = p
<1>1. First(S) \in S /\ \A q \in S : Position(First(S)) <= Position(q)
  BY FirstPhase
<1>2. /\ Position("build") = 1 /\ Position("generate-build") = 2
      /\ Position("parse-headers") = 3 /\ Position("gen-proto") = 4
      /\ Position("wasm-build") = 5
  BY DEF PhaseOrder
<1> HIDE DEF Position
<1>3. \A p \in Phase : \A q \in Needs[p] :
        q \in Phase /\ Position(q) < Position(p)
  BY <1>2 DEF Phase, Needs
<1>4. \A p \in Phase : Position(p) \in Nat
  BY <1>2 DEF Phase
<1>5. ASSUME NEW q \in Needs[First(S)] PROVE q \notin S
  <2>1. First(S) \in Phase
    BY <1>1
  <2>2. q \in Phase /\ Position(q) < Position(First(S))
    BY <2>1, <1>3
  <2> QED BY <1>1, <1>4, <2>1, <2>2
<1> QED BY <1>1, <1>3, <1>5

\* The phases no changed file calls for make the same of both trees.
LEMMA NotNeeded ==
  ASSUME NEW old \in Tree, NEW new \in Tree, NEW c,
         \A k \in {"other"} \cap FileKind : new[k] = old[k]
  PROVE  LET S == Phase \ Needed(old, new)
         IN  Closed(S) /\ \A p \in S : AllOf(old, c)[p] = AllOf(new, c)[p]
<1> DEFINE S == Phase \ Needed(old, new)
           D == Diff(old, new)
<1>1. S = Phase \ Classify(D)
  BY ConstantsAssumption DEF Needed, Tree
<1>2. /\ "build" \in S => "bazel" \notin D
      /\ "generate-build" \in S => "bazel" \notin D
      /\ "parse-headers" \in S => "bazel" \notin D /\ "header" \notin D
      /\ "gen-proto" \in S => {"bazel", "header", "config"} \cap D = {}
      /\ "wasm-build" \in S => {"bazel", "header", "source", "config"} \cap D = {}
  BY <1>1 DEF Classify, Phase
<1>3. /\ "bazel" \notin D => {"build", "generate-build"} \subseteq S
      /\ "bazel" \notin D /\ "header" \notin D => "parse-headers" \in S
      /\ {"bazel", "header", "config"} \cap D = {} => "gen-proto" \in S
  BY <1>1 DEF Classify, Phase
<1>4. Closed(S)
  BY <1>2, <1>3 DEF Closed, Needs, Phase
<1>5. \A k \in FileKind : k \notin D => old[k] = new[k]
  BY DEF Diff
<1> HIDE DEF S, D
<1>6. \A p \in S : \A k \in Files[p] \cap FileKind : old[k] = new[k]
  BY <1>2, <1>5 DEF Files, Phase, S
<1>7. "gen-proto" \in S => old["header"] = new["header"]
  BY <1>2, <1>5, ConstantsAssumption
<1>8. SameInputs(S, old, c, new, c)
  BY <1>6, <1>7 DEF SameInputs, LibrariesOf
<1>9. \A p \in S : AllOf(old, c)[p] = AllOf(new, c)[p]
  <2>1. S \in SUBSET Phase
    BY DEF S
  <2> QED BY <2>1, <1>4, <1>8, AllOfAgrees
<1> QED BY <1>4, <1>9 DEF S

\* It holds initially, of a project that has been through all the phases.
LEMMA InitUndisturbed == ASSUME Built = TRUE, Init PROVE Undisturbed
<1>1. product = [p \in Phase |-> AllOf(head, file)[p]]
  BY DEF Init
<1>2. product = AllOf(head, file)
  BY <1>1, AllOfUnfolds
<1> QED BY <1>2 DEF Init, Undisturbed

\* A phase of an undisturbed update leaves what HEAD makes from nothing, and
\* so do still the phases before it.
LEMMA WorkUndisturbed ==
  ASSUME Types, Undisturbed, disturbed = 0, RunPhase
  PROVE  /\ \A p \in (Phase \ todo) \cup {First(todo)} :
              product'[p] = AllOf(head, file')[p]
         /\ file'.commit = file.commit /\ file'.bridge = file.bridge
         /\ \/ s.libs = file'.libs
            \/ s.libs = None /\ file'.libs = head["header"]
<1> DEFINE f == First(todo)
           S == Phase \ todo
<1>1. /\ f \in todo /\ f \in Phase
      /\ \A q \in Needs[f] : q \in S
  BY FirstIsReady DEF RunPhase, Types
<1>2. /\ product' = [product EXCEPT ![f] = Make(f, head, file, product)]
      /\ file' = IF f = "gen-proto"
                 THEN [file EXCEPT !.libs = Libraries(file, product)] ELSE file
  BY DEF RunPhase, Work
<1>3. /\ Closed(S)
      /\ \A p \in S : product[p] = AllOf(head, file)[p]
      /\ s.libs = file.libs \/ (s.libs = None /\ file.libs = head["header"])
  BY DEF Undisturbed, RunPhase
<1> HIDE DEF f, S
<1>4. f = "gen-proto" => Libraries(file, product) = LibrariesOf(file, head)
  <2> SUFFICES ASSUME f = "gen-proto"
               PROVE  Libraries(file, product) = LibrariesOf(file, head)
    OBVIOUS
  <2>1. "parse-headers" \in S
    BY <1>1 DEF Needs, Phase
  <2>2. product["parse-headers"] = AllOf(head, file)["parse-headers"]
    BY <2>1, <1>3
  <2> QED BY <2>2, LibrariesFromNothing
<1>5. /\ file'.commit = file.commit /\ file'.bridge = file.bridge
      /\ LibrariesOf(file', head) = LibrariesOf(file, head)
      /\ f = "gen-proto" => file'.libs = LibrariesOf(file, head)
      /\ f # "gen-proto" => file' = file
  <2>1. head["header"] # None
    BY ConstantsAssumption DEF Types, Tree
  <2> QED BY <1>2, <1>4, <2>1 DEF Types, Json, Fields, LibrariesOf
<1>6. s.libs = file'.libs \/ (s.libs = None /\ file'.libs = head["header"])
  <2>1. head["header"] # None
    BY ConstantsAssumption DEF Types, Tree
  <2> QED BY <1>3, <1>5, <2>1 DEF LibrariesOf
<1>7. ASSUME NEW p \in S PROVE product'[p] = AllOf(head, file')[p]
  <2>1. product'[p] = product[p]
    BY <1>1, <1>2 DEF Types, S
  <2>2. SameInputs(S, head, file, head, file')
    BY <1>5 DEF SameInputs
  <2>3. AllOf(head, file)[p] = AllOf(head, file')[p]
    <3>1. S \in SUBSET Phase
      BY DEF S
    <3> QED BY <3>1, <1>3, <2>2, AllOfAgrees
  <2> QED BY <2>1, <2>3, <1>3
<1>8. product'[f] = AllOf(head, file')[f]
  <2> DEFINE n == [q \in Needs[f] |-> AllOf(head, file')[q]]
  <2>1. AllOf(head, file')[f] = Make(f, head, file', n)
    BY <1>1, AllOfUnfolds
  <2>2. \A q \in Needs[f] : product[q] = n[q]
    <3> SUFFICES ASSUME NEW q \in Needs[f] PROVE product[q] = n[q]
      OBVIOUS
    <3>1. q \in S /\ product'[q] = AllOf(head, file')[q]
      BY <1>1, <1>7
    <3>2. q # f /\ q \in Phase
      BY <3>1, <1>1 DEF S
    <3> QED BY <3>1, <3>2, <1>2 DEF Types
  <2>3. f = "gen-proto" => Libraries(file, product) = Libraries(file', n)
    <3> SUFFICES ASSUME f = "gen-proto"
                 PROVE  Libraries(file, product) = Libraries(file', n)
      OBVIOUS
    <3>1. "parse-headers" \in Needs[f]
      BY DEF Needs, Phase
    <3>2. n["parse-headers"] = AllOf(head, file')["parse-headers"]
      BY <3>1
    <3> HIDE DEF n
    <3>3. Libraries(file', n) = LibrariesOf(file', head)
      BY <3>2, LibrariesFromNothing
    <3> QED BY <3>3, <1>4, <1>5
  <2>4. product'[f] = Make(f, head, file, product)
    BY <1>1, <1>2 DEF Types
  <2> HIDE DEF n
  <2>5. Make(f, head, file, product) = Make(f, head, file', n)
    BY <1>1, <1>5, <2>2, <2>3, MakeAgrees
  <2> QED BY <2>1, <2>4, <2>5
<1> QED BY <1>5, <1>6, <1>7, <1>8 DEF f, S

\* Every step keeps the project undisturbed, or disturbs it.
LEMMA UndisturbedStep ==
  ASSUME Types, Undisturbed, [Next]_vars PROVE Undisturbed'
<1> SUFFICES ASSUME disturbed' = 0 PROVE Undisturbed'
  BY DEF Undisturbed
<1>0. ASSUME Disturb PROVE FALSE
  BY <1>0 DEF Disturb, Types
<1>1. CASE UNCHANGED vars
  BY <1>1 DEF vars, Undisturbed
<1>2. ASSUME NEW t \in Tree, Pull(t) PROVE Undisturbed'
  <2>1. disturbed = 0 /\ "other" \notin Diff(head, t) /\ pc = "idle"
    BY <1>0, <1>2 DEF Pull
  <2>2. \A k \in {"other"} \cap FileKind : head'[k] = head[k]
    BY <1>2, <2>1 DEF Pull, Diff
  <2>3. UNCHANGED <<file, product, pc>> /\ ~fresh'
    BY <1>2 DEF Pull
  <2> QED BY <2>1, <2>2, <2>3 DEF Undisturbed
<1>3. ASSUME NEW b \in Version, EditConfig(b) PROVE FALSE
  BY <1>0, <1>3 DEF EditConfig
<1>4. CASE UpToDate
  BY <1>4 DEF UpToDate, Undisturbed
<1>5. CASE NothingRelevant
  <2> SUFFICES FALSE
    OBVIOUS
  <2>1. /\ disturbed = 0 /\ pc = "idle" /\ Needed(file.commit, head) = {}
        /\ file.commit # head
    BY <1>5 DEF NothingRelevant
  <2>2. /\ file.commit \in Tree
        /\ \A k \in {"other"} \cap FileKind : head[k] = file.commit[k]
    BY <2>1 DEF Undisturbed
  <2>3. Classify(Diff(file.commit, head)) = {}
    BY <2>1, <2>2, ConstantsAssumption DEF Needed, Tree
  <2>4. {"header", "source", "bazel", "config"} \cap Diff(file.commit, head) = {}
    BY <2>3 DEF Classify, Phase
  <2>5. \A k \in FileKind : file.commit[k] = head[k]
    BY <2>2, <2>4, ConstantsAssumption DEF Diff
  <2>6. file.commit = head
    BY <2>2, <2>5 DEF Tree, Types
  <2> QED BY <2>1, <2>6
<1>6. CASE Update
  <2>1. /\ disturbed = 0 /\ pc = "idle" /\ UNCHANGED <<head, file, product>>
        /\ s' = file /\ current' = head /\ todo' = Needed(file.commit, head)
        /\ updating' = TRUE /\ pc' = "phase" /\ fresh' = FALSE
    BY <1>6 DEF Update
  <2>2. /\ file.commit \in Tree
        /\ \A k \in {"other"} \cap FileKind : head[k] = file.commit[k]
        /\ product = AllOf(file.commit, file)
    BY <2>1 DEF Undisturbed
  <2>3. LET S == Phase \ Needed(file.commit, head)
        IN  /\ Closed(S)
            /\ \A p \in S : AllOf(file.commit, file)[p] = AllOf(head, file)[p]
    BY <2>2, NotNeeded DEF Types
  <2> QED BY <2>1, <2>2, <2>3 DEF Undisturbed
<1>7. ASSUME NEW p \in Manual, RunByHand(p) PROVE FALSE
  BY <1>0, <1>7 DEF RunByHand
<1>8. CASE RunPhase
  <2>1. /\ disturbed = 0 /\ pc = "phase" /\ todo # {} /\ ~fresh
        /\ updating /\ current = head /\ Closed(Phase \ todo)
        /\ file.commit \in Tree /\ s.bridge = file.bridge
        /\ \A k \in {"other"} \cap FileKind : head[k] = file.commit[k]
    BY <1>8 DEF RunPhase, Undisturbed
  <2>2. /\ \A p \in (Phase \ todo) \cup {First(todo)} :
              product'[p] = AllOf(head, file')[p]
        /\ file'.commit = file.commit /\ file'.bridge = file.bridge
        /\ s.libs = file'.libs \/ (s.libs = None /\ file'.libs = head["header"])
    BY <1>8, <2>1, WorkUndisturbed
  <2>3. UNCHANGED <<head, updating, s, current, fresh>>
    BY <1>8 DEF RunPhase
  <2>4. CASE First(todo) \in Recording
    <3>1. pc' = "record" /\ todo' = todo
      BY <1>8, <2>4 DEF RunPhase
    <3> QED BY <2>1, <2>2, <2>3, <3>1 DEF Undisturbed
  <2>5. CASE First(todo) \notin Recording
    <3>1. pc' = "phase" /\ todo' = todo \ {First(todo)}
      BY <1>8, <2>1, <2>5 DEF RunPhase
    <3>2. /\ Closed(Phase \ todo')
          /\ Phase \ todo' = (Phase \ todo) \cup {First(todo)}
      BY <2>1, <3>1, FirstIsReady DEF Types, Closed
    <3> QED BY <2>1, <2>2, <2>3, <3>1, <3>2 DEF Undisturbed
  <2> QED BY <2>4, <2>5
<1>9. CASE Record
  <2>1. /\ disturbed = 0 /\ pc = "record" /\ todo # {} /\ ~fresh
        /\ updating /\ current = head /\ Closed(Phase \ todo)
        /\ s.bridge = file.bridge
        /\ s.libs = file.libs \/ (s.libs = None /\ file.libs = head["header"])
        /\ \A p \in (Phase \ todo) \cup {First(todo)} :
             product[p] = AllOf(head, file)[p]
    BY <1>9 DEF Record, Undisturbed
  <2>2. /\ UNCHANGED <<head, product, updating, s, current, fresh>>
        /\ pc' = "phase" /\ todo' = todo \ {First(todo)}
        /\ file'.commit = head /\ file'.bridge = file.bridge
        /\ file'.libs = file.libs
    BY <1>9 DEF Record, Types, Json, Fields
  <2>3. \A p \in Phase : AllOf(head, file)[p] = AllOf(head, file')[p]
    <3>1. SameInputs(Phase, head, file, head, file')
      BY <2>2 DEF SameInputs, LibrariesOf
    <3>2. Closed(Phase)
      BY DEF Closed, Needs, Phase
    <3> QED BY <3>1, <3>2, AllOfAgrees
  <2>4. /\ Closed(Phase \ todo')
        /\ Phase \ todo' = (Phase \ todo) \cup {First(todo)}
    BY <2>1, <2>2, FirstIsReady DEF Types, Closed
  <2>5. head \in Tree
    BY DEF Types
  <2>6. \A p \in Phase \ todo' : product'[p] = AllOf(head, file')[p]
    BY <2>1, <2>2, <2>3, <2>4
  <2> QED BY <2>1, <2>2, <2>4, <2>5, <2>6 DEF Undisturbed
<1>10. CASE Finish
  <2>1. /\ disturbed = 0 /\ pc = "phase" /\ todo = {}
        /\ UNCHANGED <<head, product>> /\ pc' = "idle"
    BY <1>10 DEF Finish, Exit
  <2>2. /\ updating /\ current = head /\ s.bridge = file.bridge
        /\ s.libs = file.libs \/ (s.libs = None /\ file.libs = head["header"])
        /\ \A p \in Phase : product[p] = AllOf(head, file)[p]
    BY <2>1 DEF Undisturbed
  <2>3. /\ file'.commit = head /\ file'.bridge = file.bridge
        /\ file'.libs = s.libs
    BY <1>10, <2>2 DEF Finish, Types, Json, Fields
  <2>4. LibrariesOf(file, head) = LibrariesOf(file', head)
    BY <2>2, <2>3 DEF LibrariesOf
  <2>5. \A p \in Phase : AllOf(head, file)[p] = AllOf(head, file')[p]
    <3>1. SameInputs(Phase, head, file, head, file')
      BY <2>3, <2>4 DEF SameInputs
    <3>2. Closed(Phase)
      BY DEF Closed, Needs, Phase
    <3> QED BY <3>1, <3>2, AllOfAgrees
  <2>6. product = AllOf(head, file')
    <3>1. AllOf(head, file') = [p \in Phase |-> AllOf(head, file')[p]]
      BY AllOfUnfolds
    <3>2. product = [p \in Phase |-> product[p]]
      BY DEF Types
    <3>3. \A p \in Phase : product[p] = AllOf(head, file')[p]
      BY <2>2, <2>5
    <3> HIDE DEF Types
    <3> QED BY <3>1, <3>2, <3>3
  <2>7. head \in Tree
    BY DEF Types
  <2> QED BY <2>1, <2>3, <2>6, <2>7 DEF Undisturbed
<1>11. CASE Abort
  BY <1>0, <1>11 DEF Abort
<1> QED
  BY <1>1, <1>2, <1>3, <1>4, <1>5, <1>6, <1>7, <1>8, <1>9, <1>10, <1>11
  DEF Next

\* An update that runs to its end leaves every product as all the phases
\* would make it of HEAD, although it runs only those that classifyChanges
\* calls for: for any sequence of commits and updates that nothing disturbs.
THEOREM UpdatesAreFresh ==
  ASSUME Built = TRUE PROVE Spec => []UndisturbedIsFresh
<1>1. Init => Types /\ Undisturbed
  BY InitIInv, InitUndisturbed DEF IInv
<1>2. Types /\ Undisturbed /\ [Next]_vars => Types' /\ Undisturbed'
  BY TypesStep, UndisturbedStep
<1>3. Undisturbed => UndisturbedIsFresh
  BY DEF Undisturbed, UndisturbedIsFresh, UpdatedIsFresh
<1> QED BY <1>1, <1>2, <1>3, PTL DEF Spec
=============================================================================
