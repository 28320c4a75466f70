--------------------------- MODULE WasmBuild_proofs ---------------------------
(***************************************************************************)
(* WasmBuild for any captured build, any sources and any number of builds.  *)
(* Every build ends.  Incremental builds end as clean ones: the invariant   *)
(* follows the loop of Execute, and says of each step behind the one at     *)
(* hand that it is good: made of the files it reads as they are, none of    *)
(* them newer, and known to the cache or to be found by its times.          *)
(***************************************************************************)
EXTENDS WasmBuild, FiniteSetTheorems, SequenceTheorems, TLAPS

\* A set of natural numbers that contains each number whose predecessors it
\* contains, contains all: finite sets have no infinite chains.
LEMMA Induction ==
  ASSUME NEW S \in SUBSET Nat, \A n \in Nat : 0 .. n-1 \subseteq S => n \in S
  PROVE  Nat \subseteq S
<1> SUFFICES ASSUME NEW m \in Nat \ S PROVE FALSE
  OBVIOUS
<1> DEFINE F == {X \in FiniteSubsetsOf(Nat) : \E n \in Nat \ S : X = 0 .. n-1}
<1>1. ASSUME NEW n \in Nat \ S PROVE 0 .. n-1 \in F
  <2>1. IsFiniteSet(0 .. n-1) /\ 0 .. n-1 \in SUBSET Nat
    BY FS_Interval
  <2> QED BY <2>1 DEF FiniteSubsetsOf
<1>2. PICK X \in F : \A Y \in F : ~ (<<Y, X>> \in StrictSubsetOrdering(Nat))
  <2>1. F \subseteq FiniteSubsetsOf(Nat) /\ F # {}
    BY <1>1
  <2> HIDE DEF F
  <2> QED BY <2>1, FS_StrictSubsetOrderingWellFounded, WFMin
<1>3. PICK n \in Nat \ S : X = 0 .. n-1
  OBVIOUS
<1>4. ASSUME NEW y \in 0 .. n-1, y \notin S PROVE FALSE
  <2>1. 0 .. y-1 \in F
    BY <1>1, <1>4
  <2>2. y \in X /\ y \notin 0 .. y-1
    BY <1>3
  <2>3. 0 .. y-1 \subseteq X /\ 0 .. y-1 # X /\ X \subseteq Nat /\ 0 .. y-1 \subseteq Nat
    BY <1>3, <2>2
  <2>4. <<0 .. y-1, X>> \in StrictSubsetOrdering(Nat)
    BY <2>3 DEF StrictSubsetOrdering
  <2> QED BY <2>1, <2>4, <1>2
<1> QED BY <1>4
-----------------------------------------------------------------------------
(***************************************************************************)
(* The order of the steps.                                                  *)
(***************************************************************************)
\* The steps of phase k among the first n captured, from what f says of the
\* first n - 1.
WithNext(k, f) ==
  [n \in 0..Len(Captured) |->
     IF n = 0 THEN << >>
     ELSE IF Captured[n] \in Live /\ Kind[Captured[n]] = k
          THEN Append(f[n - 1], Captured[n]) ELSE f[n - 1]]

\* Phase reads off the function that says so,
LEMMA PhaseIs ==
  ASSUME NEW k
  PROVE  Phase(k) = (CHOOSE f : f = WithNext(k, f))[Len(Captured)]
BY DEF Phase, WithNext

\* and there is one.
LEMMA WithNextExists == ASSUME NEW k PROVE \E f : f = WithNext(k, f)
<1> DEFINE L == Len(Captured)
           S == {n \in Nat : \E f : \A m \in 0..L : m <= n => f[m] = WithNext(k, f)[m]}
<1>1. L \in Nat
  BY ConstantsAssumption DEF ConstantsAssumption
<1>2. ASSUME NEW n \in Nat, 0 .. n-1 \subseteq S PROVE n \in S
  <2>1. CASE n = 0
    <3>1. \A m \in 0..L : m <= n => [m1 \in 0..L |-> << >>][m] = WithNext(k, [m1 \in 0..L |-> << >>])[m]
      BY <2>1, <1>1 DEF WithNext
    <3> QED BY <3>1
  <2>2. CASE n > 0
    <3>1. n - 1 \in 0..n-1
      BY <2>2
    <3>2. n - 1 \in S
      BY <3>1, <1>2
    <3>3. PICK f : \A m \in 0..L : m <= n - 1 => f[m] = WithNext(k, f)[m]
      BY <3>2
    <3> DEFINE g == [m \in 0..L |-> IF m < n THEN f[m] ELSE WithNext(k, f)[m]]
    <3>4. ASSUME NEW m \in 0..L, m <= n PROVE g[m] = WithNext(k, g)[m]
      <4>1. g[m] = WithNext(k, f)[m]
        BY <3>3, <3>4
      <4>2. m = 0 \/ (m - 1 \in 0..L /\ g[m - 1] = f[m - 1])
        BY <1>1, <3>4
      <4> HIDE DEF g
      <4> QED BY <4>1, <4>2 DEF WithNext
    <3> HIDE DEF g
    <3> QED BY <3>4
  <2> QED BY <2>1, <2>2
<1>3. L \in S
  <2> HIDE DEF S
  <2>1. S \subseteq Nat
    BY DEF S
  <2> QED BY <1>1, <1>2, <2>1, Induction
<1>4. PICK f : \A m \in 0..L : f[m] = WithNext(k, f)[m]
  BY <1>1, <1>3
<1> DEFINE g == WithNext(k, f)
<1>5. \A m \in 0..L : g[m] = f[m]
  BY <1>4
<1>6. ASSUME NEW m \in 0..L PROVE g[m] = WithNext(k, g)[m]
  <2>1. m = 0 \/ (m - 1 \in 0..L /\ g[m - 1] = f[m - 1])
    BY <1>1, <1>5
  <2> HIDE DEF g
  <2>2. g[m] = WithNext(k, f)[m]
    BY <1>4, <1>5
  <2> QED BY <2>1, <2>2 DEF WithNext
<1>7. g = [m \in 0..L |-> g[m]] /\ WithNext(k, g) = [m \in 0..L |-> WithNext(k, g)[m]]
  BY DEF WithNext
<1> HIDE DEF g
<1> QED BY <1>6, <1>7

\* A phase lists the steps of its kind that take part.
LEMMA PhaseLists ==
  ASSUME NEW k
  PROVE  /\ Phase(k) \in Seq(Step)
         /\ \A i \in 1..Len(Phase(k)) : Phase(k)[i] \in Live /\ Kind[Phase(k)[i]] = k
         /\ \A s \in Step : s \in Live /\ Kind[s] = k => \E i \in 1..Len(Phase(k)) : Phase(k)[i] = s
<1> DEFINE L == Len(Captured)
           f == CHOOSE f : f = WithNext(k, f)
<1>1. f = WithNext(k, f)
  BY WithNextExists
<1>2. Phase(k) = f[L]
  BY PhaseIs
<1> HIDE DEF f
<1>3. L \in Nat /\ \A n \in 1..L : Captured[n] \in Step
  BY ConstantsAssumption DEF ConstantsAssumption
<1> DEFINE Good(n) ==
             /\ f[n] \in Seq(Step)
             /\ \A i \in 1..Len(f[n]) : f[n][i] \in Live /\ Kind[f[n][i]] = k
             /\ \A m \in 1..n : Captured[m] \in Live /\ Kind[Captured[m]] = k
                                  => \E i \in 1..Len(f[n]) : f[n][i] = Captured[m]
           S == {n \in Nat : n <= L => Good(n)}
<1>4. ASSUME NEW n \in Nat, 0 .. n-1 \subseteq S PROVE n \in S
  <2> SUFFICES ASSUME n <= L PROVE Good(n)
    OBVIOUS
  <2>1. CASE n = 0
    <3>1. f[n] = << >>
      BY <2>1, <1>1, <1>3 DEF WithNext
    <3> QED BY <3>1, <2>1
  <2>2. CASE n > 0
    <3>1. n - 1 \in 0..n-1
      BY <2>2
    <3>2. Good(n - 1)
      <4>1. n - 1 \in S
        BY <3>1, <1>4
      <4> QED BY <4>1, <1>3
    <3>3. f[n] = IF Captured[n] \in Live /\ Kind[Captured[n]] = k
                 THEN Append(f[n - 1], Captured[n]) ELSE f[n - 1]
      <4>1. n \in 0..L /\ n # 0
        BY <1>3, <2>2
      <4>2. f[n] = WithNext(k, f)[n]
        BY <1>1
      <4> QED BY <4>1, <4>2 DEF WithNext
    <3>4. CASE ~(Captured[n] \in Live /\ Kind[Captured[n]] = k)
      <4>1. f[n] = f[n - 1]
        BY <3>3, <3>4
      <4>2. \A m \in 1..n : m = n \/ m \in 1..n - 1
        OBVIOUS
      <4> QED BY <3>2, <3>4, <4>1, <4>2
    <3>5. CASE Captured[n] \in Live /\ Kind[Captured[n]] = k
      <4> DEFINE p == f[n - 1]
      <4>1. f[n] = Append(p, Captured[n]) /\ p \in Seq(Step) /\ Captured[n] \in Step
        BY <3>2, <3>3, <3>5, <1>3, <2>2
      <4>2. /\ \A i \in 1..Len(p) : p[i] \in Live /\ Kind[p[i]] = k
            /\ \A m \in 1..n - 1 : Captured[m] \in Live /\ Kind[Captured[m]] = k
                                  => \E i \in 1..Len(p) : p[i] = Captured[m]
        BY <3>2
      <4> HIDE DEF p
      <4>3. /\ f[n] \in Seq(Step) /\ Len(f[n]) = Len(p) + 1
            /\ \A i \in 1..Len(p) : f[n][i] = p[i]
            /\ f[n][Len(p) + 1] = Captured[n]
        BY <4>1, AppendProperties
      <4>4. Len(p) \in Nat
        BY <4>1
      <4>5. \A i \in 1..Len(f[n]) : i \in 1..Len(p) \/ i = Len(p) + 1
        BY <4>3, <4>4
      <4>6. ASSUME NEW m \in 1..n, Captured[m] \in Live /\ Kind[Captured[m]] = k
            PROVE  \E i \in 1..Len(f[n]) : f[n][i] = Captured[m]
        <5>1. CASE m = n
          <6>1. Len(p) + 1 \in 1..Len(f[n])
            BY <4>3, <4>4
          <6> QED BY <6>1, <4>3, <5>1
        <5>2. CASE m \in 1..n - 1
          <6>1. PICK i \in 1..Len(p) : p[i] = Captured[m]
            BY <4>2, <4>6, <5>2
          <6>2. i \in 1..Len(f[n]) /\ f[n][i] = p[i]
            BY <4>3, <4>4
          <6> QED BY <6>1, <6>2
        <5> QED BY <5>1, <5>2
      <4>7. \A i \in 1..Len(f[n]) : f[n][i] \in Live /\ Kind[f[n][i]] = k
        BY <4>2, <4>3, <4>5, <3>5
      <4> QED BY <4>3, <4>6, <4>7
    <3> QED BY <3>4, <3>5
  <2> QED BY <2>1, <2>2
<1>5. Good(L)
  <2>1. S \subseteq Nat
    OBVIOUS
  <2>2. L \in S
    <3> HIDE DEF S
    <3> QED BY <1>3, <1>4, <2>1, Induction
  <2> QED BY <2>2, <1>3
<1>6. \A s \in Step : \E m \in 1..L : s = Captured[m]
  BY ConstantsAssumption DEF ConstantsAssumption, Range
<1> QED BY <1>2, <1>5, <1>6

\* The place of a phase.
Rank(k) == CASE k = "compile" -> 0 [] k = "archive" -> 1 [] k = "link" -> 2

\* The schedule has every step that takes part, phase by phase.
LEMMA ScheduleLists ==
  /\ Schedule \in Seq(Step) /\ Len(Schedule) \in Nat
  /\ \A i \in 1..Len(Schedule) : Schedule[i] \in Live /\ Schedule[i] \in Step
  /\ \A s \in Step : s \in Live => \E i \in 1..Len(Schedule) : Schedule[i] = s
  /\ \A i, j \in 1..Len(Schedule) :
       i <= j => Rank(Kind[Schedule[i]]) <= Rank(Kind[Schedule[j]])
<1> DEFINE C == Phase("compile")
           A == Phase("archive")
           K == Phase("link")
<1>1. /\ C \in Seq(Step) /\ A \in Seq(Step) /\ K \in Seq(Step)
      /\ \A i \in 1..Len(C) : C[i] \in Live /\ Kind[C[i]] = "compile"
      /\ \A i \in 1..Len(A) : A[i] \in Live /\ Kind[A[i]] = "archive"
      /\ \A i \in 1..Len(K) : K[i] \in Live /\ Kind[K[i]] = "link"
  BY PhaseLists
<1>2. \A s \in Step : s \in Live =>
        \/ \E i \in 1..Len(C) : C[i] = s
        \/ \E i \in 1..Len(A) : A[i] = s
        \/ \E i \in 1..Len(K) : K[i] = s
  <2>1. \A s \in Step : Kind[s] \in {"compile", "archive", "link"}
    BY ConstantsAssumption DEF ConstantsAssumption
  <2> QED BY <2>1, PhaseLists
<1> HIDE DEF C, A, K
<1> DEFINE c == Len(C)
           a == Len(A)
           l == Len(K)
<1>3. c \in Nat /\ a \in Nat /\ l \in Nat
  BY <1>1
<1>4. Schedule = (C \o A) \o K
  BY DEF Schedule, C, A, K
<1>5. /\ C \o A \in Seq(Step) /\ Len(C \o A) = c + a
      /\ \A i \in 1..c + a : (C \o A)[i] = IF i <= c THEN C[i] ELSE A[i - c]
  BY <1>1, ConcatProperties
<1>6. /\ Schedule \in Seq(Step) /\ Len(Schedule) = (c + a) + l
      /\ \A i \in 1..(c + a) + l : Schedule[i] = IF i <= c + a THEN (C \o A)[i] ELSE K[i - (c + a)]
  BY <1>1, <1>4, <1>5, ConcatProperties
<1>7. \A i \in 1..(c + a) + l :
        \/ i \in 1..c /\ Schedule[i] = C[i]
        \/ i \in c + 1..c + a /\ i - c \in 1..a /\ Schedule[i] = A[i - c]
        \/ i \in c + a + 1..c + a + l /\ i - (c + a) \in 1..l /\ Schedule[i] = K[i - (c + a)]
  BY <1>3, <1>5, <1>6
<1>8. \A i \in 1..(c + a) + l :
        /\ Schedule[i] \in Live
        /\ \/ i \in 1..c /\ Rank(Kind[Schedule[i]]) = 0
           \/ i \in c + 1..c + a /\ Rank(Kind[Schedule[i]]) = 1
           \/ i \in c + a + 1..c + a + l /\ Rank(Kind[Schedule[i]]) = 2
  BY <1>1, <1>7 DEF Rank
<1>9. ASSUME NEW i \in 1..Len(Schedule), NEW j \in 1..Len(Schedule), i <= j
      PROVE  Rank(Kind[Schedule[i]]) <= Rank(Kind[Schedule[j]])
  <2>1. i \in 1..(c + a) + l /\ j \in 1..(c + a) + l
    BY <1>6
  <2> QED BY <2>1, <1>3, <1>8, <1>9
<1>10. ASSUME NEW s \in Step, s \in Live PROVE \E i \in 1..Len(Schedule) : Schedule[i] = s
  <2>1. CASE \E i \in 1..Len(C) : C[i] = s
    <3>1. PICK i \in 1..c : C[i] = s
      BY <2>1
    <3>2. i \in 1..Len(Schedule) /\ Schedule[i] = s
      BY <3>1, <1>3, <1>5, <1>6
    <3> QED BY <3>2
  <2>2. CASE \E i \in 1..Len(A) : A[i] = s
    <3>1. PICK i \in 1..a : A[i] = s
      BY <2>2
    <3>2. /\ c + i \in 1..c + a /\ (c + i) - c = i /\ ~(c + i <= c)
          /\ c + i \in 1..(c + a) + l
      BY <3>1, <1>3
    <3>3. Schedule[c + i] = s
      BY <3>1, <3>2, <1>3, <1>5, <1>6
    <3> QED BY <3>2, <3>3, <1>6
  <2>3. CASE \E i \in 1..Len(K) : K[i] = s
    <3>1. PICK i \in 1..l : K[i] = s
      BY <2>3
    <3>2. /\ c + a + i \in 1..(c + a) + l /\ (c + a + i) - (c + a) = i
          /\ ~(c + a + i <= c + a)
      BY <3>1, <1>3
    <3>3. Schedule[c + a + i] = s
      BY <3>1, <3>2, <1>3, <1>6
    <3> QED BY <3>2, <3>3, <1>6
  <2> QED BY <1>2, <1>10, <2>1, <2>2, <2>3
<1> QED BY <1>3, <1>6, <1>8, <1>9, <1>10
-----------------------------------------------------------------------------
(***************************************************************************)
(* Types, and the end of every build.                                       *)
(***************************************************************************)
PCs == {"idle", "step", "tool", "save", "write", "link"}

Types ==
  /\ project \in Project /\ plan \in project.plans
  /\ content = [f \in File \cup {Artifact} |-> content[f]]
  /\ args = [s \in Step |-> args[s]]
  /\ newer \subseteq File \X File
  /\ wasmSkip \subseteq Compiles /\ skipped \subseteq Compiles
  /\ pc \in PCs
  /\ cfg \in [flags : project.flags, target : Target, noCache : BOOLEAN]
  /\ at \in 1..(Len(Schedule) + 1)
  /\ pc = "tool" => at <= Len(Schedule)
  /\ pc = "idle" => at = 1
  /\ tries \in 0..(project.retries - 1)
  /\ pc # "tool" => tries = 0

\* The schedule is that of build.json.
LEMMA SameSchedule ==
  ASSUME UNCHANGED <<project, plan>>
  PROVE  Live' = Live /\ Schedule' = Schedule
BY DEF Live, Injected, Schedule, Phase

\* It is finite.
LEMMA ScheduleLength == Len(Schedule) \in Nat
BY ScheduleLists

\* What the constants are.
LEMMA Steps ==
  /\ \A s \in Step : /\ Kind[s] \in {"compile", "archive", "link"}
                     /\ Operands[s] \subseteq File
                     /\ Out[s] \in File /\ Out[s] \notin Source \cup External
                     /\ Out[s] # Artifact
  /\ Artifact \notin File /\ Source \subseteq File /\ Absent \notin Version
BY ConstantsAssumption DEF ConstantsAssumption, File

\* What a project is.
LEMMA Projects ==
  ASSUME Types
  PROVE  /\ project.retries \in Nat \ {0} /\ Injected \subseteq Compiles
         /\ Live \subseteq Step
BY ConstantsAssumption DEF ConstantsAssumption, Types, Injected, Compiles, Live

\* The files whose time changes are files.
LEMMA TouchType ==
  ASSUME Types, NEW f \in File
  PROVE  /\ Touch(f) \subseteq File \X File
         /\ Forget(f) \subseteq File \X File
<1>1. newer \subseteq File \X File
  BY DEF Types
<1>2. MadeFrom(f) \subseteq File
  BY Steps DEF MadeFrom
<1>3. {f} \X MadeFrom(f) \subseteq File \X File
  BY <1>2
<1> QED BY <1>1, <1>3 DEF Touch, Forget

\* The project, the plan and all that is on the disk when a process ends.
LEMMA TypesExit ==
  ASSUME Types, Exit, UNCHANGED <<project, plan, newer>>, wasmSkip' = wasmSkip,
         content' = [f \in File \cup {Artifact} |-> content'[f]]
  PROVE  Types'
<1>1. Schedule' = Schedule /\ Len(Schedule) \in Nat
  BY SameSchedule, ScheduleLists
<1> QED BY <1>1, Projects DEF Types, Exit, NoArgs, PCs

\* Every step keeps the types.
LEMMA TypesStep == ASSUME Types, [Next]_vars PROVE Types'
<1> USE DEF PCs
<1>1. Len(Schedule) \in Nat /\ \A i \in 1..Len(Schedule) : Schedule[i] \in Step
  BY ScheduleLists
<1>2. project.retries \in Nat \ {0} /\ Injected \subseteq Compiles /\ Live \subseteq Step
  BY Projects
<1>3. UNCHANGED <<project, plan>> => Schedule' = Schedule
  BY SameSchedule
<1>4. pc = "tool" => Current \in Step
  BY <1>1 DEF Types, Current
<1>5. CASE UNCHANGED vars
  BY <1>3, <1>5 DEF Types, vars, disk, process, Compiles
<1>6. ASSUME NEW f \in Source, NEW v \in Version, Edit(f, v) PROVE Types'
  <2>1. newer' \subseteq File \X File
    BY <1>6, TouchType, Steps DEF Edit
  <2> QED BY <1>3, <1>6, <2>1 DEF Types, Edit, process, Compiles
<1>7. ASSUME NEW p \in project.plans, GenerateBuild(p) PROVE Types'
  <2>1. (Len(Schedule) \in Nat)'
    BY ScheduleLength, PTL
  <2> QED BY <1>7, <2>1 DEF Types, GenerateBuild, process, Compiles
<1>8. ASSUME NEW c \in [flags : project.flags, target : Target, noCache : BOOLEAN], Start(c)
      PROVE  Types'
  BY <1>1, <1>3, <1>8 DEF Types, Start, disk, Scrub, Compiles
<1>9. CASE Pass
  BY <1>1, <1>3, <1>9 DEF Types, Pass, AtStep, disk, Compiles
<1>10. CASE Launch
  <2>1. Current \in Step /\ at \in 1..Len(Schedule)
    BY <1>1, <1>10 DEF Types, Launch, AtStep, Current
  <2>2. newer' \subseteq File \X File
    <3>1. Forget(Out[Current]) \subseteq File \X File
      BY <2>1, Steps, TouchType
    <3> QED BY <3>1, <1>10 DEF Launch, Types
  <2>3. content' = [f \in File \cup {Artifact} |-> content'[f]]
    BY <1>10 DEF Launch, Types
  <2>4. args' = [s \in Step |-> args'[s]]
    BY <1>10 DEF Launch, Types
  <2>5. /\ UNCHANGED <<project, plan, wasmSkip, cfg, at, skipped, tries>>
        /\ pc' = "tool"
    BY <1>10 DEF Launch
  <2> QED BY <1>3, <2>1, <2>2, <2>3, <2>4, <2>5 DEF Types, Compiles
<1>11. CASE Succeed
  <2>1. newer' \subseteq File \X File
    BY <1>4, <1>11, Steps, TouchType DEF Succeed
  <2>2. content' = [f \in File \cup {Artifact} |-> content'[f]]
    BY <1>11 DEF Succeed, Types
  <2>3. /\ UNCHANGED <<project, plan, wasmSkip, cfg, skipped, args>>
        /\ pc = "tool" /\ Advance
    BY <1>11 DEF Succeed
  <2> QED BY <1>1, <1>2, <1>3, <2>1, <2>2, <2>3 DEF Types, Advance, Compiles
<1>12. CASE Retry
  BY <1>2, <1>3, <1>12 DEF Types, Retry, disk, Compiles
<1>13. CASE SkipStep
  BY <1>1, <1>2, <1>3, <1>4, <1>13 DEF Types, SkipStep, Advance, Scrub, Compiles
<1>14. CASE Fail
  <2>1. newer' \subseteq File \X File
    <3>1. Forget(Out[Current]) \subseteq File \X File
      BY <1>4, <1>14, Steps, TouchType DEF Fail
    <3> QED BY <3>1, <1>14 DEF Fail, Types
  <2>2. content' = [f \in File \cup {Artifact} |-> content'[f]]
    BY <1>14 DEF Fail, Types
  <2>3. /\ UNCHANGED <<project, plan, wasmSkip, cfg, at, skipped, args>>
        /\ pc' = "save" /\ tries' = 0
    BY <1>14 DEF Fail
  <2> QED BY <1>2, <1>3, <2>1, <2>2, <2>3 DEF Types, Compiles
<1>15. CASE AllStepsDone
  BY <1>3, <1>15 DEF Types, AllStepsDone, disk, Compiles
<1>16. CASE Truncate
  BY <1>3, <1>16 DEF Types, Truncate, Compiles
<1>17. CASE Write
  <2>1. CASE ok /\ Library
    BY <1>3, <1>17, <2>1 DEF Types, Write, Compiles
  <2>2. CASE ~(ok /\ Library)
    <3>1. /\ Exit /\ UNCHANGED <<project, plan, newer>> /\ wasmSkip' = wasmSkip
          /\ content' = content
      BY <1>17, <2>2 DEF Write
    <3> QED BY <3>1, TypesExit DEF Types
  <2> QED BY <2>1, <2>2
<1>18. CASE LinkLibrary
  <2>1. content' = [f \in File \cup {Artifact} |-> content'[f]]
    BY <1>18 DEF LinkLibrary, Types
  <2> QED BY <1>18, <2>1, TypesExit DEF LinkLibrary
<1>19. CASE LinkLibraryFails
  BY <1>19, TypesExit DEF LinkLibraryFails, disk, Types
<1>20. CASE Crash
  BY <1>20, TypesExit DEF Crash, disk, Types
<1> QED BY <1>5, <1>6, <1>7, <1>8, <1>9, <1>10, <1>11, <1>12, <1>13, <1>14, <1>15,
           <1>16, <1>17, <1>18, <1>19, <1>20 DEF Next, Work

\* Types always holds.
LEMMA TypesAlways == Spec => []Types
<1>1. Init => Types
  <2> SUFFICES ASSUME Init PROVE Types
    OBVIOUS
  <2>1. Len(Schedule) \in Nat
    BY ScheduleLists
  <2>2. project.retries \in Nat \ {0}
    BY ConstantsAssumption DEF ConstantsAssumption, Init
  <2>3. at \in 1..(Len(Schedule) + 1) /\ tries \in 0..(project.retries - 1)
    BY <2>1, <2>2 DEF Init
  <2>4. cfg \in [flags : project.flags, target : Target, noCache : BOOLEAN]
    BY DEF Init
  <2>5. content = [f \in File \cup {Artifact} |-> content[f]]
    BY DEF Init
  <2> QED BY <2>3, <2>4, <2>5 DEF Init, Types, NoArgs, PCs, Compiles
<1>2. Types /\ [Next]_vars => Types'
  BY TypesStep
<1> QED BY <1>1, <1>2, PTL DEF Spec

\* BuildEnds: every step of a running build leaves less to do, however many
\* headers are missing, sources are skipped and steps fail: at most
\* maxMissingHeaderRetries compiles of each step (execute.go:101), and one
\* pass over the steps.
THEOREM EveryBuildEnds == Spec => BuildEnds
<1>1. ASSUME Types, [Next]_vars PROVE [pc # "idle" => pc' = "idle" \/ Remaining' < Remaining]_vars
  <2> SUFFICES ASSUME Next, pc # "idle", pc' # "idle" PROVE Remaining' < Remaining
    BY <1>1
  <2> DEFINE n == Len(Schedule)
             r == project.retries + 1
             left == n + 1 - at
  <2>1. /\ n \in Nat /\ r \in Nat /\ r > 1 /\ at \in 1..n + 1 /\ left \in Nat
        /\ tries \in 0..r - 2
    BY <1>1, Projects, ScheduleLists DEF Types
  <2>2. ~ \E f \in Source, v \in Version : Edit(f, v)
    BY DEF Edit
  <2>3. (~ \E p \in project.plans : GenerateBuild(p)) /\ ~Crash
    BY DEF GenerateBuild, Crash, Exit
  <2>4. ~ \E c \in [flags : project.flags, target : Target, noCache : BOOLEAN] : Start(c)
    BY DEF Start
  <2>5. Work
    BY <2>2, <2>3, <2>4 DEF Next
  <2>6. UNCHANGED <<project, plan>>
    BY <2>5 DEF Work, Pass, Launch, Succeed, Retry, SkipStep, Fail, AllStepsDone, Truncate,
                Write, LinkLibrary, LinkLibraryFails, disk
  <2>7. Schedule' = Schedule /\ n' = n /\ r' = r
    BY <2>6, SameSchedule
  <2>8. left * r \in Nat
    BY <2>1
  <2>9. left > 0 => (left - 1) * r = left * r - r /\ left * r >= r
    <3>1. (left - 1) * r = left * r - r
      BY <2>1
    <3>2. left > 0 => (left - 1) * r \in Nat
      BY <2>1
    <3> QED BY <3>1, <3>2, <2>1, <2>8
  <2>10. Remaining = CASE pc = "step"  -> 3 + left * r
                       [] pc = "tool"  -> 3 + left * r - (1 + tries)
                       [] pc = "save"  -> 2
                       [] pc = "write" -> 1
                       [] pc = "link"  -> 0
                       [] pc = "idle"  -> 0
    BY DEF Remaining
  <2>11. Remaining' = CASE pc' = "step"  -> 3 + (n + 1 - at') * r
                        [] pc' = "tool"  -> 3 + (n + 1 - at') * r - (1 + tries')
                        [] pc' = "save"  -> 2
                        [] pc' = "write" -> 1
                        [] pc' = "link"  -> 0
                        [] pc' = "idle"  -> 0
    BY <2>7 DEF Remaining
  <2>12. at' = at => (n + 1 - at') = left
    OBVIOUS
  <2>13. at' = at + 1 /\ left > 0 => (n + 1 - at') = left - 1
    BY <2>1
  <2>14. pc = "tool" => at <= n
    BY <1>1 DEF Types
  <2> HIDE DEF n, r
  <2>15. CASE Pass
    <3>1. pc = "step" /\ pc' = "step" /\ at' = at + 1 /\ left > 0
      BY <2>1, <2>15 DEF Pass, AtStep, n
    <3>2. Remaining = 3 + left * r /\ Remaining' = 3 + (left - 1) * r
      BY <2>10, <2>11, <2>13, <3>1
    <3> HIDE DEF left
    <3> QED BY <2>1, <2>8, <2>9, <3>1, <3>2
  <2>16. CASE Launch
    <3>1. pc = "step" /\ pc' = "tool" /\ at' = at /\ tries' = tries
      BY <2>16 DEF Launch, AtStep
    <3>2. Remaining = 3 + left * r /\ Remaining' = 3 + left * r - (1 + tries)
      BY <2>10, <2>11, <2>12, <3>1
    <3> HIDE DEF left
    <3> QED BY <2>1, <2>8, <3>2
  <2>17. CASE Succeed \/ SkipStep
    <3>1. pc = "tool" /\ pc' = "step" /\ at' = at + 1 /\ left > 0
      BY <2>1, <2>14, <2>17 DEF Succeed, SkipStep, Advance
    <3>2. Remaining = 3 + left * r - (1 + tries) /\ Remaining' = 3 + (left - 1) * r
      BY <2>10, <2>11, <2>13, <3>1
    <3> HIDE DEF left
    <3> QED BY <2>1, <2>8, <2>9, <3>1, <3>2
  <2>18. CASE Retry
    <3>1. pc = "tool" /\ pc' = "tool" /\ at' = at /\ tries' = tries + 1
      BY <2>18 DEF Retry
    <3>2. /\ Remaining = 3 + left * r - (1 + tries)
          /\ Remaining' = 3 + left * r - (1 + (tries + 1))
      BY <2>10, <2>11, <2>12, <3>1
    <3> HIDE DEF left
    <3> QED BY <2>1, <2>8, <3>2
  <2>19. CASE Fail
    <3>1. pc = "tool" /\ pc' = "save" /\ left > 0
      BY <2>1, <2>14, <2>19 DEF Fail
    <3>2. Remaining = 3 + left * r - (1 + tries) /\ Remaining' = 2
      BY <2>10, <2>11, <3>1
    <3> HIDE DEF left
    <3> QED BY <2>1, <2>8, <2>9, <3>1, <3>2
  <2>20. CASE AllStepsDone
    <3>1. pc = "step" /\ pc' = "save"
      BY <2>20 DEF AllStepsDone
    <3>2. Remaining = 3 + left * r /\ Remaining' = 2
      BY <2>10, <2>11, <3>1
    <3> HIDE DEF left
    <3> QED BY <2>1, <2>8, <3>2
  <2>21. CASE Truncate \/ Write
    <3>1. (pc = "save" /\ pc' = "write") \/ (pc = "write" /\ pc' = "link")
      BY <2>21 DEF Truncate, Write, Exit
    <3> QED BY <2>10, <2>11, <3>1
  <2>22. CASE LinkLibrary \/ LinkLibraryFails
    BY <2>22 DEF LinkLibrary, LinkLibraryFails, Exit
  <2> QED BY <2>5, <2>15, <2>16, <2>17, <2>18, <2>19, <2>20, <2>21, <2>22 DEF Work
<1> QED BY <1>1, TypesAlways, PTL DEF Spec, BuildEnds
-----------------------------------------------------------------------------
(***************************************************************************)
(* Incremental builds.                                                      *)
(***************************************************************************)
\* Tools read what earlier phases make, and no two steps write one file.
InPhases == \A s, t \in Step : Out[t] \in Operands[s] => Rank(Kind[t]) < Rank(Kind[s])
OwnOutputs == \A s, t \in Step : Out[s] = Out[t] => s = t

\* One numbering of the steps, and a step is captured with those whose
\* outputs it reads if they are ever captured, a library's archives always.
\* A project whose builds are killed has one configuration and skips no step.
Steady(q) ==
  /\ \A p, r \in q.plans : p.ids = r.ids
  /\ \A p, r \in q.plans : \A s \in p.steps \cup q.bridge, t \in r.steps :
       Out[t] \in Operands[s] => t \in p.steps \cup q.bridge
  /\ q.library => \A p, r \in q.plans : \A s \in r.steps :
                     Kind[s] = "archive" => s \in p.steps
  /\ q.crashes => ~q.skips /\ \A f, g \in q.flags : f = g

\* The markers are neither a tool's product nor a cache.
Markers ==
  /\ \A c, r : Absent # [config |-> c, from |-> r]
  /\ \A t, e : [target |-> t, entries |-> e] \notin {Absent, Corrupt}

\* All that the theorems on incremental builds assume of the constants.
Assumed ==
  /\ InPhases /\ OwnOutputs /\ Markers
  /\ \A q \in Project : Steady(q)
  /\ \A s \in Step : Headers[s] = {}
  /\ Unresolved = {}
  /\ \A t, u \in Target : t = u

\* The steps of any build, and the operands of s that one of them may make.
Ever == (UNION {p.steps : p \in project.plans}) \cup Injected
Whole(s) == {f \in Operands[s] : f \in Source \cup Outputs(Ever)}

\* What s has to read, and what of that there is.
Wanted(s) == Operands[s] \ Outputs(skipped)
Needs(s) == {f \in Wanted(s) : Exists(f)}

\* Only links are left to do.
LinksOnly == \A j \in at..Len(Schedule) : Kind[Schedule[j]] = "link"

\* The command line of s: everything, or after filterMissingArchives less.
ArgsOf(s) ==
  \/ args[s] = Wanted(s)
  \/ /\ Kind[s] = "link" /\ LinksOnly
     /\ Needs(s) \subseteq args[s] /\ args[s] \subseteq Wanted(s)

\* The step at hand and the command lines.
Runs ==
  /\ pc = "tool" => /\ Current \notin skipped
                    /\ read = [f \in args[Current] |-> content[f]]
                    /\ Kind[Current] = "link" => args[Current] = Needs(Current)
  /\ pc \in {"step", "tool"} => ok /\ \A s \in Step : ArgsOf(s)
  /\ pc # "idle" => ~done
  /\ pc # "idle" \/ done => wasmSkip \subseteq skipped

\* The step at hand and its place.
LEMMA AtHand ==
  ASSUME Assumed, Types, pc = "tool" \/ AtStep
  PROVE  /\ at \in 1..Len(Schedule) /\ Current \in Step /\ Current \in Live
         /\ Out[Current] \notin Operands[Current]
         /\ \A j \in 1..at : /\ Schedule[j] \in Step
                             /\ Out[Current] \notin Operands[Schedule[j]]
         /\ Kind[Current] = "link" => LinksOnly
         /\ LinksOnly => Kind[Current] = "link"
<1>1. at \in 1..Len(Schedule)
  BY ScheduleLength DEF Types, AtStep
<1>2. Current \in Step /\ Current \in Live
  BY <1>1, ScheduleLists DEF Current
<1>3. \A s, t \in Step : Out[t] \in Operands[s] => Rank(Kind[t]) < Rank(Kind[s])
  BY DEF Assumed, InPhases
<1>4. \A s \in Step : Rank(Kind[s]) \in Nat
  BY Steps DEF Rank
<1>5. \A j \in 1..at : /\ Schedule[j] \in Step
                       /\ Rank(Kind[Schedule[j]]) <= Rank(Kind[Current])
  BY <1>1, ScheduleLists DEF Current
<1>6. \A j \in at..Len(Schedule) : /\ Schedule[j] \in Step
                                   /\ Rank(Kind[Current]) <= Rank(Kind[Schedule[j]])
  BY <1>1, ScheduleLists DEF Current
<1>7. \A s \in Step : Rank(Kind[s]) = 2 <=> Kind[s] = "link"
  BY Steps DEF Rank
<1>8. Kind[Current] = "link" => LinksOnly
  <2>1. \A s \in Step : Rank(Kind[s]) <= 2
    BY Steps DEF Rank
  <2> QED BY <1>2, <1>4, <1>6, <1>7, <2>1 DEF LinksOnly
<1>9. LinksOnly => Kind[Current] = "link"
  BY <1>1, ScheduleLength DEF LinksOnly, Current
<1>10. \A j \in 1..at : Out[Current] \notin Operands[Schedule[j]]
  BY <1>2, <1>3, <1>4, <1>5
<1>11. Out[Current] \notin Operands[Current]
  BY <1>2, <1>3, <1>4
<1> QED BY <1>1, <1>2, <1>5, <1>8, <1>9, <1>10, <1>11

\* A file that a tool writes or removes is no operand of a filtered link.
LEMMA ArgsKept ==
  ASSUME Assumed, Types, pc = "tool" \/ AtStep,
         NEW s \in Step, ArgsOf(s), args'[s] = args[s], skipped' = skipped,
         UNCHANGED <<project, plan>>, at' \in {at, at + 1},
         \A f \in File : f # Out[Current] => content'[f] = content[f]
  PROVE  ArgsOf(s)'
<1>1. Wanted(s)' = Wanted(s)
  BY DEF Wanted
<1>2. CASE args[s] = Wanted(s)
  BY <1>1, <1>2 DEF ArgsOf
<1>3. CASE args[s] # Wanted(s)
  <2>1. /\ Kind[s] = "link" /\ LinksOnly
        /\ Needs(s) \subseteq args[s] /\ args[s] \subseteq Wanted(s)
    BY <1>3 DEF ArgsOf
  <2>2. Kind[Current] = "link" /\ Current \in Step /\ at \in 1..Len(Schedule)
    BY <2>1, AtHand
  <2>3. Out[Current] \notin Operands[s]
    BY <2>1, <2>2 DEF Assumed, InPhases, Rank
  <2>4. Operands[s] \subseteq File
    BY Steps
  <2>5. Needs(s)' = Needs(s)
    BY <1>1, <2>3, <2>4 DEF Needs, Exists, Wanted
  <2>6. Schedule' = Schedule
    BY SameSchedule
  <2>7. LinksOnly'
    <3>1. \A j \in at'..Len(Schedule) : j \in at..Len(Schedule)
      BY <2>2, ScheduleLength
    <3>2. \A j \in at'..Len(Schedule) : Kind[Schedule[j]] = "link"
      BY <3>1, <2>1 DEF LinksOnly
    <3> QED BY <3>2, <2>6 DEF LinksOnly
  <2> QED BY <1>1, <2>1, <2>5, <2>7 DEF ArgsOf
<1> QED BY <1>2, <1>3

\* Every step keeps Runs.
LEMMA RunsStep == ASSUME Assumed, Types, Runs, [Next]_vars PROVE Runs'
<1> USE ScheduleLength
<1>1. ASSUME pc' = "idle", ~done' PROVE Runs'
  BY <1>1 DEF Runs
<1>2. CASE UNCHANGED vars
  <2>1. /\ UNCHANGED <<project, content, plan, wasmSkip, pc, at, args, skipped, read, ok, done>>
    BY <1>2 DEF vars, disk, process
  <2>2. Schedule' = Schedule /\ Current' = Current /\ LinksOnly' = LinksOnly
    BY <2>1, SameSchedule DEF Current, LinksOnly
  <2>3. \A s \in Step : ArgsOf(s)' <=> ArgsOf(s)
    BY <2>1, <2>2 DEF ArgsOf, Wanted, Needs, Exists
  <2>4. Needs(Current)' = Needs(Current)
    BY <2>1, <2>2 DEF Needs, Wanted, Exists
  <2> QED BY <2>1, <2>2, <2>3, <2>4 DEF Runs
<1>3. ASSUME NEW f \in Source, NEW v \in Version, Edit(f, v) PROVE Runs'
  BY <1>3, <1>1 DEF Edit, process
<1>4. ASSUME NEW p \in project.plans, GenerateBuild(p) PROVE Runs'
  BY <1>4, <1>1 DEF GenerateBuild, process
<1>5. ASSUME NEW c \in [flags : project.flags, target : Target, noCache : BOOLEAN], Start(c)
      PROVE  Runs'
  <2>1. /\ skipped' = wasmSkip /\ args' = Scrub(Operands, wasmSkip)
        /\ wasmSkip' = wasmSkip
        /\ pc' = "step" /\ ok' = TRUE /\ done' = FALSE
    BY <1>5 DEF Start, disk
  <2>2. \A s \in Step : args'[s] = Wanted(s)'
    BY <2>1 DEF Scrub, Wanted
  <2>3. \A s \in Step : ArgsOf(s)'
    BY <2>2 DEF ArgsOf
  <2> QED BY <2>1, <2>3 DEF Runs
<1>6. CASE Pass
  <2>1. /\ AtStep /\ pc = "step" /\ at' = at + 1
        /\ UNCHANGED <<project, content, plan, wasmSkip, pc, args, skipped, read, ok, done>>
    BY <1>6 DEF Pass, AtStep, disk
  <2>2. \A s \in Step : ArgsOf(s)
    BY <2>1 DEF Runs
  <2>3. \A s \in Step : ArgsOf(s)'
    BY <2>1, <2>2, ArgsKept
  <2> QED BY <2>1, <2>3 DEF Runs
<1>7. CASE Launch
  <2>0. PICK s : s = Current
    OBVIOUS
  <2>1. /\ AtStep /\ pc = "step" /\ s \notin skipped
        /\ args' = [args EXCEPT ![s] = Filter(s)]
        /\ read' = Input(s, Filter(s))
        /\ \/ Kind[s] = "archive" /\ content' = [content EXCEPT ![Out[s]] = Absent]
           \/ Kind[s] # "archive" /\ content' = content
        /\ pc' = "tool"
        /\ UNCHANGED <<project, plan, wasmSkip, at, skipped, ok, done>>
    BY <1>7, <2>0 DEF Launch, AtStep
  <2>2. /\ s \in Step /\ Out[s] \notin Operands[s] /\ at \in 1..Len(Schedule)
        /\ Kind[s] = "link" => LinksOnly
    BY <2>0, <2>1, AtHand
  <2>3. Schedule' = Schedule /\ Current' = s
    BY <2>0, <2>1, SameSchedule DEF Current
  <2>4. ok /\ \A t \in Step : ArgsOf(t)
    BY <2>1 DEF Runs
  <2>5. /\ args'[s] = Filter(s) /\ \A t \in Step : t # s => args'[t] = args[t]
        /\ args[s] \subseteq Wanted(s) /\ Needs(s) \subseteq args[s]
    <3>1. args[s] \subseteq Wanted(s) /\ Needs(s) \subseteq args[s]
      BY <2>2, <2>4 DEF ArgsOf, Needs
    <3>2. args = [t \in Step |-> args[t]]
      BY DEF Types
    <3> QED BY <2>1, <2>2, <3>1, <3>2
  <2>6. \A f \in File : f # Out[s] => content'[f] = content[f]
    BY <2>1, Steps DEF Types
  <2>7. Wanted(s)' = Wanted(s) /\ Needs(s)' = Needs(s)
    <3>1. Operands[s] \subseteq File /\ Wanted(s)' = Wanted(s)
      BY <2>1, <2>2, Steps DEF Wanted
    <3> QED BY <2>2, <2>6, <3>1 DEF Needs, Exists, Wanted
  <2>8. \A t \in Step : t # s => ArgsOf(t)'
    BY <2>0, <2>1, <2>4, <2>5, <2>6, ArgsKept
  <2>9. Filter(s) = IF Kind[s] = "link" THEN Needs(s) ELSE args[s]
    BY <2>5 DEF Filter, Needs
  <2>10. ArgsOf(s)'
    <3>1. CASE Kind[s] = "link"
      <4>1. LinksOnly'
        BY <2>1, <2>2, <2>3, <3>1 DEF LinksOnly
      <4>2. args'[s] = Needs(s)' /\ args'[s] \subseteq Wanted(s)'
        BY <2>5, <2>7, <2>9, <3>1 DEF Needs
      <4> QED BY <3>1, <4>1, <4>2 DEF ArgsOf
    <3>2. CASE Kind[s] # "link"
      <4>1. args[s] = Wanted(s)
        BY <2>2, <2>4, <3>2 DEF ArgsOf
      <4> QED BY <2>5, <2>7, <2>9, <3>2, <4>1 DEF ArgsOf
    <3> QED BY <3>1, <3>2
  <2>11. read' = [f \in args'[s] |-> content'[f]]
    <3>1. Headers[s] = {}
      BY <2>2 DEF Assumed
    <3>2. read' = [f \in Filter(s) |-> content[f]]
      BY <2>1, <3>1 DEF Input
    <3>3. Filter(s) \subseteq Operands[s] /\ Operands[s] \subseteq File
      BY <2>2, <2>5, <2>9, Steps DEF Wanted, Needs
    <3>4. \A f \in Filter(s) : content'[f] = content[f]
      BY <2>2, <2>6, <3>3
    <3> QED BY <2>5, <3>2, <3>4
  <2> QED BY <2>1, <2>3, <2>4, <2>5, <2>7, <2>8, <2>9, <2>10, <2>11 DEF Runs
<1>8. CASE Succeed
  <2>1. /\ pc = "tool" /\ Advance
        /\ UNCHANGED <<project, plan, wasmSkip, args, skipped, ok, done>>
        /\ content' = [content EXCEPT ![Out[Current]] = Product(Current, read)]
    BY <1>8 DEF Succeed
  <2>2. \A s \in Step : ArgsOf(s)
    BY <2>1 DEF Runs
  <2>3. \A f \in File : f # Out[Current] => content'[f] = content[f]
    BY <2>1, Steps DEF Types
  <2>4. \A s \in Step : ArgsOf(s)'
    BY <2>1, <2>2, <2>3, ArgsKept DEF Advance
  <2> QED BY <2>1, <2>4 DEF Runs, Advance
<1>9. CASE Retry
  <2>1. /\ pc = "tool" /\ pc' = "tool" /\ Kind[Current] = "compile"
        /\ read' = Input(Current, args[Current])
        /\ UNCHANGED <<project, content, plan, wasmSkip, at, args, skipped, ok, done>>
    BY <1>9 DEF Retry, disk
  <2>2. Schedule' = Schedule /\ Current' = Current /\ Current \in Step
    BY <2>1, SameSchedule, AtHand DEF Current
  <2>3. read' = [f \in args[Current] |-> content[f]]
    BY <2>1, <2>2 DEF Input, Assumed
  <2>4. \A s \in Step : ArgsOf(s)
    BY <2>1 DEF Runs
  <2>5. \A s \in Step : ArgsOf(s)'
    BY <2>1, <2>4, ArgsKept
  <2> QED BY <2>1, <2>2, <2>3, <2>5 DEF Runs
<1>10. CASE SkipStep
  <2> DEFINE s == Current
  <2>1. /\ pc = "tool" /\ Kind[s] = "compile"
        /\ skipped' = skipped \cup {s} /\ args' = Scrub(args, {s})
        /\ wasmSkip' = wasmSkip \cup ({s} \ Injected)
        /\ Advance /\ UNCHANGED <<project, content, plan, ok, done>>
    BY <1>10 DEF SkipStep
  <2>2. s \in Step /\ ~LinksOnly
    BY <2>1, AtHand
  <2>3. \A t \in Step : args[t] = Wanted(t)
    BY <2>1, <2>2 DEF Runs, ArgsOf
  <2>4. \A t \in Step : args'[t] = args[t] \ {Out[s]}
    BY <2>1 DEF Scrub, Outputs
  <2>5. Outputs(skipped') = Outputs(skipped) \cup {Out[s]}
    BY <2>1 DEF Outputs
  <2>6. \A t \in Step : args'[t] = Wanted(t)'
    BY <2>3, <2>4, <2>5 DEF Wanted
  <2>7. \A t \in Step : ArgsOf(t)'
    BY <2>6 DEF ArgsOf
  <2> HIDE DEF s
  <2> QED BY <2>1, <2>7 DEF Runs, Advance
<1>11. CASE Fail
  BY <1>11 DEF Fail, Runs
<1>12. CASE AllStepsDone
  BY <1>12 DEF AllStepsDone, Runs, disk
<1>13. CASE Truncate
  BY <1>13 DEF Truncate, Runs
<1>14. CASE Write
  BY <1>14 DEF Write, Exit, Runs
<1>15. CASE LinkLibrary
  BY <1>15 DEF LinkLibrary, Exit, Runs
<1>16. CASE LinkLibraryFails
  BY <1>16 DEF LinkLibraryFails, Exit, Runs, disk
<1>17. CASE Crash
  BY <1>17 DEF Crash, Exit, Runs, disk
<1> QED BY <1>2, <1>3, <1>4, <1>5, <1>6, <1>7, <1>8, <1>9, <1>10, <1>11, <1>12, <1>13,
           <1>14, <1>15, <1>16, <1>17 DEF Next, Work

\* What is known of an output: what it was made of, and that a file that is
\* not newer still has the content it was made of, unless it is gone.
Recorded(s) ==
  LET c == content[Out[s]]
  IN  /\ c = [config |-> c.config, from |-> [f \in DOMAIN c.from |-> c.from[f]]]
      /\ DOMAIN c.from \subseteq Whole(s)
      /\ \A f \in DOMAIN c.from :
           <<f, Out[s]>> \notin newer => content[f] \in {c.from[f], Absent}

\* The files.
Disk ==
  /\ \A f \in External \cup Outputs(Step \ Ever) : content[f] = Absent
  /\ \A f \in Source : content[f] # Absent
  /\ \A s \in Step : Exists(Out[s]) => Recorded(s)
  /\ \A n \in newer : Exists(n[1])

\* The steps of this build are among those of any.
LEMMA EverSteps == ASSUME Types PROVE Live \subseteq Ever /\ Ever \subseteq Step
<1>1. plan \in project.plans
  BY DEF Types
<1>2. Live \subseteq Ever
  BY <1>1 DEF Live, Ever
<1>3. ASSUME NEW p \in project.plans PROVE p.steps \subseteq Step
  BY ConstantsAssumption DEF ConstantsAssumption, Types
<1>4. Injected \subseteq Step
  BY Projects DEF Compiles
<1> QED BY <1>2, <1>3, <1>4 DEF Ever

\* The files stay as they are, the artifact apart.
LEMMA DiskSame ==
  ASSUME Types, Disk, UNCHANGED <<project, newer>>,
         \A f \in File : content'[f] = content[f]
  PROVE  Disk'
<1>1. Ever' = Ever /\ \A s \in Step : Whole(s)' = Whole(s)
  BY DEF Ever, Injected, Whole
<1>2. \A s \in Step : Out[s] \in File /\ Operands[s] \subseteq File
  BY Steps
<1>3. \A f \in External \cup Outputs(Step \ Ever) \cup Source : f \in File
  BY <1>2 DEF File, Outputs
<1>4. \A n \in newer : n[1] \in File
  BY DEF Types
<1>5. ASSUME NEW s \in Step, Exists(Out[s])' PROVE Recorded(s)'
  <2>1. Recorded(s) /\ content'[Out[s]] = content[Out[s]]
    BY <1>2, <1>5 DEF Disk, Exists
  <2>2. \A f \in DOMAIN content[Out[s]].from : f \in File /\ content'[f] = content[f]
    BY <1>2, <2>1 DEF Recorded, Whole
  <2> QED BY <1>1, <2>1, <2>2 DEF Recorded
<1> QED BY <1>1, <1>3, <1>4, <1>5 DEF Disk, Exists

\* A file written anew is newer than what is made of it, and holds what its step has read.
LEMMA DiskWritten ==
  ASSUME Assumed, Types, Disk, UNCHANGED project,
         NEW g \in File, NEW c, content' = [content EXCEPT ![g] = c], newer' = Touch(g),
         c # Absent, g \in Source \cup Outputs(Ever),
         \A s \in Step : Out[s] = g =>
           /\ c = [config |-> c.config, from |-> [f \in DOMAIN c.from |-> c.from[f]]]
           /\ DOMAIN c.from \subseteq Whole(s)
           /\ \A f \in DOMAIN c.from : f # g /\ content[f] = c.from[f]
  PROVE  Disk'
<1>1. Ever' = Ever /\ \A s \in Step : Whole(s)' = Whole(s)
  BY DEF Ever, Injected, Whole
<1>2. \A s \in Step : Out[s] \in File /\ Operands[s] \subseteq File
  BY Steps
<1>3. content'[g] = c /\ \A f \in File : f # g => content'[f] = content[f]
  BY Steps DEF Types
<1>4. ASSUME NEW f \in External \cup Outputs(Step \ Ever) PROVE content'[f] = Absent
  <2>1. f \in File
    BY <1>2 DEF File, Outputs
  <2>2. f # g
    <3>1. \A s \in Step, t \in Ever : Out[s] = Out[t] /\ t \in Step => s = t
      BY DEF Assumed, OwnOutputs
    <3>2. Ever \subseteq Step
      BY EverSteps
    <3> QED BY <3>1, <3>2, ConstantsAssumption DEF ConstantsAssumption, Outputs
  <2> QED BY <1>3, <2>1, <2>2 DEF Disk
<1>5. \A f \in Source : content'[f] # Absent
  BY <1>3 DEF Disk, File
<1>6. ASSUME NEW s \in Step, Exists(Out[s])' PROVE Recorded(s)'
  <2>1. CASE Out[s] = g
    <3>1. /\ c = [config |-> c.config, from |-> [f \in DOMAIN c.from |-> c.from[f]]]
          /\ DOMAIN c.from \subseteq Whole(s)
          /\ \A f \in DOMAIN c.from : f # g /\ content[f] = c.from[f]
      BY <2>1
    <3>2. \A f \in DOMAIN c.from : content'[f] = c.from[f]
      BY <1>2, <1>3, <3>1 DEF Whole
    <3> QED BY <1>1, <1>3, <2>1, <3>1, <3>2 DEF Recorded
  <2>2. CASE Out[s] # g
    <3>1. content'[Out[s]] = content[Out[s]] /\ Recorded(s) /\ content[Out[s]] # Absent
      BY <1>2, <1>3, <1>6, <2>2 DEF Disk, Exists
    <3>2. ASSUME NEW f \in DOMAIN content[Out[s]].from, <<f, Out[s]>> \notin newer'
          PROVE  content'[f] \in {content[Out[s]].from[f], Absent}
      <4>1. f \in Operands[s] /\ f \in File
        BY <1>2, <3>1 DEF Recorded, Whole
      <4>2. f # g
        <5> SUFFICES ASSUME f = g PROVE FALSE
          OBVIOUS
        <5>1. Out[s] \in MadeFrom(f)
          BY <3>1, <4>1 DEF MadeFrom
        <5>2. <<f, Out[s]>> \in {f} \X MadeFrom(f)
          BY <5>1
        <5> QED BY <5>2, <3>2 DEF Touch
      <4>3. <<f, Out[s]>> \notin newer
        <5>1. <<f, Out[s]>>[2] # g
          BY <2>2
        <5> QED BY <5>1, <3>2 DEF Touch
      <4> QED BY <1>3, <3>1, <4>1, <4>2, <4>3 DEF Recorded
    <3> QED BY <1>1, <3>1, <3>2 DEF Recorded
  <2> QED BY <2>1, <2>2
<1>7. ASSUME NEW n \in newer' PROVE content'[n[1]] # Absent
  <2>1. n[1] = g \/ n \in newer
    BY <1>7 DEF Touch
  <2>2. n \in newer => n[1] \in File
    BY DEF Types
  <2> QED BY <1>3, <2>1, <2>2 DEF Disk, Exists
<1> QED BY <1>1, <1>4, <1>5, <1>6, <1>7 DEF Disk, Exists

\* An output removed leaves what was made of it with nothing to compare.
LEMMA DiskRemoved ==
  ASSUME Assumed, Types, Disk, UNCHANGED project,
         NEW r \in Step, content' = [content EXCEPT ![Out[r]] = Absent],
         newer' = Forget(Out[r])
  PROVE  Disk'
<1>1. Ever' = Ever /\ \A s \in Step : Whole(s)' = Whole(s)
  BY DEF Ever, Injected, Whole
<1>2. \A s \in Step : Out[s] \in File /\ Operands[s] \subseteq File
  BY Steps
<1>3. content'[Out[r]] = Absent /\ \A f \in File : f # Out[r] => content'[f] = content[f]
  BY Steps DEF Types
<1>4. \A f \in External \cup Outputs(Step \ Ever) \cup Source : f \in File
  BY <1>2 DEF File, Outputs
<1>5. \A f \in Source : f # Out[r]
  BY Steps
<1>6. ASSUME NEW s \in Step, Exists(Out[s])' PROVE Recorded(s)'
  <2>1. Out[s] # Out[r] /\ content'[Out[s]] = content[Out[s]] /\ Recorded(s)
    BY <1>2, <1>3, <1>6 DEF Disk, Exists
  <2>2. ASSUME NEW f \in DOMAIN content[Out[s]].from, <<f, Out[s]>> \notin newer'
        PROVE  content'[f] \in {content[Out[s]].from[f], Absent}
    <3>1. f \in File
      BY <1>2, <2>1 DEF Recorded, Whole
    <3>2. CASE f = Out[r]
      BY <1>3, <3>2
    <3>3. CASE f # Out[r]
      <4>1. <<f, Out[s]>>[1] # Out[r] /\ <<f, Out[s]>>[2] # Out[r]
        BY <2>1, <3>3
      <4>2. <<f, Out[s]>> \notin newer
        BY <2>2, <4>1 DEF Forget
      <4> QED BY <1>3, <2>1, <3>1, <3>3, <4>2 DEF Recorded
    <3> QED BY <3>2, <3>3
  <2> QED BY <1>1, <2>1, <2>2 DEF Recorded
<1>7. \A n \in newer' : content'[n[1]] # Absent
  <2>1. \A n \in newer' : n \in newer /\ n[1] # Out[r]
    BY DEF Forget
  <2>2. \A n \in newer' : n[1] \in File
    BY <2>1 DEF Types
  <2> QED BY <1>3, <2>1, <2>2 DEF Disk, Exists
<1> QED BY <1>1, <1>3, <1>4, <1>5, <1>6, <1>7 DEF Disk, Exists

\* Every step keeps Disk.
LEMMA DiskStep == ASSUME Assumed, Types, Runs, Disk, [Next]_vars PROVE Disk'
<1>1. ASSUME UNCHANGED <<project, content, newer>> PROVE Disk'
  BY <1>1, DiskSame
<1>2. CASE UNCHANGED vars
  BY <1>1, <1>2 DEF vars, disk
<1>3. ASSUME NEW f \in Source, NEW v \in Version, Edit(f, v) PROVE Disk'
  <2>1. f \in File /\ v # Absent /\ \A s \in Step : Out[s] # f
    BY Steps
  <2> QED BY <1>3, <2>1, DiskWritten DEF Edit
<1>4. ASSUME NEW p \in project.plans, GenerateBuild(p) PROVE Disk'
  BY <1>1, <1>4 DEF GenerateBuild
<1>5. ASSUME NEW c \in [flags : project.flags, target : Target, noCache : BOOLEAN], Start(c)
      PROVE  Disk'
  BY <1>1, <1>5 DEF Start, disk
<1>6. CASE Pass
  BY <1>1, <1>6 DEF Pass, disk
<1>7. CASE Launch
  <2>1. Current \in Step
    BY <1>7, AtHand DEF Launch
  <2>2. CASE Kind[Current] = "archive"
    BY <1>7, <2>1, <2>2, DiskRemoved DEF Launch
  <2>3. CASE Kind[Current] # "archive"
    BY <1>1, <1>7, <2>3 DEF Launch
  <2> QED BY <2>2, <2>3
<1>8. CASE Succeed
  <2>0. PICK s : s = Current
    OBVIOUS
  <2> DEFINE c == Product(s, read)
  <2>1. /\ pc = "tool" /\ project' = project /\ newer' = Touch(Out[s])
        /\ \A f \in DOMAIN read : read[f] # Absent
        /\ content' = [content EXCEPT ![Out[s]] = c]
    BY <1>8, <2>0 DEF Succeed
  <2>2. /\ s \in Step /\ s \in Live /\ Out[s] \notin Operands[s] /\ Out[s] \in File
    BY <2>0, <2>1, AtHand, Steps
  <2>3. read = [f \in args[s] |-> content[f]] /\ args[s] \subseteq Operands[s]
    <3>1. ArgsOf(s) /\ read = [f \in args[s] |-> content[f]]
      BY <2>0, <2>1, <2>2 DEF Runs
    <3> QED BY <3>1 DEF ArgsOf, Wanted
  <2>4. s \in Ever
    BY <2>2, EverSteps
  <2>5. /\ c.from = read
        /\ c = [config |-> c.config, from |-> [f \in DOMAIN c.from |-> c.from[f]]]
    BY <2>3 DEF Product
  <2>6. DOMAIN c.from \subseteq Whole(s)
    <3> SUFFICES ASSUME NEW f \in args[s] PROVE f \in Source \cup Outputs(Ever)
      BY <2>3, <2>5 DEF Whole
    <3>1. content[f] # Absent /\ f \in File
      BY <2>1, <2>2, <2>3, Steps
    <3>2. f \notin External \cup Outputs(Step \ Ever)
      BY <3>1 DEF Disk
    <3> QED BY <3>1, <3>2 DEF File, Outputs
  <2>7. \A f \in DOMAIN c.from : f # Out[s] /\ content[f] = c.from[f]
    BY <2>2, <2>3, <2>5
  <2>8. c # Absent
    BY DEF Product, Assumed, Markers
  <2>9. \A t \in Step : Out[t] = Out[s] => t = s
    BY <2>2 DEF Assumed, OwnOutputs
  <2>10. Out[s] \in Outputs(Ever)
    BY <2>4 DEF Outputs
  <2>11. \A t \in Step : Out[t] = Out[s] =>
            /\ c = [config |-> c.config, from |-> [f \in DOMAIN c.from |-> c.from[f]]]
            /\ DOMAIN c.from \subseteq Whole(t)
            /\ \A f \in DOMAIN c.from : f # Out[s] /\ content[f] = c.from[f]
    <3> HIDE DEF c
    <3> QED BY <2>5, <2>6, <2>7, <2>9
  <2> HIDE DEF c
  <2> QED BY <2>1, <2>2, <2>8, <2>10, <2>11, DiskWritten
<1>9. CASE Retry
  BY <1>1, <1>9 DEF Retry, disk
<1>10. CASE SkipStep
  BY <1>1, <1>10 DEF SkipStep
<1>11. CASE Fail
  <2>1. Current \in Step
    BY <1>11, AtHand DEF Fail
  <2>2. CASE UNCHANGED <<content, newer>>
    BY <1>1, <1>11, <2>2 DEF Fail
  <2>3. CASE ~UNCHANGED <<content, newer>>
    BY <1>11, <2>1, <2>3, DiskRemoved DEF Fail
  <2> QED BY <2>2, <2>3
<1>12. CASE AllStepsDone
  BY <1>1, <1>12 DEF AllStepsDone, disk
<1>13. CASE Truncate
  BY <1>1, <1>13 DEF Truncate
<1>14. CASE Write
  BY <1>1, <1>14 DEF Write
<1>15. CASE LinkLibrary
  <2>1. \A f \in File : content'[f] = content[f]
    BY <1>15, Steps DEF LinkLibrary, Types
  <2> QED BY <1>15, <2>1, DiskSame DEF LinkLibrary
<1>16. CASE LinkLibraryFails
  BY <1>1, <1>16 DEF LinkLibraryFails, disk
<1>17. CASE Crash
  BY <1>1, <1>17 DEF Crash, disk
<1> QED BY <1>2, <1>3, <1>4, <1>5, <1>6, <1>7, <1>8, <1>9, <1>10, <1>11, <1>12, <1>13,
           <1>14, <1>15, <1>16, <1>17 DEF Next, Work

\* The entries of the running build, or those the next one will load.
Held == IF pc \in {"step", "tool", "save", "write"} THEN entries
        ELSE LoadBuildCache(cfg.target)

\* s has been made of what it has to read, as that is now,
UpToDate(s) ==
  content[Out[s]] = [config |-> Config(s), from |-> [f \in Needs(s) |-> content[f]]]

\* and a build that knows the entries known will find it so.
Good(s, known) ==
  /\ UpToDate(s)
  /\ \A f \in Wanted(s) : <<f, Out[s]>> \notin newer
  /\ Key(s) \in DOMAIN known \/ HasInputFiles(s, Wanted(s))

\* The steps behind the one at hand, and those of a build that has succeeded.
Passed ==
  /\ pc # "idle" /\ ok =>
       \A j \in 1..at - 1 : \/ Schedule[j] \in skipped
                            \/ pc = "tool" /\ Schedule[j] = Current
                            \/ Good(Schedule[j], Held)
  /\ pc \in {"save", "write", "link"} /\ ok => at > Len(Schedule)
  /\ pc = "link" => ok
  /\ done => \A s \in Live \ skipped : Good(s, Held)

\* In a project whose builds are not killed the entries know every output.
Knows(known) ==
  \A s \in Step : Exists(Out[s]) =>
    /\ Key(s) \in DOMAIN known
    /\ known[Key(s)] = <<content[Out[s]].config, DOMAIN content[Out[s]].from>>

\* So does the running build, and so will the next.
Known == ~project.crashes => Knows(Held)

\* In one whose builds are, all that outputs and entries can say is the same.
Says(known) ==
  \A s \in Step : Key(s) \in DOMAIN known => known[Key(s)] = <<Config(s), Whole(s)>>

\* Outputs and entries of such a project.
Killable ==
  project.crashes =>
    /\ wasmSkip = {} /\ skipped = {}
    /\ \A s \in Step : Exists(Out[s]) => /\ content[Out[s]].config = Config(s)
                                         /\ DOMAIN content[Out[s]].from = Whole(s)
    /\ Says(entries)
    /\ cacheFile \notin {Absent, Corrupt} => Says(cacheFile.entries)

\* Runs to Killable depend on one another, step by step.
Inv == Runs /\ Disk /\ Passed /\ Known /\ Killable

\* A step that is ever captured is, if one that is reads its output.
LEMMA EverLive ==
  ASSUME Assumed, Types, NEW s \in Live, NEW t \in Ever, Out[t] \in Operands[s]
  PROVE  t \in Live
<1>1. CASE t \in Injected
  BY <1>1 DEF Live
<1>2. CASE t \notin Injected
  <2>1. PICK r \in project.plans : t \in r.steps
    BY <1>2 DEF Ever
  <2>2. Steady(project) /\ plan \in project.plans /\ s \in plan.steps \cup project.bridge
    BY DEF Assumed, Types, Live, Injected
  <2>3. t \in plan.steps \cup project.bridge
    BY <2>1, <2>2 DEF Steady
  <2> QED BY <2>3 DEF Live, Injected
<1> QED BY <1>1, <1>2

\* What the step at hand wants is there.
LEMMA NeedsWhole ==
  ASSUME Assumed, Types, Inv, pc = "tool" \/ AtStep
  PROVE  Needs(Current) = Whole(Current) \ Outputs(skipped)
<1>0. PICK s : s = Current
  OBVIOUS
<1>1. /\ at \in 1..Len(Schedule) /\ s \in Step /\ s \in Live
      /\ ok /\ pc # "idle"
  BY <1>0, AtHand DEF Inv, Runs, AtStep
<1>2. Operands[s] \subseteq File
  BY <1>1, Steps
<1>3. ASSUME NEW f \in Needs(s) PROVE f \in Whole(s) \ Outputs(skipped)
  <2>1. /\ f \in Operands[s] /\ f \notin Outputs(skipped) /\ content[f] # Absent
        /\ f \in File
    BY <1>2, <1>3 DEF Needs, Wanted, Exists
  <2>2. f \notin External \cup Outputs(Step \ Ever)
    BY <2>1 DEF Inv, Disk
  <2> QED BY <2>1, <2>2 DEF Whole, File, Outputs
<1>4. ASSUME NEW f \in Whole(s) \ Outputs(skipped) PROVE f \in Needs(s)
  <2>1. f \in Operands[s] /\ f \notin Outputs(skipped) /\ f \in Source \cup Outputs(Ever)
    BY <1>4 DEF Whole
  <2>2. CASE f \in Source
    BY <2>1, <2>2 DEF Needs, Wanted, Exists, Inv, Disk
  <2>3. CASE f \in Outputs(Ever)
    <3>1. PICK t \in Ever : f = Out[t]
      BY <2>3 DEF Outputs
    <3>2. t \in Step /\ t \notin skipped
      BY <2>1, <3>1, EverSteps DEF Outputs
    <3>3. t \in Live
      BY <1>1, <2>1, <3>1, EverLive
    <3>4. PICK j \in 1..Len(Schedule) : Schedule[j] = t
      BY <3>2, <3>3, ScheduleLists
    <3>5. Rank(Kind[t]) < Rank(Kind[s])
      BY <1>1, <2>1, <3>1, <3>2 DEF Assumed, InPhases
    <3>6. Rank(Kind[t]) \in Nat /\ Rank(Kind[s]) \in Nat
      BY <1>1, <3>2, Steps DEF Rank
    <3>7. ~(at <= j) /\ t # s
      BY <1>0, <1>1, <3>4, <3>5, <3>6, ScheduleLists DEF Current
    <3>8. j \in 1..at - 1
      BY <1>1, <3>4, <3>7, ScheduleLength
    <3>9. Good(t, Held)
      BY <1>0, <1>1, <3>2, <3>4, <3>7, <3>8 DEF Inv, Passed
    <3>10. content[Out[t]] # Absent
      BY <3>9 DEF Good, UpToDate, Assumed, Markers
    <3> QED BY <2>1, <3>1, <3>10 DEF Needs, Wanted, Exists
  <2> QED BY <2>1, <2>2, <2>3
<1> QED BY <1>0, <1>3, <1>4

\* A step that the cache vouches for is good.
LEMMA CachedGood ==
  ASSUME Assumed, Types, Inv, AtStep, Cached(Current)
  PROVE  Good(Current, entries)
<1>0. PICK s : s = Current
  OBVIOUS
<1>1. s \in Step /\ IsCached(s, args[s], entries) /\ ArgsOf(s) /\ pc = "step"
  BY <1>0, AtHand DEF Inv, Runs, AtStep, Cached
<1>2. Needs(s) \subseteq args[s] /\ args[s] \subseteq Wanted(s)
  BY <1>1 DEF ArgsOf, Needs
<1> DEFINE c == content[Out[s]]
<1>3. /\ c # Absent
      /\ IF Key(s) \in DOMAIN entries THEN entries[Key(s)] = Hash(s, args[s])
                                      ELSE HasInputFiles(s, args[s])
      /\ \A f \in args[s] : <<f, Out[s]>> \notin newer
  BY <1>1 DEF IsCached, Assumed
<1>4. Recorded(s) /\ Exists(Out[s])
  BY <1>1, <1>3 DEF Inv, Disk, Exists
<1>5. Needs(s) = Whole(s) \ Outputs(skipped)
  BY <1>0, <1>1, NeedsWhole
<1>6. Held = entries
  BY <1>1 DEF Held
<1>7. c.config = Config(s) /\ DOMAIN c.from = Needs(s)
  <2>1. CASE ~project.crashes
    <3>1. entries[Key(s)] = <<c.config, DOMAIN c.from>> /\ Key(s) \in DOMAIN entries
      BY <1>1, <1>4, <1>6, <2>1 DEF Inv, Known, Knows
    <3>2. c.config = Config(s) /\ DOMAIN c.from = args[s]
      BY <1>3, <3>1 DEF Hash
    <3>3. args[s] \subseteq Whole(s) \ Outputs(skipped)
      BY <1>2, <1>4, <3>2 DEF Recorded, Wanted
    <3> QED BY <1>2, <1>5, <3>2, <3>3
  <2>2. CASE project.crashes
    <3>1. c.config = Config(s) /\ DOMAIN c.from = Whole(s) /\ skipped = {}
      BY <1>1, <1>4, <2>2 DEF Inv, Killable
    <3>2. Outputs(skipped) = {}
      BY <3>1 DEF Outputs
    <3> QED BY <1>5, <3>1, <3>2
  <2> QED BY <2>1, <2>2
<1>8. \A f \in Needs(s) : c.from[f] = content[f]
  <2> SUFFICES ASSUME NEW f \in Needs(s) PROVE c.from[f] = content[f]
    OBVIOUS
  <2>1. content[f] # Absent /\ <<f, Out[s]>> \notin newer
    BY <1>2, <1>3 DEF Needs, Exists
  <2> QED BY <1>4, <1>7, <2>1 DEF Recorded
<1>9. UpToDate(s)
  <2>1. c = [config |-> c.config, from |-> [f \in DOMAIN c.from |-> c.from[f]]]
    BY <1>4 DEF Recorded
  <2> HIDE DEF c
  <2>2. c = [config |-> Config(s), from |-> [f \in Needs(s) |-> content[f]]]
    BY <1>7, <1>8, <2>1
  <2> QED BY <2>2 DEF UpToDate, c
<1>10. \A f \in Wanted(s) : <<f, Out[s]>> \notin newer
  <2> SUFFICES ASSUME NEW f \in Wanted(s), <<f, Out[s]>> \in newer PROVE FALSE
    OBVIOUS
  <2>1. Exists(f)
    <3>1. <<f, Out[s]>>[1] = f
      OBVIOUS
    <3> QED BY <3>1 DEF Inv, Disk
  <2>2. f \in args[s]
    BY <1>2, <2>1 DEF Needs
  <2> QED BY <1>3, <2>2
<1>11. Key(s) \in DOMAIN entries \/ HasInputFiles(s, Wanted(s))
  BY <1>2, <1>3 DEF HasInputFiles
<1> QED BY <1>0, <1>9, <1>10, <1>11 DEF Good

\* A tool that succeeds has read all that its step needs.
LEMMA HasRead ==
  ASSUME Assumed, Types, Inv, pc = "tool", \A f \in DOMAIN read : read[f] # Absent
  PROVE  /\ args[Current] = Needs(Current)
         /\ read = [f \in Needs(Current) |-> content[f]]
<1>0. PICK s : s = Current
  OBVIOUS
<1>1. /\ s \in Step /\ ArgsOf(s) /\ read = [f \in args[s] |-> content[f]]
      /\ Kind[s] = "link" => args[s] = Needs(s)
  BY <1>0, AtHand DEF Inv, Runs
<1>2. CASE Kind[s] # "link"
  <2>1. args[s] = Wanted(s)
    BY <1>1, <1>2 DEF ArgsOf
  <2>2. \A f \in args[s] : content[f] # Absent
    BY <1>1
  <2>3. args[s] = Needs(s)
    BY <2>1, <2>2 DEF Needs, Exists
  <2> QED BY <1>0, <1>1, <2>3
<1> QED BY <1>0, <1>1, <1>2

\* The project never changes, and its steps keep their keys.
LEMMA ProjectSame == ASSUME [Next]_vars PROVE project' = project
BY DEF Next, Work, vars, disk, Edit, GenerateBuild, Start, Pass, Launch, Succeed, Retry,
       SkipStep, Fail, AllStepsDone, Truncate, Write, LinkLibrary, LinkLibraryFails, Crash

\* One numbering: keys, and what a step may have read, are the same for ever.
LEMMA KeySame ==
  ASSUME Assumed, Types, Types', project' = project, NEW s \in Step
  PROVE  Key(s)' = Key(s) /\ Whole(s)' = Whole(s)
<1>1. plan \in project.plans /\ plan' \in project.plans /\ Steady(project)
  BY DEF Types, Assumed
<1>2. plan'.ids = plan.ids
  BY <1>1 DEF Steady
<1> QED BY <1>2 DEF Key, Injected, Whole, Ever

\* A project that is killed has one configuration.
LEMMA ConfigSame ==
  ASSUME Assumed, Types, Types', project' = project, project.crashes, NEW s \in Step
  PROVE  Config(s)' = Config(s)
<1>1. /\ Steady(project) /\ \A t, u \in Target : t = u
      /\ cfg.flags \in project.flags /\ cfg'.flags \in project.flags
      /\ cfg.target \in Target /\ cfg'.target \in Target
  BY DEF Types, Assumed
<1>2. cfg'.flags = cfg.flags /\ cfg'.target = cfg.target
  BY <1>1 DEF Steady
<1> QED BY <1>2 DEF Config

\* The cache that a build loads is that of the only target.
LEMMA LoadSame ==
  ASSUME Assumed, Types, Types', cacheFile' = cacheFile
  PROVE  LoadBuildCache(cfg.target)' = LoadBuildCache(cfg.target)
<1>1. cfg.target \in Target /\ cfg'.target \in Target
  BY DEF Types
<1>2. cfg'.target = cfg.target
  BY <1>1 DEF Assumed
<1> QED BY <1>2 DEF LoadBuildCache

\* Only a tool that succeeds, and the end of a process that is killed, change
\* the entries.
LEMMA HeldSame ==
  ASSUME Assumed, Types, Types', [Next]_vars, ~Succeed, ~Crash
  PROVE  Held' = Held
<1>1. CASE UNCHANGED vars
  BY <1>1 DEF vars, disk, process, Held, LoadBuildCache
<1>2. ASSUME NEW f \in Source, NEW v \in Version, Edit(f, v) PROVE Held' = Held
  BY <1>2 DEF Edit, process, Held, LoadBuildCache
<1>3. ASSUME NEW p \in project.plans, GenerateBuild(p) PROVE Held' = Held
  BY <1>3 DEF GenerateBuild, process, Held, LoadBuildCache
<1>4. ASSUME NEW c \in [flags : project.flags, target : Target, noCache : BOOLEAN], Start(c)
      PROVE  Held' = Held
  <2>1. /\ pc = "idle" /\ pc' = "step" /\ cfg' = c /\ cacheFile' = cacheFile
        /\ entries' = LoadBuildCache(c.target)
    BY <1>4 DEF Start, disk
  <2>2. LoadBuildCache(c.target) = LoadBuildCache(cfg.target)'
    BY <2>1 DEF LoadBuildCache
  <2> QED BY <2>1, <2>2, LoadSame DEF Held
<1>5. CASE Write
  <2>1. /\ pc = "write" /\ pc' \in {"link", "idle"} /\ cfg' = cfg
        /\ cacheFile' = [target |-> cfg.target, entries |-> entries]
    BY <1>5 DEF Write, Exit
  <2>2. cacheFile' \notin {Absent, Corrupt}
    BY <2>1 DEF Assumed, Markers
  <2>3. LoadBuildCache(cfg.target)' = entries
    BY <2>1, <2>2 DEF LoadBuildCache
  <2> QED BY <2>1, <2>3 DEF Held
<1>6. CASE Pass \/ Launch \/ Retry \/ SkipStep \/ Fail \/ AllStepsDone \/ Truncate
  <2>1. /\ pc \in {"step", "tool", "save", "write"}
        /\ pc' \in {"step", "tool", "save", "write"}
        /\ entries' = entries
    BY <1>6 DEF Pass, Launch, Retry, SkipStep, Fail, AllStepsDone, Truncate, AtStep, Advance
  <2> QED BY <2>1 DEF Held
<1>7. CASE LinkLibrary \/ LinkLibraryFails
  <2>1. pc = "link" /\ pc' = "idle" /\ cfg' = cfg /\ cacheFile' = cacheFile
    BY <1>7 DEF LinkLibrary, LinkLibraryFails, Exit, disk
  <2> QED BY <2>1 DEF Held, LoadBuildCache
<1> QED BY <1>1, <1>2, <1>3, <1>4, <1>5, <1>6, <1>7 DEF Next, Work

\* Only a tool that succeeds makes an output anew.
LEMMA OutputsKept ==
  ASSUME Types, [Next]_vars, ~Succeed
  PROVE  \A s \in Step : content'[Out[s]] \in {content[Out[s]], Absent}
<1>0. \A s \in Step : Out[s] \in File /\ Out[s] \notin Source /\ Out[s] # Artifact
  BY Steps
<1>1. CASE UNCHANGED content
  BY <1>1
<1>2. ASSUME NEW f \in Source, NEW v \in Version, Edit(f, v)
      PROVE  \A s \in Step : content'[Out[s]] \in {content[Out[s]], Absent}
  BY <1>0, <1>2 DEF Edit, Types
<1>3. CASE Launch \/ Fail
  <2>1. \/ UNCHANGED content
        \/ content' = [content EXCEPT ![Out[Current]] = Absent]
    BY <1>3 DEF Launch, Fail
  <2> QED BY <1>0, <1>1, <2>1 DEF Types
<1>4. CASE LinkLibrary
  BY <1>0, <1>4 DEF LinkLibrary, Types
<1> QED BY <1>1, <1>2, <1>3, <1>4 DEF Next, Work, vars, disk, GenerateBuild, Start, Pass,
             Retry, SkipStep, AllStepsDone, Truncate, Write, LinkLibraryFails, Crash

\* What a tool that succeeds has made.
LEMMA Made ==
  ASSUME Assumed, Types, Inv, Succeed
  PROVE  /\ Current \in Step
         /\ content' = [content EXCEPT ![Out[Current]] =
                          [config |-> Config(Current),
                           from |-> [f \in Needs(Current) |-> content[f]]]]
         /\ \A t \in Step : t # Current => Out[t] # Out[Current]
         /\ entries' = Update(Current)
         /\ Update(Current)[Key(Current)] = <<Config(Current), Needs(Current)>>
<1>1. /\ pc = "tool"
      /\ content' = [content EXCEPT ![Out[Current]] = Product(Current, read)]
      /\ \A f \in DOMAIN read : read[f] # Absent
      /\ entries' = Update(Current)
  BY DEF Succeed
<1>2. Current \in Step
  BY <1>1, AtHand
<1>3. read = [f \in Needs(Current) |-> content[f]] /\ args[Current] = Needs(Current)
  BY <1>1, HasRead
<1>4. Update(Current)[Key(Current)] = <<Config(Current), Needs(Current)>>
  BY <1>3 DEF Update, Hash
<1> QED BY <1>1, <1>2, <1>3, <1>4 DEF Product, Assumed, OwnOutputs

\* Every step keeps Known.
LEMMA KnownStep == ASSUME Assumed, Types, Types', Inv, [Next]_vars PROVE Known'
<1>0. project' = project
  BY ProjectSame
<1> SUFFICES ASSUME ~project.crashes PROVE Knows(Held)'
  BY <1>0 DEF Known
<1>1. Knows(Held) /\ ~Crash
  BY DEF Inv, Known, Crash
<1>2. CASE ~Succeed
  <2>1. Held' = Held
    BY <1>1, <1>2, HeldSame
  <2>2. ASSUME NEW s \in Step, content'[Out[s]] # Absent
        PROVE  /\ Key(s)' \in DOMAIN Held
               /\ Held[Key(s)'] = <<content'[Out[s]].config, DOMAIN content'[Out[s]].from>>
    <3>1. content'[Out[s]] = content[Out[s]] /\ Exists(Out[s])
      BY <1>2, <2>2, OutputsKept DEF Exists
    <3>2. Key(s)' = Key(s)
      BY <1>0, KeySame
    <3> QED BY <1>1, <3>1, <3>2 DEF Knows
  <2> QED BY <2>1, <2>2 DEF Knows, Exists
<1>3. CASE Succeed
  <2>0. PICK s : s = Current
    OBVIOUS
  <2>1. /\ Held = entries /\ Held' = entries' /\ s \in Step
        /\ entries' = Update(s) /\ Update(s)[Key(s)] = <<Config(s), Needs(s)>>
        /\ content' = [content EXCEPT ![Out[s]] =
                         [config |-> Config(s), from |-> [f \in Needs(s) |-> content[f]]]]
        /\ \A t \in Step : t # s => Out[t] # Out[s]
    <3>1. Held = entries /\ Held' = entries'
      BY <1>3 DEF Succeed, Advance, Held
    <3> QED BY <1>3, <2>0, <3>1, Made
  <2>2. \A t \in Step : Key(t)' = Key(t)
    BY <1>0, KeySame
  <2>3. DOMAIN Update(s) = DOMAIN entries \cup {Key(s)}
    BY DEF Update
  <2>4. \A t \in Step : t # s => Key(t) # Key(s)
    BY DEF Key
  <2>5. \A t \in Step : t # s /\ Key(t) \in DOMAIN entries => Update(s)[Key(t)] = entries[Key(t)]
    BY <2>4 DEF Update
  <2>6. \A t \in Step : Out[t] \in File
    BY Steps
  <2>7. ASSUME NEW t \in Step, content'[Out[t]] # Absent
        PROVE  /\ Key(t) \in DOMAIN Update(s)
               /\ Update(s)[Key(t)] = <<content'[Out[t]].config, DOMAIN content'[Out[t]].from>>
    <3>1. CASE t = s
      <4>1. content'[Out[t]] = [config |-> Config(s), from |-> [f \in Needs(s) |-> content[f]]]
        BY <2>1, <2>6, <3>1 DEF Types
      <4>2. content'[Out[t]].config = Config(s) /\ DOMAIN content'[Out[t]].from = Needs(s)
        BY <4>1
      <4> QED BY <2>1, <2>3, <3>1, <4>2
    <3>2. CASE t # s
      <4>1. content'[Out[t]] = content[Out[t]]
        BY <2>1, <2>6, <3>2 DEF Types
      <4>2. /\ Key(t) \in DOMAIN entries
            /\ entries[Key(t)] = <<content[Out[t]].config, DOMAIN content[Out[t]].from>>
        BY <1>1, <2>1, <2>7, <4>1 DEF Knows, Exists
      <4> QED BY <2>3, <2>5, <3>2, <4>1, <4>2
    <3> QED BY <3>1, <3>2
  <2> QED BY <2>1, <2>2, <2>7 DEF Knows, Exists
<1> QED BY <1>2, <1>3

\* Every step keeps Killable.
LEMMA KillableStep == ASSUME Assumed, Types, Types', Inv, [Next]_vars PROVE Killable'
<1>0. project' = project
  BY ProjectSame
<1> SUFFICES ASSUME project.crashes PROVE Killable'
  BY <1>0 DEF Killable
<1>1. /\ wasmSkip = {} /\ skipped = {}
      /\ \A s \in Step : Exists(Out[s]) => /\ content[Out[s]].config = Config(s)
                                           /\ DOMAIN content[Out[s]].from = Whole(s)
      /\ Says(entries)
      /\ cacheFile \notin {Absent, Corrupt} => Says(cacheFile.entries)
  BY DEF Inv, Killable
<1>2. \A s \in Step : Key(s)' = Key(s) /\ Whole(s)' = Whole(s) /\ Config(s)' = Config(s)
  BY <1>0, KeySame, ConfigSame
<1>3. ASSUME NEW known, Says(known) PROVE Says(known)'
  BY <1>2, <1>3 DEF Says
<1>4. ~SkipStep
  <2>1. Steady(project) /\ ~project.skips
    BY DEF Assumed, Types, Steady
  <2> QED BY <2>1 DEF SkipStep
<1>5. wasmSkip' = {} /\ skipped' = {}
  BY <1>1, <1>4 DEF Next, Work, vars, disk, process, Edit, GenerateBuild, Start, Pass, Launch,
       Succeed, Retry, Fail, AllStepsDone, Truncate, Write, LinkLibrary, LinkLibraryFails,
       Crash, Exit
<1>6. Says(NoEntries)
  BY DEF Says, NoEntries
<1>7. CASE Succeed
  <2>0. PICK s : s = Current
    OBVIOUS
  <2>1. /\ s \in Step
        /\ entries' = Update(s) /\ Update(s)[Key(s)] = <<Config(s), Needs(s)>>
        /\ content' = [content EXCEPT ![Out[s]] =
                         [config |-> Config(s), from |-> [f \in Needs(s) |-> content[f]]]]
        /\ \A t \in Step : t # s => Out[t] # Out[s]
        /\ cacheFile' = cacheFile
    BY <1>7, <2>0, Made DEF Succeed
  <2>2. Needs(s) = Whole(s)
    <3>1. pc = "tool" /\ Outputs(skipped) = {}
      BY <1>1, <1>7 DEF Succeed, Outputs
    <3> QED BY <2>0, <3>1, NeedsWhole
  <2>3. \A t \in Step : Out[t] \in File
    BY Steps
  <2>4. ASSUME NEW t \in Step, content'[Out[t]] # Absent
        PROVE  /\ content'[Out[t]].config = Config(t)
               /\ DOMAIN content'[Out[t]].from = Whole(t)
    <3>1. CASE t = s
      <4>1. content'[Out[t]] = [config |-> Config(s), from |-> [f \in Needs(s) |-> content[f]]]
        BY <2>1, <2>3, <3>1 DEF Types
      <4> QED BY <2>2, <3>1, <4>1
    <3>2. CASE t # s
      <4>1. content'[Out[t]] = content[Out[t]]
        BY <2>1, <2>3, <3>2 DEF Types
      <4> QED BY <1>1, <2>4, <4>1 DEF Exists
    <3> QED BY <3>1, <3>2
  <2>5. Says(Update(s))
    <3> SUFFICES ASSUME NEW t \in Step, Key(t) \in DOMAIN Update(s)
                 PROVE  Update(s)[Key(t)] = <<Config(t), Whole(t)>>
      BY DEF Says
    <3>1. CASE t = s
      BY <2>1, <2>2, <3>1
    <3>2. CASE t # s
      <4>1. Key(t) # Key(s)
        BY <3>2 DEF Key
      <4>2. Key(t) \in DOMAIN entries /\ Update(s)[Key(t)] = entries[Key(t)]
        BY <4>1 DEF Update
      <4> QED BY <1>1, <4>2 DEF Says
    <3> QED BY <3>1, <3>2
  <2>6. Says(entries)'
    <3>1. PICK u : u = Update(s)
      OBVIOUS
    <3>2. Says(u)'
      BY <1>3, <2>5, <3>1
    <3> QED BY <2>1, <3>1, <3>2 DEF Says
  <2>7. cacheFile' \notin {Absent, Corrupt} => Says(cacheFile.entries)'
    <3> SUFFICES ASSUME cacheFile' \notin {Absent, Corrupt} PROVE Says(cacheFile.entries)'
      OBVIOUS
    <3>1. PICK u : u = cacheFile.entries
      OBVIOUS
    <3>2. Says(u)'
      BY <1>1, <1>3, <2>1, <3>1
    <3> QED BY <2>1, <3>1, <3>2 DEF Says
  <2> QED BY <1>2, <1>5, <2>4, <2>6, <2>7 DEF Killable, Exists
<1>8. CASE ~Succeed
  <2>1. \A s \in Step : content'[Out[s]] \in {content[Out[s]], Absent}
    BY <1>8, OutputsKept
  <2>2. \A s \in Step : content'[Out[s]] # Absent =>
          content'[Out[s]].config = Config(s) /\ DOMAIN content'[Out[s]].from = Whole(s)
    BY <1>1, <2>1 DEF Exists
  <2>3. entries' = entries \/ entries' = NoEntries
                \/ \E c : entries' = LoadBuildCache(c.target)
    BY <1>8 DEF Next, Work, vars, disk, process, Edit, GenerateBuild, Start, Pass, Launch,
       Retry, SkipStep, Fail, AllStepsDone, Truncate, Write, LinkLibrary, LinkLibraryFails,
       Crash, Exit
  <2>4. PICK e : e = entries' /\ Says(e)
    <3>1. ASSUME NEW c PROVE Says(LoadBuildCache(c.target))
      BY <1>1, <1>6 DEF LoadBuildCache
    <3> QED BY <1>1, <1>6, <2>3, <3>1
  <2>5. Says(entries)'
    BY <1>3, <2>4 DEF Says
  <2>6. cacheFile' = cacheFile \/ cacheFile' = Corrupt
             \/ (cacheFile' = [target |-> cfg.target, entries |-> entries])
    BY <1>8 DEF Next, Work, vars, disk, process, Edit, GenerateBuild, Start, Pass, Launch,
       Retry, SkipStep, Fail, AllStepsDone, Truncate, Write, LinkLibrary, LinkLibraryFails,
       Crash
  <2>7. cacheFile' \notin {Absent, Corrupt} => Says(cacheFile.entries)'
    <3> SUFFICES ASSUME cacheFile' \notin {Absent, Corrupt} PROVE Says(cacheFile.entries)'
      OBVIOUS
    <3>1. PICK u : u = cacheFile'.entries /\ Says(u)
      BY <1>1, <2>6
    <3>2. Says(u)'
      BY <1>3, <3>1
    <3> QED BY <3>1, <3>2 DEF Says
  <2> QED BY <1>2, <1>5, <2>2, <2>5, <2>7 DEF Killable, Exists
<1> QED BY <1>7, <1>8

\* A step stays good while the files it reads and the one it writes do, and
\* none of the former is written.
LEMMA GoodKept ==
  ASSUME Assumed, Types, Types', NEW t \in Step, NEW known, NEW more, Good(t, known),
         UNCHANGED <<project, cfg>>, Wanted(t)' = Wanted(t),
         content'[Out[t]] = content[Out[t]],
         \A f \in Operands[t] : content'[f] = content[f],
         \A f \in Operands[t] : <<f, Out[t]>> \in newer' => <<f, Out[t]>> \in newer,
         DOMAIN known \subseteq DOMAIN more
  PROVE  Good(t, more)'
<1>1. Key(t)' = Key(t) /\ Config(t)' = Config(t)
  BY KeySame DEF Config
<1>2. Wanted(t) \subseteq Operands[t]
  BY DEF Wanted
<1>3. Needs(t)' = Needs(t) /\ \A f \in Needs(t) : content'[f] = content[f]
  BY <1>2 DEF Needs, Exists
<1>4. UpToDate(t)'
  BY <1>1, <1>3 DEF Good, UpToDate
<1>5. \A f \in Wanted(t)' : <<f, Out[t]>> \notin newer'
  BY <1>2 DEF Good
<1>6. Key(t)' \in DOMAIN more \/ HasInputFiles(t, Wanted(t))'
  BY <1>1 DEF Good, HasInputFiles
<1> QED BY <1>4, <1>5, <1>6 DEF Good

\* In particular while the files stay.
LEMMA GoodSame ==
  ASSUME Assumed, Types, Types', NEW t \in Step, Good(t, Held), Held' = Held,
         UNCHANGED <<project, cfg, newer, skipped>>, \A f \in File : content'[f] = content[f]
  PROVE  Good(t, Held)'
<1>1. Out[t] \in File /\ Operands[t] \subseteq File /\ Wanted(t)' = Wanted(t)
  BY Steps DEF Wanted
<1>2. PICK h : h = Held
  OBVIOUS
<1>3. Good(t, h)'
  BY <1>1, <1>2, GoodKept
<1> QED BY <1>2, <1>3 DEF Good

\* And while a tool works for a later step.
LEMMA GoodBehind ==
  ASSUME Assumed, Types, Types', Inv, pc = "tool" \/ AtStep,
         NEW j \in 1..at - 1, NEW t \in Step, t = Schedule[j], t # Current, Good(t, Held),
         UNCHANGED <<project, cfg>>, skipped' \in {skipped, skipped \cup {Current}},
         \A f \in File : f # Out[Current] => content'[f] = content[f],
         \A n \in newer' : n \in newer \/ n[1] = Out[Current],
         DOMAIN Held \subseteq DOMAIN Held'
  PROVE  Good(t, Held)'
<1>1. Current \in Step /\ Out[Current] \notin Operands[t]
  BY AtHand DEF Types
<1>2. Out[t] # Out[Current]
  BY <1>1 DEF Assumed, OwnOutputs
<1>3. Out[t] \in File /\ Operands[t] \subseteq File
  BY Steps
<1>4. Wanted(t)' = Wanted(t)
  <2>1. Outputs(skipped') = Outputs(skipped) \/ Outputs(skipped') = Outputs(skipped) \cup {Out[Current]}
    BY DEF Outputs
  <2> QED BY <1>1, <2>1 DEF Wanted, Outputs
<1>5. ASSUME NEW f \in Operands[t], <<f, Out[t]>> \in newer' PROVE <<f, Out[t]>> \in newer
  <2>1. <<f, Out[t]>>[1] # Out[Current]
    BY <1>1
  <2> QED BY <1>5, <2>1
<1>6. PICK h, g : h = Held /\ g = Held'
  OBVIOUS
<1>7. Good(t, g)'
  BY <1>1, <1>2, <1>3, <1>4, <1>5, <1>6, GoodKept
<1> QED BY <1>6, <1>7 DEF Good

\* The step that a tool has done is good.
LEMMA SucceedGood ==
  ASSUME Assumed, Types, Types', Inv, Succeed, NEW s \in Step, s = Current
  PROVE  Good(s, Held)'
<1>1. /\ content' = [content EXCEPT ![Out[s]] =
                       [config |-> Config(s), from |-> [f \in Needs(s) |-> content[f]]]]
      /\ entries' = Update(s)
  BY Made
<1>2. /\ UNCHANGED <<project, plan, cfg, skipped>> /\ newer' = Touch(Out[s])
      /\ pc = "tool" /\ pc' = "step"
  BY DEF Succeed, Advance
<1>3. Out[s] \in File /\ Operands[s] \subseteq File /\ Out[s] \notin Operands[s]
  BY <1>2, Steps, AtHand
<1>4. \A f \in Operands[s] : content'[f] = content[f]
  BY <1>1, <1>3 DEF Types
<1>5. Wanted(s)' = Wanted(s) /\ Wanted(s) \subseteq Operands[s]
  BY <1>2 DEF Wanted
<1>6. Needs(s)' = Needs(s) /\ \A f \in Needs(s) : content'[f] = content[f]
  BY <1>4, <1>5 DEF Needs, Exists
<1>7. Config(s)' = Config(s) /\ Key(s)' = Key(s)
  BY <1>2 DEF Config, Key, Injected
<1>8. content'[Out[s]] = [config |-> Config(s), from |-> [f \in Needs(s) |-> content[f]]]
  BY <1>1, <1>3 DEF Types
<1>9. UpToDate(s)'
  BY <1>6, <1>7, <1>8 DEF UpToDate
<1>10. ASSUME NEW f \in Wanted(s) PROVE <<f, Out[s]>> \notin newer'
  <2>1. f # Out[s]
    BY <1>3, <1>5
  <2>2. <<f, Out[s]>>[1] = f /\ <<f, Out[s]>>[2] = Out[s]
    OBVIOUS
  <2>3. <<f, Out[s]>> \notin {Out[s]} \X MadeFrom(Out[s])
    BY <2>1
  <2> QED BY <1>2, <2>2, <2>3 DEF Touch
<1>11. Key(s)' \in DOMAIN Held'
  BY <1>1, <1>2, <1>7 DEF Held, Update
<1> QED BY <1>5, <1>9, <1>10, <1>11 DEF Good

\* Every step keeps Passed.
LEMMA PassedStep == ASSUME Assumed, Types, Types', Inv, [Next]_vars PROVE Passed'
<1> USE ScheduleLength
<1>0. project' = project /\ at \in 1..Len(Schedule) + 1 /\ pc \in PCs
  BY ProjectSame DEF Types
<1>a. \A i \in 1..Len(Schedule) : Schedule[i] \in Step
  BY ScheduleLists
<1>b. /\ pc \in {"step", "tool"} => ok
      /\ pc # "idle" => ~done
      /\ pc # "idle" /\ ok =>
           \A j \in 1..at - 1 : \/ Schedule[j] \in skipped
                                \/ pc = "tool" /\ Schedule[j] = Current
                                \/ Good(Schedule[j], Held)
      /\ pc \in {"save", "write", "link"} /\ ok => at > Len(Schedule)
      /\ pc = "link" => ok
      /\ done => \A s \in Live \ skipped : Good(s, Held)
  BY DEF Inv, Runs, Passed
<1>c. ASSUME pc' = "idle", ~done' PROVE Passed'
  BY <1>c DEF Passed
\* What stays good, where nothing that matters changes.
<1>d. ASSUME UNCHANGED <<project, plan, cfg, newer, skipped>>, Held' = Held,
             \A f \in File : content'[f] = content[f]
      PROVE  /\ Schedule' = Schedule /\ Live' = Live
             /\ \A t \in Step : Good(t, Held) => Good(t, Held)'
  BY <1>d, SameSchedule, GoodSame
<1>2. CASE UNCHANGED vars
  <2>1. /\ UNCHANGED <<project, plan, cfg, newer, skipped, content, pc, at, ok, done>>
        /\ Held' = Held
    BY <1>2 DEF vars, disk, process, Held, LoadBuildCache
  <2>2. Schedule' = Schedule /\ Live' = Live /\ Current' = Current
    BY <2>1, <1>d DEF Current
  <2>3. \A t \in Step : Good(t, Held) => Good(t, Held)'
    BY <2>1, <1>d
  <2>4. Live \subseteq Step
    BY Projects
  <2>5. \A j \in 1..at - 1 : Schedule[j] \in Step
    BY <1>0, <1>a
  <2>6. pc' # "idle" /\ ok' => \A j \in 1..at' - 1 :
          \/ Schedule'[j] \in skipped' \/ (pc' = "tool" /\ Schedule'[j] = Current')
          \/ Good(Schedule[j], Held)'
    <3> SUFFICES ASSUME pc # "idle", ok, NEW j \in 1..at - 1, Schedule[j] \notin skipped,
                        ~(pc = "tool" /\ Schedule[j] = Current)
                 PROVE  Good(Schedule[j], Held)'
      BY <2>1, <2>2
    <3>1. PICK t \in Step : t = Schedule[j]
      BY <2>5
    <3>2. Good(t, Held)'
      BY <1>b, <2>3, <3>1
    <3> QED BY <2>2, <3>1, <3>2
  <2> QED BY <1>b, <2>1, <2>2, <2>3, <2>4, <2>6 DEF Passed
<1>3. ASSUME NEW f \in Source, NEW v \in Version, Edit(f, v) PROVE Passed'
  BY <1>3, <1>c DEF Edit, process
<1>4. ASSUME NEW p \in project.plans, GenerateBuild(p) PROVE Passed'
  BY <1>4, <1>c DEF GenerateBuild, process
<1>5. ASSUME NEW c \in [flags : project.flags, target : Target, noCache : BOOLEAN], Start(c)
      PROVE  Passed'
  <2>1. pc' = "step" /\ at' = 1 /\ done' = FALSE
    BY <1>5 DEF Start
  <2> QED BY <2>1 DEF Passed
\* The command moves on.
<1>6. ASSUME pc' = "step", ~done', at' = at + 1, at \in 1..Len(Schedule),
             UNCHANGED <<project, plan>>,
             \A j \in 1..at : \A t \in Step : t = Schedule[j] => t \in skipped' \/ Good(t, Held)'
      PROVE  Passed'
  <2>1. Schedule' = Schedule
    BY <1>6, SameSchedule
  <2>2. \A j \in 1..at' - 1 : Schedule'[j] \in skipped' \/ Good(Schedule[j], Held)'
    <3> SUFFICES ASSUME NEW j \in 1..at, Schedule[j] \notin skipped' PROVE Good(Schedule[j], Held)'
      BY <1>6, <2>1
    <3>1. PICK t \in Step : t = Schedule[j]
      BY <1>6, <1>a
    <3>2. Good(t, Held)'
      BY <1>6, <3>1
    <3> QED BY <2>1, <3>1, <3>2
  <2> QED BY <1>6, <2>2 DEF Passed
\* The command stays where it is.
<1>7. ASSUME pc # "idle", ok, at' = at, ok' => pc' # "idle", ~done', UNCHANGED <<project, plan>>,
             pc' \in {"save", "write", "link"} => at > Len(Schedule),
             pc' = "link" => ok',
             \A j \in 1..at - 1 : \A t \in Step :
               t = Schedule[j] /\ (pc = "tool" => t # Current) /\ (pc' = "tool" => t # Current)
                 /\ Good(t, Held) => Good(t, Held)',
             pc = "tool" => pc' = "tool",
             skipped' = skipped
      PROVE  Passed'
  <2>1. Schedule' = Schedule /\ Current' = Current
    BY <1>7, SameSchedule DEF Current
  <2>2. ASSUME NEW j \in 1..at' - 1
        PROVE  \/ Schedule'[j] \in skipped' \/ (pc' = "tool" /\ Schedule'[j] = Current')
               \/ Good(Schedule[j], Held)'
    <3> SUFFICES ASSUME Schedule[j] \notin skipped, ~(pc' = "tool" /\ Schedule[j] = Current)
                 PROVE  Good(Schedule[j], Held)'
      BY <1>7, <2>1
    <3>1. PICK t \in Step : t = Schedule[j]
      BY <1>0, <1>7, <1>a
    <3>2. Good(t, Held)
      BY <1>b, <1>7, <3>1
    <3>3. Good(t, Held)'
      BY <1>7, <3>1, <3>2
    <3> QED BY <2>1, <3>1, <3>3
  <2> QED BY <1>7, <2>1, <2>2 DEF Passed
<1>8. CASE Pass
  <2>1. /\ AtStep /\ pc = "step" /\ pc' = "step" /\ at' = at + 1
        /\ UNCHANGED <<project, plan, cfg, newer, skipped, content, ok, done>>
        /\ Held' = Held
        /\ Current \in skipped \/ Cached(Current)
    BY <1>8 DEF Pass, AtStep, disk, Held
  <2>2. at \in 1..Len(Schedule)
    BY <2>1, <1>0 DEF AtStep
  <2>3. ASSUME NEW j \in 1..at, NEW t \in Step, t = Schedule[j], t \notin skipped
        PROVE  Good(t, Held)'
    <3>1. CASE j \in 1..at - 1
      BY <1>b, <1>d, <2>1, <2>3, <3>1
    <3>2. CASE j = at
      <4>1. t = Current /\ Cached(Current) /\ Held = entries
        BY <2>1, <2>3, <3>2 DEF Current, Held
      <4>2. Good(t, Held)
        BY <2>1, <4>1, CachedGood
      <4> QED BY <1>d, <2>1, <4>2
    <3> QED BY <2>2, <3>1, <3>2
  <2>4. ~done'
    BY <1>b, <2>1
  <2> QED BY <1>6, <2>1, <2>2, <2>3, <2>4
<1>9. CASE Launch
  <2>1. /\ AtStep /\ pc = "step" /\ pc' = "tool"
        /\ UNCHANGED <<project, plan, cfg, at, skipped, ok, done>> /\ Held' = Held
    BY <1>9 DEF Launch, AtStep, Held
  <2>2. /\ \A f \in File : f # Out[Current] => content'[f] = content[f]
        /\ \A n \in newer' : n \in newer
    BY <1>9 DEF Launch, Types, Forget
  <2>3. \A j \in 1..at - 1 : \A t \in Step :
          t = Schedule[j] /\ t # Current /\ Good(t, Held) => Good(t, Held)'
    BY <2>1, <2>2, GoodBehind
  <2>4. ok /\ ~done
    BY <1>b, <2>1
  <2> QED BY <1>7, <2>1, <2>3, <2>4
<1>10. CASE Succeed
  <2>0. PICK s : s = Current
    OBVIOUS
  <2>1. /\ pc = "tool" /\ pc' = "step" /\ at' = at + 1 /\ newer' = Touch(Out[s])
        /\ UNCHANGED <<project, plan, cfg, skipped, ok, done>> /\ entries' = Update(s)
    BY <1>10, <2>0 DEF Succeed, Advance
  <2>2. /\ s \in Step /\ at \in 1..Len(Schedule)
    BY <2>0, <2>1, AtHand
  <2>3. \A f \in File : f # Out[s] => content'[f] = content[f]
    BY <1>10, <2>0 DEF Succeed, Types
  <2>4. \A n \in newer' : n \in newer \/ n[1] = Out[s]
    BY <2>1 DEF Touch
  <2>5. DOMAIN Held \subseteq DOMAIN Held'
    BY <2>1 DEF Held, Update
  <2>6. Good(s, Held)'
    BY <1>10, <2>0, <2>2, SucceedGood
  <2>7. ASSUME NEW j \in 1..at, NEW t \in Step, t = Schedule[j], t \notin skipped
        PROVE  Good(t, Held)'
    <3>1. CASE t = s
      BY <2>6, <3>1
    <3>2. CASE t # s
      <4>1. j \in 1..at - 1 /\ Good(t, Held)
        BY <1>b, <2>0, <2>1, <2>2, <2>7, <3>2 DEF Current
      <4> QED BY <2>0, <2>1, <2>3, <2>4, <2>5, <2>7, <3>2, <4>1, GoodBehind
    <3> QED BY <3>1, <3>2
  <2>8. ~done'
    BY <1>b, <2>1
  <2> QED BY <1>6, <2>1, <2>2, <2>7, <2>8
<1>11. CASE Retry
  <2>1. /\ pc = "tool" /\ pc' = "tool" /\ Held' = Held
        /\ UNCHANGED <<project, plan, cfg, newer, content, at, skipped, ok, done>>
    BY <1>11 DEF Retry, disk, Held
  <2>2. ok /\ ~done
    BY <1>b, <2>1
  <2> QED BY <1>7, <1>d, <2>1, <2>2
<1>12. CASE SkipStep
  <2>1. /\ pc = "tool" /\ pc' = "step" /\ at' = at + 1
        /\ skipped' = skipped \cup {Current}
        /\ UNCHANGED <<project, plan, cfg, newer, content, ok, done>> /\ Held' = Held
    BY <1>12 DEF SkipStep, Advance, Held
  <2>2. at \in 1..Len(Schedule) /\ Current \in Step
    BY <2>1, AtHand
  <2>3. ASSUME NEW j \in 1..at, NEW t \in Step, t = Schedule[j], t \notin skipped'
        PROVE  Good(t, Held)'
    <3>1. t # Current /\ t \notin skipped
      BY <2>1, <2>3
    <3>2. j \in 1..at - 1 /\ Good(t, Held)
      BY <1>b, <2>1, <2>2, <2>3, <3>1 DEF Current
    <3> QED BY <2>1, <2>3, <3>1, <3>2, GoodBehind
  <2>4. ~done'
    BY <1>b, <2>1
  <2> QED BY <1>6, <2>1, <2>2, <2>3, <2>4
<1>13. CASE Fail
  BY <1>b, <1>13 DEF Fail, Passed
<1>14. CASE AllStepsDone
  <2>1. /\ pc = "step" /\ pc' = "save" /\ at > Len(Schedule) /\ Held' = Held
        /\ UNCHANGED <<project, plan, cfg, newer, content, at, skipped, ok, done>>
    BY <1>14 DEF AllStepsDone, disk, Held
  <2>2. ok /\ ~done
    BY <1>b, <2>1
  <2> QED BY <1>7, <1>d, <2>1, <2>2
<1>15. CASE Truncate
  <2>1. /\ pc = "save" /\ pc' = "write" /\ Held' = Held
        /\ UNCHANGED <<project, plan, cfg, newer, content, at, skipped, ok, done>>
    BY <1>15 DEF Truncate, Held
  <2>2. CASE ok
    BY <1>7, <1>b, <1>d, <2>1, <2>2
  <2>3. CASE ~ok
    BY <1>b, <2>1, <2>3 DEF Passed
  <2> QED BY <2>2, <2>3
\* The end of a successful build.
<1>16. ASSUME pc # "idle", ok, at > Len(Schedule), pc' = "idle",
              \A t \in Step : Good(t, Held) => Good(t, Held)',
              pc # "tool", UNCHANGED <<project, plan, skipped>>
       PROVE  Passed'
  <2>1. Live' = Live
    BY <1>16, SameSchedule
  <2>2. ASSUME NEW s \in Live \ skipped PROVE Good(s, Held)'
    <3>1. s \in Step /\ \E j \in 1..Len(Schedule) : Schedule[j] = s
      BY Projects, ScheduleLists
    <3>2. PICK j \in 1..at - 1 : Schedule[j] = s
      BY <1>0, <1>16, <3>1
    <3>3. Good(s, Held)
      BY <1>b, <1>16, <3>2
    <3> QED BY <1>16, <3>1, <3>3
  <2> QED BY <1>16, <2>1, <2>2 DEF Passed
<1>17. CASE Write
  <2>1. /\ pc = "write"
        /\ UNCHANGED <<project, plan, cfg, newer, content, skipped>>
    BY <1>17 DEF Write, Exit
  <2>2. Held' = Held
    <3>1. LoadBuildCache(cfg.target)' = entries
      <4>1. cacheFile' = [target |-> cfg.target, entries |-> entries] /\ cfg' = cfg
        BY <1>17 DEF Write, Exit
      <4>2. cacheFile' \notin {Absent, Corrupt}
        BY <4>1 DEF Assumed, Markers
      <4> QED BY <4>1, <4>2 DEF LoadBuildCache
    <3>2. pc' \in {"link", "idle"}
      BY <1>17 DEF Write, Exit
    <3> QED BY <2>1, <3>1, <3>2 DEF Held
  <2>3. \A t \in Step : Good(t, Held) => Good(t, Held)'
    BY <1>d, <2>1, <2>2
  <2>4. CASE ok /\ Library
    <3>1. pc' = "link" /\ at' = at /\ ok' = ok /\ done' = done
      BY <1>17, <2>4 DEF Write
    <3> QED BY <1>7, <1>b, <2>1, <2>3, <2>4, <3>1
  <2>5. CASE ok /\ ~Library
    <3>1. pc' = "idle"
      BY <1>17, <2>5 DEF Write, Exit
    <3> QED BY <1>16, <1>b, <2>1, <2>3, <2>5, <3>1
  <2>6. CASE ~ok
    <3>1. pc' = "idle" /\ ~done'
      BY <1>17, <2>6 DEF Write, Exit
    <3> QED BY <1>c, <3>1
  <2> QED BY <2>4, <2>5, <2>6
<1>18. CASE LinkLibrary
  <2>1. /\ pc = "link" /\ pc' = "idle"
        /\ UNCHANGED <<project, plan, cfg, newer, skipped, cacheFile>>
        /\ \A f \in File : content'[f] = content[f]
    BY <1>18, Steps DEF LinkLibrary, Exit, Types
  <2>2. Held' = Held
    BY <2>1 DEF Held, LoadBuildCache
  <2>3. ok /\ at > Len(Schedule)
    BY <1>b, <2>1
  <2> QED BY <1>16, <1>d, <2>1, <2>2, <2>3
<1>19. CASE LinkLibraryFails
  BY <1>b, <1>c, <1>19 DEF LinkLibraryFails, Exit, disk
<1>20. CASE Crash
  BY <1>b, <1>c, <1>20 DEF Crash, Exit, disk
<1> QED BY <1>2, <1>3, <1>4, <1>5, <1>8, <1>9, <1>10, <1>11, <1>12, <1>13, <1>14, <1>15,
           <1>17, <1>18, <1>19, <1>20 DEF Next, Work

\* The artifact is linked from the archives and bridge objects that there are.
Linked ==
  done /\ Library => content[Artifact].from = [f \in LibraryInputs |-> content[f]]

\* A cache that reads is of a target.
Filed == cacheFile \notin {Absent, Corrupt} => cacheFile.target \in Target

\* Every step keeps the cache file that of a target.
LEMMA FiledStep == ASSUME Types, Filed, [Next]_vars PROVE Filed'
<1>1. cfg.target \in Target
  BY DEF Types
<1>2. \/ cacheFile' = cacheFile \/ cacheFile' = Corrupt
      \/ cacheFile' = [target |-> cfg.target, entries |-> entries]
  BY DEF Next, Work, vars, disk, process, Edit, GenerateBuild, Start, Pass, Launch,
     Succeed, Retry, SkipStep, Fail, AllStepsDone, Truncate, Write, LinkLibrary,
     LinkLibraryFails, Crash
<1> QED BY <1>1, <1>2 DEF Filed

\* A link is of what there is, and what follows it undoes done.
LEMMA LinkedStep == ASSUME Types, Runs, Linked, [Next]_vars PROVE Linked'
<1>1. pc # "idle" => ~done
  BY DEF Runs
<1>3. ASSUME ~done' PROVE Linked'
  BY <1>3 DEF Linked
<1>4. CASE UNCHANGED vars
  <2>1. done' = done /\ content' = content /\ project' = project
    BY <1>4 DEF vars, disk
  <2>2. LibraryInputs' = LibraryInputs
    BY <2>1 DEF LibraryInputs, Injected, Outputs, Exists
  <2>3. Library' = Library
    BY <2>1 DEF Library
  <2> QED BY <2>1, <2>2, <2>3 DEF Linked
<1>5. CASE LinkLibrary
  <2>1. /\ content' = [content EXCEPT ![Artifact] =
             [config |-> <<cfg.flags, cfg.target>>, from |-> [f \in LibraryInputs |-> content[f]]]]
        /\ project' = project
    BY <1>5 DEF LinkLibrary
  <2>2. \A f \in File : content'[f] = content[f]
    BY <2>1, Steps DEF Types
  <2>3. content'[Artifact].from = [f \in LibraryInputs |-> content[f]]
    BY <2>1 DEF Types
  <2>4. \A s \in Step : Out[s] \in File
    BY Steps
  <2>5. LibraryInputs' = LibraryInputs /\ LibraryInputs \subseteq File
    BY <2>1, <2>2, <2>4 DEF LibraryInputs, Exists, Outputs, Injected
  <2>6. [f \in LibraryInputs' |-> content'[f]] = [f \in LibraryInputs |-> content[f]]
    BY <2>2, <2>5
  <2> QED BY <2>3, <2>6 DEF Linked
<1>6. CASE Write
  <2>1. CASE ok /\ Library
    <3>1. done' = done /\ pc # "idle"
      BY <1>6, <2>1 DEF Write
    <3>2. ~done'
      BY <1>1, <3>1
    <3> QED BY <1>3, <3>2
  <2>2. CASE ~Library
    <3>1. ~Library'
      BY <1>6, <2>2 DEF Write, Library
    <3> QED BY <3>1 DEF Linked
  <2>3. CASE ~ok
    <3>1. ~done'
      BY <1>6, <2>3 DEF Write
    <3> QED BY <1>3, <3>1
  <2> QED BY <2>1, <2>2, <2>3
<1>7. CASE Pass \/ Launch \/ Succeed \/ Retry \/ SkipStep \/ Fail \/ AllStepsDone \/ Truncate
             \/ LinkLibraryFails \/ Crash
  <2>1. pc # "idle" /\ done' = done
    BY <1>7 DEF Pass, Launch, Succeed, Retry, SkipStep, Fail, AllStepsDone, Truncate,
                LinkLibraryFails, Crash, AtStep, disk
  <2>2. ~done'
    BY <1>1, <2>1
  <2> QED BY <1>3, <2>2
<1>8. ASSUME NEW f \in Source, NEW v \in Version, Edit(f, v) PROVE Linked'
  BY <1>3, <1>8 DEF Edit
<1>9. ASSUME NEW p \in project.plans, GenerateBuild(p) PROVE Linked'
  BY <1>3, <1>9 DEF GenerateBuild
<1>10. ASSUME NEW c \in [flags : project.flags, target : Target, noCache : BOOLEAN], Start(c)
       PROVE  Linked'
  BY <1>3, <1>10 DEF Start, disk
<1> QED BY <1>4, <1>5, <1>6, <1>7, <1>8, <1>9, <1>10 DEF Next, Work

\* The inductive invariant.
IInv == Inv /\ Linked /\ Filed

\* The invariant holds initially.
LEMMA IInvInit == ASSUME Assumed, Types, Init PROVE IInv
<1>1. \A s \in Step : Out[s] \in File /\ content[Out[s]] = Absent
  <2>1. \A s \in Step : Out[s] \in DOMAIN content /\ Out[s] \notin Source
    BY Steps DEF Init
  <2> QED BY <2>1, Steps DEF Init
<1>2. /\ \A f \in External : content[f] = Absent
      /\ \A f \in Source : content[f] # Absent
  <2>1. \A f \in Source \cup External : f \in DOMAIN content
    BY DEF Init, File
  <2>2. \A f \in External : f \notin Source
    BY ConstantsAssumption DEF ConstantsAssumption
  <2> QED BY <2>1, <2>2 DEF Init
<1>3. Disk
  BY <1>1, <1>2 DEF Disk, Init, Exists, Outputs
<1>4. Runs /\ Passed
  BY DEF Runs, Passed, Init
<1>5. Known
  BY <1>1 DEF Known, Knows, Exists
<1>6. Killable
  BY <1>1 DEF Killable, Says, Exists, Init, NoEntries
<1>7. Linked /\ Filed
  BY DEF Linked, Filed, Init
<1> QED BY <1>3, <1>4, <1>5, <1>6, <1>7 DEF IInv, Inv

\* The invariant always holds.
LEMMA IInvAlways == ASSUME Assumed PROVE Spec => [](Types /\ IInv)
<1>1. Init /\ Types => IInv
  BY IInvInit
<1>2. Types /\ IInv /\ Types' /\ [Next]_vars => IInv'
  <2> SUFFICES ASSUME Types, IInv, Types', [Next]_vars PROVE IInv'
    OBVIOUS
  <2>1. Runs' /\ Disk'
    BY RunsStep, DiskStep DEF IInv, Inv
  <2>2. Passed' /\ Known' /\ Killable'
    BY PassedStep, KnownStep, KillableStep DEF IInv
  <2>3. Linked' /\ Filed'
    BY LinkedStep, FiledStep DEF IInv, Inv
  <2> QED BY <2>1, <2>2, <2>3 DEF IInv, Inv
<1>3. Spec => []Types
  BY TypesAlways
<1> QED BY <1>1, <1>2, <1>3, PTL DEF Spec
-----------------------------------------------------------------------------
\* EntriesDescribeOutputs: what build-cache.json says of an output, IsCached
\* may believe (cache.go:102).
THEOREM EntriesAreTrue == ASSUME Assumed PROVE Spec => []EntriesDescribeOutputs
<1>1. ASSUME Types, IInv PROVE EntriesDescribeOutputs
  <2> SUFFICES ASSUME pc = "idle", cacheFile \notin {Absent, Corrupt},
                      NEW s \in Step, Key(s) \in DOMAIN cacheFile.entries, Exists(Out[s])
               PROVE  cacheFile.entries[Key(s)] =
                        <<content[Out[s]].config, DOMAIN content[Out[s]].from>>
    BY DEF EntriesDescribeOutputs, Assumed
  <2>1. CASE ~project.crashes
    <3>1. cacheFile.target = cfg.target
      BY <1>1 DEF IInv, Filed, Types, Assumed
    <3>2. Held = cacheFile.entries
      BY <3>1 DEF Held, LoadBuildCache
    <3> QED BY <1>1, <2>1, <3>2 DEF IInv, Inv, Known, Knows
  <2>2. CASE project.crashes
    BY <1>1, <2>2 DEF IInv, Inv, Killable, Says
  <2> QED BY <2>1, <2>2
<1> QED BY <1>1, IInvAlways, PTL

\* Settled: the next build finds everything in the cache.
THEOREM SettledAlways == ASSUME Assumed PROVE Spec => []Settled
<1>1. ASSUME Types, IInv PROVE Settled
  <2> SUFFICES ASSUME done, skipped \subseteq wasmSkip, NEW s \in Live \ skipped,
                      \A f \in Scrub(Operands, wasmSkip)[s] : Exists(f)
               PROVE  IsCached(s, Scrub(Operands, wasmSkip)[s], LoadBuildCache(cfg.target))
    BY DEF Settled
  <2>1. s \in Step
    BY <1>1, Projects
  <2>2. pc = "idle" /\ wasmSkip = skipped
    BY <1>1 DEF IInv, Inv, Runs
  <2>3. Scrub(Operands, wasmSkip)[s] = Wanted(s)
    BY <2>1, <2>2 DEF Scrub, Wanted
  <2>4. Held = LoadBuildCache(cfg.target)
    BY <2>2 DEF Held
  <2>5. Good(s, Held)
    BY <1>1 DEF IInv, Inv, Passed
  <2>6. Needs(s) = Wanted(s)
    BY <2>3 DEF Needs
  <2>7. /\ content[Out[s]] # Absent
        /\ content[Out[s]].config = Config(s) /\ DOMAIN content[Out[s]].from = Wanted(s)
    <3>1. content[Out[s]] = [config |-> Config(s), from |-> [f \in Wanted(s) |-> content[f]]]
      BY <2>5, <2>6 DEF Good, UpToDate
    <3> QED BY <3>1 DEF Assumed, Markers
  <2>8. Key(s) \in DOMAIN Held => Held[Key(s)] = Hash(s, Wanted(s))
    <3> SUFFICES ASSUME Key(s) \in DOMAIN Held PROVE Held[Key(s)] = <<Config(s), Wanted(s)>>
      BY DEF Hash
    <3>1. CASE ~project.crashes
      BY <1>1, <2>1, <2>7, <3>1 DEF IInv, Inv, Known, Knows, Exists
    <3>2. CASE project.crashes
      <4>1. Whole(s) = Wanted(s)
        BY <1>1, <2>1, <2>7, <3>2 DEF IInv, Inv, Killable, Exists
      <4>2. cacheFile \notin {Absent, Corrupt} /\ Held = cacheFile.entries
        BY <2>4 DEF LoadBuildCache, NoEntries
      <4> QED BY <1>1, <2>1, <3>2, <4>1, <4>2 DEF IInv, Inv, Killable, Says
    <3> QED BY <3>1, <3>2
  <2>9. \A f \in Wanted(s) : <<f, Out[s]>> \notin newer
    BY <2>5 DEF Good
  <2>10. Key(s) \in DOMAIN Held \/ HasInputFiles(s, Wanted(s))
    BY <2>5 DEF Good
  <2> QED BY <2>3, <2>4, <2>7, <2>8, <2>9, <2>10 DEF IsCached
<1> QED BY <1>1, IInvAlways, PTL
-----------------------------------------------------------------------------
(***************************************************************************)
(* The build from an empty directory.                                       *)
(***************************************************************************)
\* The steps of this build that are not skipped, and those that make f.
Built == Live \ skipped
Makers(f) == {s \in Built : Out[s] = f}

\* What is made of each file, from what F says is made of the others.
CleanOf(F) ==
  [f \in File |->
     IF f \in Source THEN content[f]
     ELSE LET makers == {s \in Live \ skipped : Out[s] = f}
              reads(s) == {g \in Operands[s] : F[g] # Absent} \cup Headers[s]
          IN  IF makers = {} THEN Absent
              ELSE [config |-> Config(CHOOSE s \in makers : TRUE),
                    from |-> [g \in UNION {reads(s) : s \in makers} |-> F[g]]]]

\* Clean is a function that says of each file what it says of the others,
LEMMA CleanIs == Clean = CHOOSE F : F = CleanOf(F)
BY DEF Clean, CleanOf

\* and a file has one maker at most.
LEMMA CleanFile ==
  ASSUME Assumed, Types, NEW F, NEW f \in File
  PROVE  /\ f \in Source => CleanOf(F)[f] = content[f]
         /\ f \notin Source /\ Makers(f) = {} => CleanOf(F)[f] = Absent
         /\ \A s \in Built : Out[s] = f =>
              CleanOf(F)[f] = [config |-> Config(s),
                               from |-> [g \in {g \in Operands[s] : F[g] # Absent} |-> F[g]]]
<1>1. f \in Source => CleanOf(F)[f] = content[f]
  BY DEF CleanOf
<1>2. f \notin Source /\ Makers(f) = {} => CleanOf(F)[f] = Absent
  BY DEF CleanOf, Makers, Built
<1>3. ASSUME NEW s \in Built, Out[s] = f
      PROVE  CleanOf(F)[f] = [config |-> Config(s),
                              from |-> [g \in {g \in Operands[s] : F[g] # Absent} |-> F[g]]]
  <2>1. s \in Step /\ Built \subseteq Step
    BY Projects DEF Built
  <2>2. f \notin Source
    BY <1>3, <2>1, Steps
  <2>3. {t \in Live \ skipped : Out[t] = f} = {s}
    BY <1>3, <2>1 DEF Built, Assumed, OwnOutputs
  <2> DEFINE reads(t) == {g \in Operands[t] : F[g] # Absent} \cup Headers[t]
  <2>4. reads(s) = {g \in Operands[s] : F[g] # Absent}
    BY <2>1 DEF Assumed
  <2>5. UNION {reads(t) : t \in {s}} = {g \in Operands[s] : F[g] # Absent}
    BY <2>4
  <2>6. (CHOOSE t \in {s} : TRUE) = s
    OBVIOUS
  <2>7. CleanOf(F)[f] = IF {s} = {} THEN Absent
                        ELSE [config |-> Config(CHOOSE t \in {s} : TRUE),
                              from |-> [g \in UNION {reads(t) : t \in {s}} |-> F[g]]]
    BY <2>2, <2>3 DEF CleanOf
  <2> HIDE DEF reads
  <2> QED BY <2>5, <2>6, <2>7
<1> QED BY <1>1, <1>2, <1>3

\* Files made by steps of a phase before the k-th.
Before(k) == {f \in File : \A s \in Built : Out[s] = f => Rank(Kind[s]) < k}

\* There is such a function: phase by phase it says more of what it says.
LEMMA CleanExists == ASSUME Assumed, Types PROVE \E F : F = CleanOf(F)
<1>1. ASSUME NEW k \in Nat, NEW F, NEW G, \A f \in Before(k) : F[f] = G[f]
      PROVE  \A f \in Before(k + 1) : CleanOf(F)[f] = CleanOf(G)[f]
  <2> SUFFICES ASSUME NEW f \in Before(k + 1) PROVE CleanOf(F)[f] = CleanOf(G)[f]
    OBVIOUS
  <2>1. f \in File
    BY DEF Before
  <2>2. CASE f \in Source \/ Makers(f) = {}
    BY <2>1, <2>2, CleanFile
  <2>3. CASE f \notin Source /\ Makers(f) # {}
    <3>1. PICK s \in Built : Out[s] = f
      BY <2>3 DEF Makers
    <3>2. s \in Step /\ Operands[s] \subseteq File
      BY Projects, Steps DEF Built
    <3>3. Rank(Kind[s]) \in Nat /\ Rank(Kind[s]) <= k
      BY <3>1, <3>2, Steps DEF Before, Rank
    <3>4. ASSUME NEW g \in Operands[s] PROVE g \in Before(k)
      <4> SUFFICES ASSUME NEW t \in Built, Out[t] = g PROVE Rank(Kind[t]) < k
        BY <3>2 DEF Before
      <4>1. t \in Step
        BY Projects DEF Built
      <4>2. Rank(Kind[t]) < Rank(Kind[s])
        BY <3>2, <4>1 DEF Assumed, InPhases
      <4>3. Rank(Kind[t]) \in Nat
        BY <4>1, Steps DEF Rank
      <4> QED BY <3>3, <4>2, <4>3
    <3>5. \A g \in Operands[s] : F[g] = G[g]
      BY <1>1, <3>4
    <3>6. /\ {g \in Operands[s] : F[g] # Absent} = {g \in Operands[s] : G[g] # Absent}
          /\ [g \in {g \in Operands[s] : F[g] # Absent} |-> F[g]]
               = [g \in {g \in Operands[s] : G[g] # Absent} |-> G[g]]
      BY <3>5
    <3>7. /\ CleanOf(F)[f] = [config |-> Config(s),
                              from |-> [g \in {g \in Operands[s] : F[g] # Absent} |-> F[g]]]
          /\ CleanOf(G)[f] = [config |-> Config(s),
                              from |-> [g \in {g \in Operands[s] : G[g] # Absent} |-> G[g]]]
      BY <2>1, <3>1, CleanFile
    <3> QED BY <3>6, <3>7
  <2> QED BY <2>2, <2>3
<1>2. PICK G0 : G0 = CleanOf(<< >>)
  OBVIOUS
<1>3. PICK G1, G2, G3, G4 : /\ G1 = CleanOf(G0) /\ G2 = CleanOf(G1)
                            /\ G3 = CleanOf(G2) /\ G4 = CleanOf(G3)
  OBVIOUS
<1>4. \A f \in Before(0) : G0[f] = G1[f]
  <2> SUFFICES ASSUME NEW f \in Before(0) PROVE G0[f] = G1[f]
    OBVIOUS
  <2>1. \A s \in Built : s \in Step /\ Rank(Kind[s]) \in Nat
    BY Projects, Steps DEF Built, Rank
  <2>2. f \in File /\ Makers(f) = {}
    BY <2>1 DEF Before, Makers
  <2> QED BY <1>2, <1>3, <2>2, CleanFile
<1>5. \A f \in Before(1) : G1[f] = G2[f]
  BY <1>1, <1>2, <1>3, <1>4
<1>6. \A f \in Before(2) : G2[f] = G3[f]
  <2>1. 1 + 1 = 2
    OBVIOUS
  <2> QED BY <1>1, <1>3, <1>5, <2>1
<1>7. \A f \in Before(3) : G3[f] = G4[f]
  <2>1. 2 + 1 = 3
    OBVIOUS
  <2> QED BY <1>1, <1>3, <1>6, <2>1
<1>8. \A f \in File : f \in Before(3)
  BY Projects, Steps DEF Built, Before, Rank
<1>9. G3 = [f \in File |-> G3[f]] /\ G4 = [f \in File |-> G4[f]]
  BY <1>3 DEF CleanOf
<1>10. G3 = G4
  BY <1>7, <1>8, <1>9
<1> QED BY <1>3, <1>10

\* When every step is up to date, outputs are what the clean build makes.
LEMMA OutputsClean ==
  ASSUME Assumed, Types, Inv, done
  PROVE  \A s \in Built : content[Out[s]] = Clean[Out[s]] /\ Clean[Out[s]] # Absent
<1>1. Clean = CleanOf(Clean)
  BY CleanIs, CleanExists
<1>2. Built \subseteq Step /\ Built \subseteq Live
  BY Projects DEF Built
<1>3. ASSUME NEW s \in Built
      PROVE  /\ content[Out[s]] = [config |-> Config(s), from |-> [f \in Needs(s) |-> content[f]]]
             /\ content[Out[s]] # Absent
  <2>1. Good(s, Held)
    BY DEF Inv, Passed, Built
  <2> QED BY <2>1 DEF Good, UpToDate, Assumed, Markers
<1>4. ASSUME NEW k \in Nat,
             \A t \in Built : Rank(Kind[t]) < k => content[Out[t]] = Clean[Out[t]],
             NEW s \in Built, Rank(Kind[s]) <= k
      PROVE  content[Out[s]] = Clean[Out[s]]
  <2>1. s \in Step /\ s \in Live /\ Operands[s] \subseteq File /\ Out[s] \in File
    BY <1>2, Steps
  <2>2. Rank(Kind[s]) \in Nat
    BY <2>1, Steps DEF Rank
  <2>3. ASSUME NEW g \in Operands[s]
        PROVE  /\ Clean[g] # Absent <=> g \in Needs(s)
               /\ g \in Needs(s) => Clean[g] = content[g]
    <3>0. g \in File
      BY <2>1
    <3>1. CASE g \in Source
      <4>1. Clean[g] = content[g]
        BY <1>1, <3>0, <3>1, CleanFile
      <4>2. content[g] # Absent
        BY <3>1 DEF Inv, Disk
      <4>3. g \notin Outputs(skipped)
        BY <3>1, Steps DEF Outputs, Types, Compiles
      <4> QED BY <4>1, <4>2, <4>3 DEF Needs, Wanted, Exists
    <3>2. CASE g \notin Source /\ Makers(g) # {}
      <4>1. PICK t \in Built : Out[t] = g
        BY <3>2 DEF Makers
      <4>2. t \in Step
        BY <1>2
      <4>3. Rank(Kind[t]) < Rank(Kind[s]) /\ Rank(Kind[t]) \in Nat
        BY <2>1, <4>1, <4>2, Steps DEF Assumed, InPhases, Rank
      <4>4. content[g] = Clean[g] /\ content[g] # Absent
        <5>1. Rank(Kind[t]) < k
          BY <1>4, <2>2, <4>3
        <5>2. content[Out[t]] = Clean[Out[t]]
          BY <1>4, <5>1
        <5> QED BY <1>3, <4>1, <5>2
      <4>5. g \notin Outputs(skipped)
        <5> SUFFICES ASSUME NEW u \in skipped, Out[u] = g PROVE FALSE
          BY DEF Outputs
        <5>1. u \in Step /\ u # t
          BY DEF Types, Compiles, Built
        <5> QED BY <4>1, <4>2, <5>1 DEF Assumed, OwnOutputs
      <4> QED BY <4>4, <4>5 DEF Needs, Wanted, Exists
    <3>3. CASE g \notin Source /\ Makers(g) = {}
      <4>1. Clean[g] = Absent
        BY <1>1, <3>0, <3>3, CleanFile
      <4>2. ASSUME g \in Needs(s) PROVE FALSE
        <5>1. content[g] # Absent /\ g \notin Outputs(skipped)
          BY <4>2 DEF Needs, Wanted, Exists
        <5>2. g \notin External \cup Outputs(Step \ Ever)
          BY <5>1 DEF Inv, Disk
        <5>3. PICK t \in Ever : g = Out[t]
          BY <3>0, <3>3, <5>2 DEF File, Outputs
        <5>4. t \in Live
          BY <2>1, <5>3, EverLive
        <5>5. t \notin skipped
          BY <5>1, <5>3 DEF Outputs
        <5> QED BY <3>3, <5>3, <5>4, <5>5 DEF Makers, Built
      <4> QED BY <4>1, <4>2
    <3> QED BY <3>1, <3>2, <3>3
  <2>4. {g \in Operands[s] : Clean[g] # Absent} = Needs(s)
    BY <2>3 DEF Needs, Wanted
  <2>5. [g \in {g \in Operands[s] : Clean[g] # Absent} |-> Clean[g]]
          = [g \in Needs(s) |-> content[g]]
    <3>1. \A g \in Needs(s) : Clean[g] = content[g]
      BY <2>3 DEF Needs, Wanted
    <3> QED BY <2>4, <3>1
  <2>6. Clean[Out[s]] = [config |-> Config(s),
                         from |-> [g \in {g \in Operands[s] : Clean[g] # Absent} |-> Clean[g]]]
    <3>1. CleanOf(Clean)[Out[s]] =
            [config |-> Config(s),
             from |-> [g \in {g \in Operands[s] : Clean[g] # Absent} |-> Clean[g]]]
      BY <2>1, CleanFile
    <3> QED BY <1>1, <3>1
  <2> QED BY <1>3, <2>5, <2>6
<1>5. \A s \in Built : Rank(Kind[s]) \in 0..2
  BY <1>2, Steps DEF Rank
<1>6. \A s \in Built : Rank(Kind[s]) < 1 => content[Out[s]] = Clean[Out[s]]
  <2>1. \A t \in Built : Rank(Kind[t]) < 0 => content[Out[t]] = Clean[Out[t]]
    BY <1>5
  <2>2. \A s \in Built : Rank(Kind[s]) <= 0 => content[Out[s]] = Clean[Out[s]]
    BY <1>4, <2>1
  <2> QED BY <1>5, <2>2
<1>7. \A s \in Built : Rank(Kind[s]) < 2 => content[Out[s]] = Clean[Out[s]]
  <2>1. \A s \in Built : Rank(Kind[s]) <= 1 => content[Out[s]] = Clean[Out[s]]
    BY <1>4, <1>6
  <2> QED BY <1>5, <2>1
<1>8. \A s \in Built : content[Out[s]] = Clean[Out[s]]
  <2>1. \A s \in Built : Rank(Kind[s]) <= 2 => content[Out[s]] = Clean[Out[s]]
    BY <1>4, <1>7
  <2> QED BY <1>5, <2>1
<1> QED BY <1>3, <1>8

\* FreshArtifacts: a successful incremental build (cache.go:102,
\* execute.go:67) leaves what a build from nothing would.
THEOREM ArtifactsAreFresh == ASSUME Assumed PROVE Spec => []FreshArtifacts
<1>1. ASSUME Types, IInv PROVE FreshArtifacts
  <2> SUFFICES ASSUME done
               PROVE  /\ \A s \in Built : content[Out[s]] = Clean[Out[s]]
                      /\ Library /\ skipped \cap Injected = {} =>
                           content[Artifact].from = [f \in CleanLibraryInputs |-> Clean[f]]
    BY DEF FreshArtifacts, Built
  <2>1. \A s \in Built : content[Out[s]] = Clean[Out[s]] /\ Clean[Out[s]] # Absent
    BY <1>1, OutputsClean DEF IInv
  <2> SUFFICES ASSUME Library, skipped \cap Injected = {}
               PROVE  content[Artifact].from = [f \in CleanLibraryInputs |-> Clean[f]]
    BY <2>1
  <2>2. skipped \subseteq Compiles /\ Live \subseteq Step /\ Injected \subseteq Live
        /\ plan \in project.plans /\ Steady(project)
    BY <1>1, Projects DEF Types, Live, Assumed
  <2>3. ASSUME NEW f \in LibraryInputs PROVE f \in CleanLibraryInputs /\ content[f] = Clean[f]
    <3>1. PICK s \in Step : /\ f = Out[s] /\ content[f] # Absent
                            /\ Kind[s] = "archive" \/ s \in Injected
      BY <2>3 DEF LibraryInputs, Outputs, Exists
    <3>2. s \in Ever
      BY <1>1, <3>1 DEF IInv, Inv, Disk, Outputs
    <3>3. s \in Live
      <4>1. CASE s \notin Injected
        <5>1. Kind[s] = "archive" /\ \E r \in project.plans : s \in r.steps
          BY <3>1, <3>2, <4>1 DEF Ever
        <5>2. s \in plan.steps
          BY <2>2, <5>1 DEF Steady, Library
        <5> QED BY <5>2 DEF Live
      <4> QED BY <2>2, <4>1
    <3>4. s \notin skipped
      BY <2>2, <3>1 DEF Compiles
    <3>5. content[f] = Clean[f]
      BY <2>1, <3>1, <3>3, <3>4 DEF Built
    <3> QED BY <3>1, <3>3, <3>5 DEF CleanLibraryInputs, Outputs
  <2>4. ASSUME NEW f \in CleanLibraryInputs PROVE f \in LibraryInputs
    <3>1. PICK s \in Live : f = Out[s] /\ (Kind[s] = "archive" \/ s \in Injected)
      BY <2>4 DEF CleanLibraryInputs, Outputs
    <3>2. s \in Step /\ s \notin skipped
      BY <2>2, <3>1 DEF Compiles
    <3>3. content[Out[s]] # Absent
      BY <2>1, <3>2 DEF Built
    <3> QED BY <3>1, <3>2, <3>3 DEF LibraryInputs, Outputs, Exists
  <2>5. LibraryInputs = CleanLibraryInputs
    BY <2>3, <2>4
  <2>6. content[Artifact].from = [f \in LibraryInputs |-> content[f]]
    BY <1>1 DEF IInv, Linked
  <2> QED BY <2>3, <2>5, <2>6
<1> QED BY <1>1, IInvAlways, PTL
==============================================================================
