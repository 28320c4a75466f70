----------------------- MODULE Wasm2goRuntime_proofs -----------------------
(***************************************************************************)
(* Wasm2goRuntime for any number of goroutines, any nesting and any number  *)
(* of goroutines in callbacks at once.  m.mu changes hands in the middle of *)
(* calls; the inductive invariant says that whoever is at a step inside the *)
(* module owns it, and that nobody is before initModule has ended.  The     *)
(* second part is about the C stack, with callbacks on one goroutine.       *)
(***************************************************************************)
EXTENDS Wasm2goRuntime, Sequences, FiniteSetTheorems, TLAPS

\* The steps of a goroutine that has begun a call and is not in a handler.
Inside == InModule \cup {"relock", "unlock"}

\* How the place of g, its depth and m.mu go together.
Discipline(g) ==
  /\ pc[g] \in InModule \cup {"unlock"} => mu = g
  /\ pc[g] \in Inside => depth[g] > 0
  /\ pc[g] = "lock" => depth[g] < MaxDepth

\* initModule runs alone.
InitAlone ==
  /\ init # "done" =>
       \A g \in Goroutine : pc[g] \in {"go", "init"} /\ depth[g] = 0
  /\ \A g \in Goroutine : pc[g] = "init" =>
       init = "running" /\ \A h \in Goroutine : pc[h] = "init" => h = g
  /\ init = "no" => \A g \in Goroutine : pc[g] = "go"

IInv == TypeOK /\ InitAlone /\ \A g \in Goroutine : Discipline(g)

\* The inductive invariant holds initially.
LEMMA InitIInv == Init => IInv
<1> SUFFICES ASSUME Init PROVE IInv
  OBVIOUS
<1> USE ConstantsAssumption DEF Init
<1>1. /\ kind \in [Goroutine -> [1..MaxDepth -> {"invoke", "typename"}]]
      /\ slot \in [Goroutine -> [1..MaxDepth -> Nat]]
  OBVIOUS
<1>2. TypeOK
  <2>1. /\ depth \in [Goroutine -> 0..MaxDepth]
        /\ work \in [Goroutine -> 0..MaxWork]
        /\ pc \in [Goroutine -> PCs]
        /\ awaiting \in [Goroutine -> Goroutine \cup {NoGoroutine}]
    BY DEF PCs
  <2>2. /\ hostDesc \in (Goroutine \X (1..MaxDepth)) \cup {NoCall}
        /\ guestDesc \in (Goroutine \X (1..MaxDepth)) \cup {NoCall}
    OBVIOUS
  <2> QED BY <1>1, <2>1, <2>2 DEF TypeOK
<1>3. InitAlone
  BY DEF InitAlone
<1>4. \A g \in Goroutine : Discipline(g)
  BY DEF Discipline, Inside, InModule
<1> QED BY <1>2, <1>3, <1>4 DEF IInv

\* The counters of a goroutine stay within their bounds.
LEMMA Counters ==
  ASSUME TypeOK, NEW g \in Goroutine
  PROVE  /\ Work(g) => work' \in [Goroutine -> 0..MaxWork]
         /\ depth[g] < MaxDepth =>
              /\ depth[g] + 1 \in 1..MaxDepth
              /\ [depth EXCEPT ![g] = @ + 1] \in [Goroutine -> 0..MaxDepth]
         /\ depth[g] > 0 =>
              /\ depth[g] \in 1..MaxDepth
              /\ [depth EXCEPT ![g] = @ - 1] \in [Goroutine -> 0..MaxDepth]
<1>1. /\ work \in [Goroutine -> 0..MaxWork]
      /\ depth \in [Goroutine -> 0..MaxDepth]
  BY DEF TypeOK
<1>2. /\ MaxWork \in Nat /\ MaxDepth \in Nat
      /\ work[g] \in Nat /\ work[g] <= MaxWork
      /\ depth[g] \in Nat /\ depth[g] <= MaxDepth
  BY <1>1, ConstantsAssumption
<1>3. Work(g) => work[g] + 1 \in 0..MaxWork
  BY <1>2 DEF Work
<1>4. Work(g) => work' \in [Goroutine -> 0..MaxWork]
  BY <1>1, <1>3 DEF Work
<1>5. depth[g] < MaxDepth =>
        depth[g] + 1 \in 1..MaxDepth /\ depth[g] + 1 \in 0..MaxDepth
  BY <1>2
<1>6. depth[g] > 0 =>
        depth[g] \in 1..MaxDepth /\ depth[g] - 1 \in 0..MaxDepth
  BY <1>2
<1> QED BY <1>1, <1>4, <1>5, <1>6

\* Every step keeps the types.
LEMMA TypeStep == ASSUME IInv, [Next]_vars PROVE TypeOK'
<1> TypeOK /\ InitAlone /\ \A g \in Goroutine : Discipline(g)
  BY DEF IInv
<1> USE ConstantsAssumption
    DEF TypeOK, Discipline, Inside, InModule, Goto, PCs, NoCall
<1>1. CASE UNCHANGED vars
  BY <1>1 DEF vars
<1>2. ASSUME NEW g \in Goroutine, InitModule(g) PROVE TypeOK'
  BY <1>2 DEF InitModule, InGo
<1>3. ASSUME NEW g \in Goroutine, InitModuleDone(g) PROVE TypeOK'
  BY <1>3 DEF InitModuleDone
<1>4. ASSUME NEW g \in Goroutine, NEW k \in {"invoke", "typename"}, Call(g, k)
      PROVE TypeOK'
  <2>1. work' \in [Goroutine -> 0..MaxWork]
    BY <1>4, Counters DEF Call
  <2>2. depth[g] + 1 \in 1..MaxDepth
    BY <1>4, Counters DEF Call, CanCall
  <2>3. kind' \in [Goroutine -> [1..MaxDepth -> {"invoke", "typename"}]]
    BY <1>4, <2>2 DEF Call
  <2> QED BY <1>4, <2>1, <2>3 DEF Call
<1>5. ASSUME NEW g \in Goroutine, Lock(g) PROVE TypeOK'
  <2>1. depth' \in [Goroutine -> 0..MaxDepth]
    BY <1>5, Counters DEF Lock
  <2> QED BY <1>5, <2>1 DEF Lock
<1>6. ASSUME NEW g \in Goroutine, Alloc(g) PROVE TypeOK'
  <2>1. depth[g] \in 1..MaxDepth
    BY <1>6 DEF Alloc
  <2>2. <<g, depth[g], "req">>
          \in Goroutine \X (1..MaxDepth) \X {"req", "resp", "cb"}
    BY <2>1
  <2>4. heap' = heap \/ heap' = heap \cup {<<g, depth[g], "req">>}
    BY <1>6 DEF Alloc
  <2>5. heap' \subseteq Goroutine \X (1..MaxDepth) \X {"req", "resp", "cb"}
    BY <2>2, <2>4
  <2>3. clobbered' \in BOOLEAN
    BY <1>6 DEF Alloc
  <2> QED BY <1>6, <2>5, <2>3 DEF Alloc
<1>7. ASSUME NEW g \in Goroutine, Enter(g) PROVE TypeOK'
  <2>1. depth[g] \in 1..MaxDepth
    BY <1>7 DEF Enter
  <2>2. sp' \in Nat
    BY <1>7 DEF Enter
  <2>3. slot' \in [Goroutine -> [1..MaxDepth -> Nat]]
    BY <1>7, <2>1 DEF Enter
  <2> QED BY <1>7, <2>2, <2>3 DEF Enter
<1>8. ASSUME NEW g \in Goroutine, Return(g) PROVE TypeOK'
  <2>1. depth[g] \in 1..MaxDepth
    BY <1>8 DEF Return
  <2>2. sp' \in Nat
    BY <1>8, <2>1 DEF Return
  <2>3. heap' \subseteq Goroutine \X (1..MaxDepth) \X {"req", "resp", "cb"}
    BY <1>8, <2>1 DEF Return
  <2>4. guestDesc' \in (Goroutine \X (1..MaxDepth)) \cup {NoCall}
    BY <1>8, <2>1 DEF Return, Top
  <2>5. pc' \in [Goroutine -> PCs]
    BY <1>8 DEF Return
  <2> QED BY <1>8, <2>2, <2>3, <2>4, <2>5 DEF Return
<1>9. ASSUME NEW g \in Goroutine, ReadResponse(g) PROVE TypeOK'
  BY <1>9 DEF ReadResponse
<1>10. ASSUME NEW g \in Goroutine, Trap(g) PROVE TypeOK'
  <2>1. depth[g] \in 1..MaxDepth
    BY <1>10 DEF Trap
  <2>2. sp' \in Nat
    BY <1>10, <2>1 DEF Trap
  <2> QED BY <1>10, <2>2 DEF Trap
<1>11. ASSUME NEW g \in Goroutine, TypeNameTrap(g) PROVE TypeOK'
  BY <1>11 DEF TypeNameTrap
<1>12. ASSUME NEW g \in Goroutine, FreeRequest(g) PROVE TypeOK'
  BY <1>12 DEF FreeRequest
<1>13. ASSUME NEW g \in Goroutine, Unlock(g) PROVE TypeOK'
  <2>1. depth[g] \in 1..MaxDepth /\ depth' \in [Goroutine -> 0..MaxDepth]
    BY <1>13, Counters DEF Unlock
  <2>2. kind' \in [Goroutine -> [1..MaxDepth -> {"invoke", "typename"}]]
    BY <1>13, <2>1 DEF Unlock
  <2>3. slot' \in [Goroutine -> [1..MaxDepth -> Nat]]
    BY <1>13, <2>1 DEF Unlock
  <2>4. work' \in [Goroutine -> 0..MaxWork]
    BY <1>13 DEF Unlock
  <2>5. awaiting' \in [Goroutine -> Goroutine \cup {NoGoroutine}]
    BY <1>13 DEF Unlock
  <2> QED BY <1>13, <2>1, <2>2, <2>3, <2>4, <2>5 DEF Unlock
<1>14. ASSUME NEW g \in Goroutine, Callback(g) PROVE TypeOK'
  <2>1. work' \in [Goroutine -> 0..MaxWork]
    BY <1>14, Counters DEF Callback
  <2> QED BY <1>14, <2>1 DEF Callback
<1>15. ASSUME NEW g \in Goroutine, HandlerReturn(g) PROVE TypeOK'
  BY <1>15 DEF HandlerReturn, InGo
<1>16. ASSUME NEW g \in Goroutine, Relock(g) PROVE TypeOK'
  <2>1. pc' \in [Goroutine -> PCs]
    BY <1>16 DEF Relock
  <2> QED BY <1>16, <2>1 DEF Relock
<1>17. ASSUME NEW g \in Goroutine, EncodeCallbackResult(g) PROVE TypeOK'
  <2>1. depth[g] \in 1..MaxDepth
    BY <1>17 DEF EncodeCallbackResult
  <2>2. heap' \subseteq Goroutine \X (1..MaxDepth) \X {"req", "resp", "cb"}
    BY <1>17, <2>1 DEF EncodeCallbackResult
  <2>3. hostDesc' \in (Goroutine \X (1..MaxDepth)) \cup {NoCall}
    BY <1>17, <2>1 DEF EncodeCallbackResult, Top
  <2>4. clobbered' \in BOOLEAN
    BY <1>17 DEF EncodeCallbackResult
  <2> QED BY <1>17, <2>2, <2>3, <2>4 DEF EncodeCallbackResult
<1>18. ASSUME NEW g \in Goroutine, DecodeResult(g) PROVE TypeOK'
  BY <1>18 DEF DecodeResult
<1>19. ASSUME NEW g \in Goroutine, NEW h \in Goroutine, HandlerAwaits(g, h)
       PROVE TypeOK'
  <2>1. work' \in [Goroutine -> 0..MaxWork]
    BY <1>19, Counters DEF HandlerAwaits
  <2>2. kind' \in [Goroutine -> [1..MaxDepth -> {"invoke", "typename"}]]
    BY <1>19 DEF HandlerAwaits
  <2>3. awaiting' \in [Goroutine -> Goroutine \cup {NoGoroutine}]
    BY <1>19 DEF HandlerAwaits
  <2> QED BY <1>19, <2>1, <2>2, <2>3 DEF HandlerAwaits
<1> HIDE DEF TypeOK, Discipline
<1> QED
  BY <1>1, <1>2, <1>3, <1>4, <1>5, <1>6, <1>7, <1>8, <1>9, <1>10, <1>11,
     <1>12, <1>13, <1>14, <1>15, <1>16, <1>17, <1>18, <1>19 DEF Next

\* Every step keeps the discipline of every goroutine.
LEMMA DisciplineStep ==
  ASSUME IInv, [Next]_vars, NEW x \in Goroutine PROVE Discipline(x)'
<1> TypeOK /\ InitAlone /\ \A g \in Goroutine : Discipline(g)
  BY DEF IInv
<1> USE ConstantsAssumption
    DEF TypeOK, Discipline, Inside, InModule, Goto, PCs
<1>1. CASE UNCHANGED vars
  BY <1>1 DEF vars
<1>2. ASSUME NEW g \in Goroutine, InitModule(g) PROVE Discipline(x)'
  BY <1>2 DEF InitModule, InGo
<1>3. ASSUME NEW g \in Goroutine, InitModuleDone(g) PROVE Discipline(x)'
  BY <1>3 DEF InitModuleDone
<1>4. ASSUME NEW g \in Goroutine, NEW k \in {"invoke", "typename"}, Call(g, k)
      PROVE Discipline(x)'
  BY <1>4 DEF Call, CanCall, InGo, Work
<1>5. ASSUME NEW g \in Goroutine, Lock(g) PROVE Discipline(x)'
  BY <1>5 DEF Lock
<1>6. ASSUME NEW g \in Goroutine, Alloc(g) PROVE Discipline(x)'
  BY <1>6 DEF Alloc
<1>7. ASSUME NEW g \in Goroutine, Enter(g) PROVE Discipline(x)'
  BY <1>7 DEF Enter
<1>8. ASSUME NEW g \in Goroutine, Return(g) PROVE Discipline(x)'
  BY <1>8 DEF Return, Top
<1>9. ASSUME NEW g \in Goroutine, ReadResponse(g) PROVE Discipline(x)'
  BY <1>9 DEF ReadResponse
<1>10. ASSUME NEW g \in Goroutine, Trap(g) PROVE Discipline(x)'
  BY <1>10 DEF Trap
<1>11. ASSUME NEW g \in Goroutine, TypeNameTrap(g) PROVE Discipline(x)'
  BY <1>11 DEF TypeNameTrap
<1>12. ASSUME NEW g \in Goroutine, FreeRequest(g) PROVE Discipline(x)'
  BY <1>12 DEF FreeRequest
<1>13. ASSUME NEW g \in Goroutine, Unlock(g) PROVE Discipline(x)'
  BY <1>13 DEF Unlock
<1>14. ASSUME NEW g \in Goroutine, Callback(g) PROVE Discipline(x)'
  BY <1>14 DEF Callback, Work
<1>15. ASSUME NEW g \in Goroutine, HandlerReturn(g) PROVE Discipline(x)'
  BY <1>15 DEF HandlerReturn, InGo
<1>16. ASSUME NEW g \in Goroutine, Relock(g) PROVE Discipline(x)'
  BY <1>16 DEF Relock
<1>17. ASSUME NEW g \in Goroutine, EncodeCallbackResult(g)
       PROVE Discipline(x)'
  BY <1>17 DEF EncodeCallbackResult, Top
<1>18. ASSUME NEW g \in Goroutine, DecodeResult(g) PROVE Discipline(x)'
  BY <1>18 DEF DecodeResult
<1>19. ASSUME NEW g \in Goroutine, NEW h \in Goroutine, HandlerAwaits(g, h)
       PROVE Discipline(x)'
  BY <1>19 DEF HandlerAwaits, CanCall, InGo, Work
<1> QED
  BY <1>1, <1>2, <1>3, <1>4, <1>5, <1>6, <1>7, <1>8, <1>9, <1>10, <1>11,
     <1>12, <1>13, <1>14, <1>15, <1>16, <1>17, <1>18, <1>19 DEF Next

\* Every step leaves initModule alone.
LEMMA InitAloneStep == ASSUME IInv, [Next]_vars PROVE InitAlone'
<1> TypeOK /\ InitAlone /\ \A g \in Goroutine : Discipline(g)
  BY DEF IInv
<1> USE ConstantsAssumption
    DEF TypeOK, InitAlone, Discipline, Inside, InModule, Goto, PCs
<1>1. CASE UNCHANGED vars
  BY <1>1 DEF vars
<1>2. ASSUME NEW g \in Goroutine, InitModule(g) PROVE InitAlone'
  BY <1>2 DEF InitModule, InGo
<1>3. ASSUME NEW g \in Goroutine, InitModuleDone(g) PROVE InitAlone'
  BY <1>3 DEF InitModuleDone
<1>4. ASSUME NEW g \in Goroutine, NEW k \in {"invoke", "typename"}, Call(g, k)
      PROVE InitAlone'
  BY <1>4 DEF Call, CanCall, InGo, Work
<1>5. ASSUME NEW g \in Goroutine, Lock(g) PROVE InitAlone'
  BY <1>5 DEF Lock
<1>6. ASSUME NEW g \in Goroutine, Alloc(g) PROVE InitAlone'
  BY <1>6 DEF Alloc
<1>7. ASSUME NEW g \in Goroutine, Enter(g) PROVE InitAlone'
  BY <1>7 DEF Enter
<1>8. ASSUME NEW g \in Goroutine, Return(g) PROVE InitAlone'
  BY <1>8 DEF Return, Top
<1>9. ASSUME NEW g \in Goroutine, ReadResponse(g) PROVE InitAlone'
  BY <1>9 DEF ReadResponse
<1>10. ASSUME NEW g \in Goroutine, Trap(g) PROVE InitAlone'
  BY <1>10 DEF Trap
<1>11. ASSUME NEW g \in Goroutine, TypeNameTrap(g) PROVE InitAlone'
  BY <1>11 DEF TypeNameTrap
<1>12. ASSUME NEW g \in Goroutine, FreeRequest(g) PROVE InitAlone'
  BY <1>12 DEF FreeRequest
<1>13. ASSUME NEW g \in Goroutine, Unlock(g) PROVE InitAlone'
  BY <1>13 DEF Unlock
<1>14. ASSUME NEW g \in Goroutine, Callback(g) PROVE InitAlone'
  BY <1>14 DEF Callback, Work
<1>15. ASSUME NEW g \in Goroutine, HandlerReturn(g) PROVE InitAlone'
  BY <1>15 DEF HandlerReturn, InGo
<1>16. ASSUME NEW g \in Goroutine, Relock(g) PROVE InitAlone'
  BY <1>16 DEF Relock
<1>17. ASSUME NEW g \in Goroutine, EncodeCallbackResult(g) PROVE InitAlone'
  BY <1>17 DEF EncodeCallbackResult, Top
<1>18. ASSUME NEW g \in Goroutine, DecodeResult(g) PROVE InitAlone'
  BY <1>18 DEF DecodeResult
<1>19. ASSUME NEW g \in Goroutine, NEW h \in Goroutine, HandlerAwaits(g, h)
       PROVE InitAlone'
  BY <1>19 DEF HandlerAwaits, CanCall, InGo, Work
<1> QED
  BY <1>1, <1>2, <1>3, <1>4, <1>5, <1>6, <1>7, <1>8, <1>9, <1>10, <1>11,
     <1>12, <1>13, <1>14, <1>15, <1>16, <1>17, <1>18, <1>19 DEF Next

\* The three parts together hold in every behaviour.
LEMMA InductiveInvariant == Spec => []IInv
<1>1. IInv /\ [Next]_vars => IInv'
  BY TypeStep, DisciplineStep, InitAloneStep DEF IInv
<1> QED BY InitIInv, <1>1, PTL DEF Spec

-----------------------------------------------------------------------------
\* The runtime's state stays in its types.
THEOREM TypeCorrect == Spec => []TypeOK
<1>1. IInv => TypeOK
  BY DEF IInv
<1> QED BY InductiveInvariant, <1>1, PTL

\* Whoever touches the transpiled module holds m.mu, although callbacks give
\* it up and take it again in mid-call, and initModule runs alone.
THEOREM Exclusion == Spec => []ModuleTouchedUnderLock
<1>1. ASSUME IInv PROVE ModuleTouchedUnderLock
  <2>1. ASSUME NEW g \in Goroutine, pc[g] = "init", NEW h \in Goroutine \ {g}
        PROVE  pc[h] = "go" /\ depth[h] = 0
    BY <1>1, <2>1 DEF IInv, InitAlone
  <2> QED
    BY <1>1, <2>1 DEF IInv, Discipline, ModuleTouchedUnderLock
<1> QED BY InductiveInvariant, <1>1, PTL
-----------------------------------------------------------------------------
\* Every step keeps the two descriptors: only the owner of m.mu writes them.
LEMMA DescriptorStep ==
  ASSUME IInv, DescriptorIsOwn, [Next]_vars PROVE DescriptorIsOwn'
<1> TypeOK /\ \A g \in Goroutine : Discipline(g)
  BY DEF IInv
<1> /\ pc \in [Goroutine -> PCs] /\ depth \in [Goroutine -> 0..MaxDepth]
    /\ \A g \in Goroutine : pc[g] \in InModule => mu = g
  BY DEF TypeOK, Discipline
<1> USE DEF DescriptorIsOwn, InModule, Goto, Top
<1>1. CASE UNCHANGED vars
  BY <1>1 DEF vars
<1>2. ASSUME NEW g \in Goroutine, InitModule(g) PROVE DescriptorIsOwn'
  BY <1>2 DEF InitModule, InGo
<1>3. ASSUME NEW g \in Goroutine, InitModuleDone(g) PROVE DescriptorIsOwn'
  BY <1>3 DEF InitModuleDone
<1>4. ASSUME NEW g \in Goroutine, NEW k \in {"invoke", "typename"}, Call(g, k)
      PROVE DescriptorIsOwn'
  BY <1>4 DEF Call, InGo
<1>5. ASSUME NEW g \in Goroutine, Lock(g) PROVE DescriptorIsOwn'
  BY <1>5 DEF Lock
<1>6. ASSUME NEW g \in Goroutine, Alloc(g) PROVE DescriptorIsOwn'
  BY <1>6 DEF Alloc
<1>7. ASSUME NEW g \in Goroutine, Enter(g) PROVE DescriptorIsOwn'
  BY <1>7 DEF Enter
<1>8. ASSUME NEW g \in Goroutine, Return(g) PROVE DescriptorIsOwn'
  BY <1>8 DEF Return
<1>9. ASSUME NEW g \in Goroutine, ReadResponse(g) PROVE DescriptorIsOwn'
  BY <1>9 DEF ReadResponse
<1>10. ASSUME NEW g \in Goroutine, Trap(g) PROVE DescriptorIsOwn'
  BY <1>10 DEF Trap
<1>11. ASSUME NEW g \in Goroutine, TypeNameTrap(g) PROVE DescriptorIsOwn'
  BY <1>11 DEF TypeNameTrap
<1>12. ASSUME NEW g \in Goroutine, FreeRequest(g) PROVE DescriptorIsOwn'
  BY <1>12 DEF FreeRequest
<1>13. ASSUME NEW g \in Goroutine, Unlock(g) PROVE DescriptorIsOwn'
  BY <1>13 DEF Unlock
<1>14. ASSUME NEW g \in Goroutine, Callback(g) PROVE DescriptorIsOwn'
  BY <1>14 DEF Callback
<1>15. ASSUME NEW g \in Goroutine, HandlerReturn(g) PROVE DescriptorIsOwn'
  BY <1>15 DEF HandlerReturn, InGo
<1>16. ASSUME NEW g \in Goroutine, Relock(g) PROVE DescriptorIsOwn'
  BY <1>16 DEF Relock
<1>17. ASSUME NEW g \in Goroutine, EncodeCallbackResult(g)
       PROVE DescriptorIsOwn'
  BY <1>17 DEF EncodeCallbackResult
<1>18. ASSUME NEW g \in Goroutine, DecodeResult(g) PROVE DescriptorIsOwn'
  BY <1>18 DEF DecodeResult
<1>19. ASSUME NEW g \in Goroutine, NEW h \in Goroutine, HandlerAwaits(g, h)
       PROVE DescriptorIsOwn'
  BY <1>19 DEF HandlerAwaits, InGo
<1> QED
  BY <1>1, <1>2, <1>3, <1>4, <1>5, <1>6, <1>7, <1>8, <1>9, <1>10, <1>11,
     <1>12, <1>13, <1>14, <1>15, <1>16, <1>17, <1>18, <1>19 DEF Next

\* m.cbDesc and the static pair of the C++ bridge, one of each for all calls,
\* describe this call's result when it is read, for any number of goroutines
\* in callbacks at once.
THEOREM DescriptorsHold == Spec => []DescriptorIsOwn
<1>1. Init => DescriptorIsOwn
  BY DEF Init, DescriptorIsOwn
<1>2. IInv /\ DescriptorIsOwn /\ [Next]_vars => DescriptorIsOwn'
  BY DescriptorStep
<1> QED BY InductiveInvariant, <1>1, <1>2, PTL DEF Spec

\* Every buffer belongs to a call in progress, and is freed before its call
\* comes to the unlock.
Owned(b) ==
  /\ b[2] <= depth[b[1]]
  /\ b[3] # "req" =>
       /\ b[2] = depth[b[1]]
       /\ pc[b[1]] = IF b[3] = "resp" THEN "read" ELSE "result"
  /\ b[2] = depth[b[1]] => pc[b[1]] # "unlock"

BuffersOwned == \A b \in heap : Owned(b)

\* Every step but a trap in resolveTypeName keeps the buffers owned.
LEMMA BuffersStep ==
  ASSUME TypeNameMayTrap = FALSE, IInv, BuffersOwned, [Next]_vars
  PROVE  BuffersOwned'
<1> TypeOK /\ \A g \in Goroutine : Discipline(g)
  BY DEF IInv
<1> /\ pc \in [Goroutine -> PCs] /\ depth \in [Goroutine -> 0..MaxDepth]
    /\ heap \subseteq Goroutine \X (1..MaxDepth) \X {"req", "resp", "cb"}
    /\ MaxDepth \in Nat
  BY ConstantsAssumption DEF TypeOK
<1> SUFFICES ASSUME NEW b \in heap' PROVE Owned(b)'
  BY DEF BuffersOwned
<1> USE DEF BuffersOwned, Owned, Goto
<1>1. CASE UNCHANGED vars
  BY <1>1 DEF vars
<1>2. ASSUME NEW g \in Goroutine, InitModule(g) PROVE Owned(b)'
  BY <1>2 DEF InitModule, InGo
<1>3. ASSUME NEW g \in Goroutine, InitModuleDone(g) PROVE Owned(b)'
  BY <1>3 DEF InitModuleDone
<1>4. ASSUME NEW g \in Goroutine, NEW k \in {"invoke", "typename"}, Call(g, k)
      PROVE Owned(b)'
  BY <1>4 DEF Call, InGo
<1>5. ASSUME NEW g \in Goroutine, Lock(g) PROVE Owned(b)'
  BY <1>5 DEF Lock
<1>6. ASSUME NEW g \in Goroutine, Alloc(g) PROVE Owned(b)'
  BY <1>6 DEF Alloc
<1>7. ASSUME NEW g \in Goroutine, Enter(g) PROVE Owned(b)'
  BY <1>7 DEF Enter
<1>8. ASSUME NEW g \in Goroutine, Return(g) PROVE Owned(b)'
  BY <1>8 DEF Return
<1>9. ASSUME NEW g \in Goroutine, ReadResponse(g) PROVE Owned(b)'
  BY <1>9 DEF ReadResponse
<1>10. ASSUME NEW g \in Goroutine, Trap(g) PROVE Owned(b)'
  BY <1>10 DEF Trap
<1>11. ASSUME NEW g \in Goroutine, TypeNameTrap(g) PROVE Owned(b)'
  BY <1>11 DEF TypeNameTrap
<1>12. ASSUME NEW g \in Goroutine, FreeRequest(g) PROVE Owned(b)'
  BY <1>12 DEF FreeRequest
<1>13. ASSUME NEW g \in Goroutine, Unlock(g) PROVE Owned(b)'
  BY <1>13 DEF Unlock
<1>14. ASSUME NEW g \in Goroutine, Callback(g) PROVE Owned(b)'
  BY <1>14 DEF Callback
<1>15. ASSUME NEW g \in Goroutine, HandlerReturn(g) PROVE Owned(b)'
  BY <1>15 DEF HandlerReturn, InGo
<1>16. ASSUME NEW g \in Goroutine, Relock(g) PROVE Owned(b)'
  BY <1>16 DEF Relock
<1>17. ASSUME NEW g \in Goroutine, EncodeCallbackResult(g) PROVE Owned(b)'
  BY <1>17 DEF EncodeCallbackResult
<1>18. ASSUME NEW g \in Goroutine, DecodeResult(g) PROVE Owned(b)'
  BY <1>18 DEF DecodeResult
<1>19. ASSUME NEW g \in Goroutine, NEW h \in Goroutine, HandlerAwaits(g, h)
       PROVE Owned(b)'
  BY <1>19 DEF HandlerAwaits, InGo
<1> QED
  BY <1>1, <1>2, <1>3, <1>4, <1>5, <1>6, <1>7, <1>8, <1>9, <1>10, <1>11,
     <1>12, <1>13, <1>14, <1>15, <1>16, <1>17, <1>18, <1>19 DEF Next

\* No request, response or callback buffer outlives its call, if
\* resolveTypeName does not trap (wasm2go_nested checks it; resolveTypeName
\* defers the free only after the call).
THEOREM BuffersAreFreed ==
  ASSUME TypeNameMayTrap = FALSE PROVE Spec => []BuffersFreed
<1>1. Init => BuffersOwned
  BY DEF Init, BuffersOwned
<1>2. IInv /\ BuffersOwned /\ [Next]_vars => BuffersOwned'
  BY BuffersStep
<1>3. BuffersOwned => BuffersFreed
  BY DEF BuffersOwned, Owned, BuffersFreed
<1> QED BY InductiveInvariant, <1>1, <1>2, <1>3, PTL DEF Spec
-----------------------------------------------------------------------------
(***************************************************************************)
(* The C stack, for any number of goroutines of which one, a, has calls     *)
(* whose C++ code calls back.  The calls of a are at the bottom of the      *)
(* stack, one frame each; the others, which give m.mu back only when they   *)
(* end, have at most one frame between them, on top of those of a.          *)
(***************************************************************************)
\* The frames of a: its calls but for one that has not entered C++ yet, or
\* has left it.
Frames(a) ==
  IF pc[a] \in FrameOnStack \cup {"init"} THEN depth[a] ELSE depth[a] - 1

\* A goroutine without callbacks has one call at most, which is never
\* suspended.
Simple(h) ==
  /\ depth[h] <= 1
  /\ pc[h] \in {"go", "lock", "init"} => depth[h] = 0
  /\ pc[h] \notin {"relock", "encode", "result", "trapped"}

\* Where the frames are, and the stack pointer.
Shape(a) ==
  /\ \A h \in Goroutine \ {a} : Simple(h)
  /\ \A d \in 1..Frames(a) : slot[a][d] = d - 1
  /\ \A h \in Goroutine \ {a} :
       pc[h] = "wasm" => slot[h][1] = Frames(a) /\ sp = Frames(a) + 1
  /\ (\A h \in Goroutine \ {a} : pc[h] # "wasm") => sp = Frames(a)

\* Every step keeps the shape of the stack.
LEMMA ShapeStep ==
  ASSUME NEW a \in Goroutine, CallbackGoroutine \subseteq {a},
         TypeNameMayTrap = FALSE, IInv, Shape(a), [Next]_vars
  PROVE  Shape(a)'
<1> TypeOK /\ \A g \in Goroutine : Discipline(g)
  BY DEF IInv
<1> /\ pc \in [Goroutine -> PCs] /\ depth \in [Goroutine -> 0..MaxDepth]
    /\ slot \in [Goroutine -> [1..MaxDepth -> Nat]] /\ sp \in Nat
    /\ MaxDepth \in Nat \ {0}
    /\ \A g \in Goroutine : pc[g] \in InModule \cup {"unlock"} => mu = g
    /\ \A g \in Goroutine : pc[g] \in Inside => depth[g] > 0
    /\ NoGoroutine \notin Goroutine
  BY ConstantsAssumption DEF TypeOK, Discipline
<1> USE DEF Shape, Frames, Simple, FrameOnStack, InModule, Inside, Goto
<1>1. CASE UNCHANGED vars
  BY <1>1 DEF vars
<1>2. ASSUME NEW g \in Goroutine, InitModule(g) PROVE Shape(a)'
  BY <1>2 DEF InitModule, InGo
<1>3. ASSUME NEW g \in Goroutine, InitModuleDone(g) PROVE Shape(a)'
  BY <1>3 DEF InitModuleDone
<1>4. ASSUME NEW g \in Goroutine, NEW k \in {"invoke", "typename"}, Call(g, k)
      PROVE Shape(a)'
  BY <1>4 DEF Call, InGo
<1>5. ASSUME NEW g \in Goroutine, Lock(g) PROVE Shape(a)'
  BY <1>5 DEF Lock
<1>6. ASSUME NEW g \in Goroutine, Alloc(g) PROVE Shape(a)'
  BY <1>6 DEF Alloc
<1>7. ASSUME NEW g \in Goroutine, Enter(g) PROVE Shape(a)'
  BY <1>7 DEF Enter
<1>8. ASSUME NEW g \in Goroutine, Return(g) PROVE Shape(a)'
  <2>1. /\ pc[g] = "wasm" /\ mu = g
        /\ sp' = slot[g][depth[g]]
        /\ UNCHANGED <<depth, slot>>
    BY <1>8 DEF Return
  <2>2. PICK l \in {"read", "free"} : pc' = [pc EXCEPT ![g] = l]
    BY <1>8 DEF Return
  <2>3. \A h \in Goroutine \ {g} : pc[h] # "wasm"
    BY <2>1
  <2>4. CASE g = a
    BY <2>1, <2>2, <2>3, <2>4
  <2>5. CASE g # a
    <3>1. Frames(a)' = Frames(a) /\ depth[g] = 1
      BY <2>1, <2>2, <2>5
    <3> QED BY <2>1, <2>2, <2>3, <2>5, <3>1
  <2> QED BY <2>4, <2>5
<1>9. ASSUME NEW g \in Goroutine, ReadResponse(g) PROVE Shape(a)'
  BY <1>9 DEF ReadResponse
<1>10. ASSUME NEW g \in Goroutine, Trap(g) PROVE Shape(a)'
  BY <1>10 DEF Trap
<1>11. ASSUME NEW g \in Goroutine, TypeNameTrap(g) PROVE Shape(a)'
  BY <1>11 DEF TypeNameTrap
<1>12. ASSUME NEW g \in Goroutine, FreeRequest(g) PROVE Shape(a)'
  BY <1>12 DEF FreeRequest
<1>13. ASSUME NEW g \in Goroutine, Unlock(g) PROVE Shape(a)'
  BY <1>13 DEF Unlock
<1>14. ASSUME NEW g \in Goroutine, Callback(g) PROVE Shape(a)'
  BY <1>14 DEF Callback
<1>15. ASSUME NEW g \in Goroutine, HandlerReturn(g) PROVE Shape(a)'
  BY <1>15 DEF HandlerReturn, InGo
<1>16. ASSUME NEW g \in Goroutine, Relock(g) PROVE Shape(a)'
  BY <1>16 DEF Relock
<1>17. ASSUME NEW g \in Goroutine, EncodeCallbackResult(g) PROVE Shape(a)'
  BY <1>17 DEF EncodeCallbackResult
<1>18. ASSUME NEW g \in Goroutine, DecodeResult(g) PROVE Shape(a)'
  BY <1>18 DEF DecodeResult
<1>19. ASSUME NEW g \in Goroutine, NEW h \in Goroutine, HandlerAwaits(g, h)
       PROVE Shape(a)'
  BY <1>19 DEF HandlerAwaits, InGo
<1> QED
  BY <1>1, <1>2, <1>3, <1>4, <1>5, <1>6, <1>7, <1>8, <1>9, <1>10, <1>11,
     <1>12, <1>13, <1>14, <1>15, <1>16, <1>17, <1>18, <1>19 DEF Next

-----------------------------------------------------------------------------
\* The goroutines other than a that run C++: one at most.
Guests(a) == {h \in Goroutine \ {a} : pc[h] = "wasm"}
Guest(a) == CHOOSE h \in Guests(a) : TRUE

\* The call whose frame is the i-th from the bottom.
Cell(a, i) == IF i <= Frames(a) THEN <<a, i>> ELSE <<Guest(a), 1>>

\* How many frames there are.
LEMMA StackPointer ==
  ASSUME NEW a \in Goroutine, IInv, Shape(a)
  PROVE  /\ Frames(a) \in 0..MaxDepth
         /\ Guests(a) = {} => sp = Frames(a)
         /\ Guests(a) # {} => /\ Guests(a) = {Guest(a)} /\ sp = Frames(a) + 1
                              /\ slot[Guest(a)][1] = Frames(a)
<1> /\ pc \in [Goroutine -> PCs] /\ depth \in [Goroutine -> 0..MaxDepth]
    /\ MaxDepth \in Nat \ {0}
    /\ \A g \in Goroutine : pc[g] \in InModule => mu = g
    /\ \A g \in Goroutine : pc[g] \in Inside => depth[g] > 0
  BY ConstantsAssumption DEF IInv, TypeOK, Discipline
<1>1. Frames(a) \in 0..MaxDepth
  BY DEF Frames, FrameOnStack, Inside, InModule, PCs
<1>2. ASSUME Guests(a) # {}
      PROVE  Guest(a) \in Guests(a) /\ Guests(a) = {Guest(a)}
  BY <1>2 DEF Guests, Guest, InModule
<1> QED BY <1>1, <1>2 DEF Shape, Guests

\* The live calls are those of the cells, each at its place.
LEMMA LiveCells ==
  ASSUME NEW a \in Goroutine, IInv, Shape(a)
  PROVE  /\ Live = {Cell(a, i) : i \in 1..sp}
         /\ \A i \in 1..sp : slot[Cell(a, i)[1]][Cell(a, i)[2]] = i - 1
<1> /\ pc \in [Goroutine -> PCs] /\ depth \in [Goroutine -> 0..MaxDepth]
    /\ MaxDepth \in Nat \ {0} /\ Frames(a) \in 0..MaxDepth
    /\ \A g \in Goroutine : pc[g] \in Inside => depth[g] > 0
    /\ pc[a] = "init" => depth[a] = 0
  BY ConstantsAssumption, StackPointer DEF IInv, TypeOK, Discipline, InitAlone
<1>1. ASSUME NEW d \in 1..MaxDepth
      PROVE  <<a, d>> \in Live <=> d <= Frames(a)
  BY DEF Live, Frames, FrameOnStack, PCs, Inside, InModule
<1>2. ASSUME NEW h \in Goroutine \ {a}, NEW d \in 1..MaxDepth
      PROVE  <<h, d>> \in Live <=> h \in Guests(a) /\ d = 1
  <2>1. Simple(h)
    BY DEF Shape
  <2> QED BY <2>1 DEF Live, Simple, FrameOnStack, Guests, Inside, InModule, PCs
<1>3. ASSUME NEW c \in Live PROVE \E i \in 1..sp : c = Cell(a, i)
  <2>1. PICK g \in Goroutine, d \in 1..MaxDepth : c = <<g, d>>
    BY DEF Live
  <2>2. CASE g = a
    <3>1. d <= Frames(a) /\ d \in 1..sp
      BY <1>1, <2>1, <2>2, StackPointer
    <3> QED BY <2>1, <2>2, <3>1 DEF Cell
  <2>3. CASE g # a
    <3>1. g \in Guests(a) /\ d = 1
      BY <1>2, <2>1, <2>3
    <3>2. g = Guest(a) /\ sp = Frames(a) + 1
      BY <3>1, StackPointer
    <3>3. c = Cell(a, sp) /\ sp \in 1..sp
      BY <2>1, <3>1, <3>2 DEF Cell
    <3> QED BY <3>3
  <2> QED BY <2>2, <2>3
<1>4. ASSUME NEW i \in 1..sp
      PROVE  /\ Cell(a, i) \in Live
             /\ slot[Cell(a, i)[1]][Cell(a, i)[2]] = i - 1
  <2>1. CASE i <= Frames(a)
    <3>1. Cell(a, i) = <<a, i>> /\ i \in 1..MaxDepth /\ i \in 1..Frames(a)
      BY <2>1, StackPointer DEF Cell
    <3> QED BY <1>1, <2>1, <3>1 DEF Shape
  <2>2. CASE ~(i <= Frames(a))
    <3>1. Guests(a) # {} /\ i = Frames(a) + 1
      BY <2>2, StackPointer
    <3>2. Cell(a, i) = <<Guest(a), 1>> /\ Guest(a) \in Guests(a)
      BY <2>2, <3>1, StackPointer DEF Cell
    <3>3. Guest(a) \in Goroutine \ {a} /\ 1 \in 1..MaxDepth
      BY <3>2 DEF Guests
    <3> QED BY <1>2, <3>1, <3>2, <3>3, StackPointer
  <2> QED BY <2>1, <2>2
<1> QED BY <1>3, <1>4

\* C++ runs only while its frame is the top of the stack.
LEMMA ShapeTop ==
  ASSUME NEW a \in Goroutine, IInv, Shape(a) PROVE RunningFrameOnTop
<1> SUFFICES ASSUME NEW g \in Goroutine,
                    pc[g] \in {"wasm", "encode", "result", "trapped"}
             PROVE  sp = slot[g][depth[g]] + 1
  BY DEF RunningFrameOnTop
<1> /\ mu = g /\ depth[g] \in 1..MaxDepth /\ sp \in Nat
    /\ \A h \in Goroutine : pc[h] = "wasm" => mu = h
  BY ConstantsAssumption DEF IInv, TypeOK, Discipline, InModule, Inside
<1>1. CASE g = a
  <2>1. Guests(a) = {} /\ Frames(a) = depth[a]
    BY <1>1 DEF Guests, Frames, FrameOnStack
  <2> QED BY <1>1, <2>1, StackPointer DEF Shape
<1>2. CASE g # a
  <2>1. pc[g] = "wasm" /\ depth[g] = 1
    BY <1>2 DEF Shape, Simple
  <2> QED BY <1>2, <2>1 DEF Shape
<1> QED BY <1>1, <1>2

\* Every live call has a frame of its own below the stack pointer.
LEMMA ShapeIntact ==
  ASSUME NEW a \in Goroutine, IInv, Shape(a) PROVE FramesIntact
<1> sp \in Nat
  BY DEF IInv, TypeOK
<1>1. ASSUME NEW c1 \in Live, NEW c2 \in Live
      PROVE  /\ slot[c1[1]][c1[2]] < sp
             /\ c1 # c2 => slot[c1[1]][c1[2]] # slot[c2[1]][c2[2]]
  <2>1. PICK i \in 1..sp : c1 = Cell(a, i) /\ slot[c1[1]][c1[2]] = i - 1
    BY LiveCells
  <2>2. PICK j \in 1..sp : c2 = Cell(a, j) /\ slot[c2[1]][c2[2]] = j - 1
    BY LiveCells
  <2> QED BY <2>1, <2>2
<1>2. Live = {} => sp = 0
  <2>1. sp # 0 => Cell(a, 1) \in Live
    BY LiveCells
  <2> QED BY <2>1
<1> QED BY <1>1, <1>2 DEF FramesIntact

\* In every behaviour the stack has its shape, if no lookup traps and only a
\* has calls that call back.
LEMMA ShapeAlways ==
  ASSUME NEW a \in Goroutine, CallbackGoroutine \subseteq {a},
         TypeNameMayTrap = FALSE
  PROVE  Spec => [](IInv /\ Shape(a))
<1>1. Init => Shape(a)
  BY ConstantsAssumption DEF Init, Shape, Simple, Frames, FrameOnStack
<1>2. IInv /\ Shape(a) /\ [Next]_vars => Shape(a)'
  BY ShapeStep
<1>3. Spec => []IInv
  BY InductiveInvariant
<1> QED BY <1>1, <1>2, <1>3, PTL DEF Spec

\* With callbacks on one goroutine, C++ code runs only while its frame is the
\* top of the C stack, although m.mu is given back in mid-call.
THEOREM OnTop ==
  ASSUME NEW a \in Goroutine, CallbackGoroutine \subseteq {a},
         TypeNameMayTrap = FALSE
  PROVE  Spec => []RunningFrameOnTop
<1>1. Spec => [](IInv /\ Shape(a))
  BY ShapeAlways
<1>2. IInv /\ Shape(a) => RunningFrameOnTop
  BY ShapeTop
<1> QED BY <1>1, <1>2, PTL

\* With callbacks on one goroutine, no frame is reused or overwritten while
\* its activation is suspended, and none is left when no call is in progress,
\* whatever traps and panics there were.
THEOREM FramesAreIntact ==
  ASSUME NEW a \in Goroutine, CallbackGoroutine \subseteq {a},
         TypeNameMayTrap = FALSE
  PROVE  Spec => []FramesIntact
<1>1. Spec => [](IInv /\ Shape(a))
  BY ShapeAlways
<1>2. IInv /\ Shape(a) => FramesIntact
  BY ShapeIntact
<1> QED BY <1>1, <1>2, PTL
-----------------------------------------------------------------------------
(***************************************************************************)
(* Refinement of WasmStack.                                                 *)
(***************************************************************************)
\* As many cells from the bottom as one asks for.
LEMMA CellsCounted ==
  ASSUME NEW a \in Goroutine, IInv, Shape(a), NEW m \in 0..sp
  PROVE  Cardinality({Cell(a, i) : i \in 1..m}) = m
<1> DEFINE f == [i \in 1..m |-> Cell(a, i)]
           S == {Cell(a, i) : i \in 1..m}
<1> sp \in Nat
  BY DEF IInv, TypeOK
<1>1. \A i, j \in 1..m : Cell(a, i) = Cell(a, j) => i = j
  <2> SUFFICES ASSUME NEW i \in 1..m, NEW j \in 1..m, Cell(a, i) = Cell(a, j)
               PROVE  i = j
    OBVIOUS
  <2>1. i - 1 = j - 1
    BY LiveCells
  <2> QED BY <2>1
<1>2. f \in Bijection(1..m, S)
  BY <1>1 DEF Bijection, Injection, Surjection, IsInjective
<1>3. ExistsBijection(1..m, S)
  BY <1>2 DEF ExistsBijection
<1>4. IsFiniteSet(1..m) /\ Cardinality(1..m) = m
  BY FS_Interval
<1> QED BY <1>3, <1>4, FS_Bijection

\* The stack as WasmStack has it: the goroutine of each cell.
Cells(a) == [i \in 1..sp |-> Cell(a, i)[1]]

\* The abstract stack, chosen by counting frames, is that sequence.
LEMMA StackIsCells ==
  ASSUME NEW a \in Goroutine, IInv, Shape(a) PROVE LiveStack = Cells(a)
<1> sp \in Nat
  BY DEF IInv, TypeOK
<1>1. Cardinality(Live) = sp
  BY LiveCells, CellsCounted
<1>2. ASSUME NEW k \in 1..sp
      PROVE  Cardinality({b \in Live : slot[b[1]][b[2]]
                            < slot[Cell(a, k)[1]][Cell(a, k)[2]]}) = k - 1
  <2> DEFINE below == {b \in Live : slot[b[1]][b[2]]
                         < slot[Cell(a, k)[1]][Cell(a, k)[2]]}
  <2>1. below = {Cell(a, i) : i \in 1..(k - 1)}
    BY LiveCells
  <2> QED BY <2>1, CellsCounted
<1>3. ASSUME NEW i \in 1..sp PROVE FrameAt(i) = Cell(a, i)
  <2> DEFINE Place(c) == Cardinality({b \in Live : slot[b[1]][b[2]]
                                        < slot[c[1]][c[2]]})
  <2>1. Cell(a, i) \in Live /\ Place(Cell(a, i)) = i - 1
    BY <1>2, LiveCells
  <2>2. ASSUME NEW c \in Live, Place(c) = i - 1 PROVE c = Cell(a, i)
    <3>1. PICK k \in 1..sp : c = Cell(a, k)
      BY LiveCells
    <3>2. Place(c) = k - 1
      BY <1>2, <3>1
    <3> QED BY <2>2, <3>1, <3>2
  <2>3. FrameAt(i) = CHOOSE c \in Live : Place(c) = i - 1
    BY DEF FrameAt
  <2> HIDE DEF Place
  <2> QED BY <2>1, <2>2, <2>3
<1> QED BY <1>1, <1>3 DEF LiveStack, Cells

\* A step that neither starts nor ends an activation.
LEMMA CellsSame ==
  ASSUME NEW a \in Goroutine, sp' = sp, Frames(a)' = Frames(a),
         Guests(a)' = Guests(a)
  PROVE  Cells(a)' = Cells(a)
BY DEF Cells, Cell, Guest

\* A sequence t that is s with one more element g.
Extends(t, s, g) ==
  /\ s \in Seq(Goroutine) /\ t \in Seq(Goroutine) /\ Len(t) = Len(s) + 1
  /\ t[Len(t)] = g /\ \A i \in 1..Len(s) : t[i] = s[i]

\* The sequence with one element more is the other, appended to.
LEMMA OneMore ==
  \A s, t, g :
    Extends(t, s, g) => /\ t = Append(s, g)
                        /\ t # <<>> /\ Stack!Last(t) = g /\ Stack!Front(t) = s
<1> SUFFICES ASSUME NEW s \in Seq(Goroutine), NEW t \in Seq(Goroutine), NEW g,
                    Len(t) = Len(s) + 1, t[Len(t)] = g,
                    \A i \in 1..Len(s) : t[i] = s[i]
             PROVE  /\ t = Append(s, g)
                    /\ t # <<>> /\ Stack!Last(t) = g /\ Stack!Front(t) = s
  BY DEF Extends
<1>1. t[Len(t)] \in Goroutine
  OBVIOUS
<1>2. t = Append(s, t[Len(t)])
  BY <1>1
<1>3. SubSeq(t, 1, Len(t) - 1) = s
  OBVIOUS
<1> QED BY <1>2, <1>3 DEF Stack!Last, Stack!Front

\* The stack is a sequence of goroutines.
IsStack(a) == /\ LiveStack = Cells(a)
              /\ Cells(a) \in Seq(Goroutine)
              /\ Len(Cells(a)) = sp /\ sp \in Nat

\* The abstract stack of the runtime is the sequence of its cells.
LEMMA CellsSeq ==
  ASSUME NEW a \in Goroutine, IInv, Shape(a)
  PROVE  IsStack(a)
<1> sp \in Nat
  BY DEF IInv, TypeOK
<1>1. Guests(a) # {} => Guest(a) \in Goroutine
  BY StackPointer DEF Guests
<1>2. ASSUME NEW i \in 1..sp PROVE Cell(a, i)[1] \in Goroutine
  BY <1>1, StackPointer DEF Cell
<1>3. Cells(a) \in [1..sp -> Goroutine]
  BY <1>2 DEF Cells
<1> QED BY <1>3, StackIsCells DEF IsStack

\* The step of a call that enters C++.
LEMMA EnterExtends ==
  ASSUME NEW a \in Goroutine, NEW g \in Goroutine, IInv, Shape(a), Enter(g),
         IsStack(a), IsStack(a)'
  PROVE  Extends(Cells(a)', Cells(a), g)
<1> /\ mu = g /\ pc[g] = "enter" /\ pc' = [pc EXCEPT ![g] = "wasm"]
    /\ pc \in [Goroutine -> PCs] /\ depth' = depth /\ depth[g] > 0
    /\ depth \in [Goroutine -> 0..MaxDepth] /\ MaxDepth \in Nat
    /\ sp \in Nat /\ sp' = sp + 1
    /\ \A h \in Goroutine : pc[h] = "wasm" => mu = h
  BY ConstantsAssumption DEF IInv, TypeOK, Discipline, InModule, Inside, Enter, Goto
<1>1. Guests(a) = {} /\ sp = Frames(a)
  BY StackPointer DEF Guests
<1> DEFINE Pushed == /\ Cell(a, sp)'[1] = g
                      /\ \A i \in 1..sp : Cell(a, i)'[1] = Cell(a, i)[1]
<1>2. ASSUME g = a PROVE Pushed
  <2>1. Frames(a)' = Frames(a) + 1
    BY <1>2 DEF Frames, FrameOnStack
  <2>2. Cell(a, sp)' = <<a, sp'>>
    BY <1>1, <2>1 DEF Cell
  <2>3. \A i \in 1..sp : Cell(a, i)' = <<a, i>> /\ Cell(a, i) = <<a, i>>
    BY <1>1, <2>1 DEF Cell
  <2> QED BY <1>2, <2>2, <2>3
<1>3. ASSUME g # a PROVE Pushed
  <2>1. Frames(a)' = Frames(a) /\ Guests(a)' = {g}
    BY <1>1, <1>3 DEF Frames, Guests
  <2>2. Guest(a)' = g
    BY <2>1 DEF Guest
  <2>3. Cell(a, sp)' = <<g, 1>>
    BY <1>1, <2>1, <2>2 DEF Cell
  <2>4. \A i \in 1..sp : Cell(a, i)' = <<a, i>> /\ Cell(a, i) = <<a, i>>
    BY <1>1, <2>1 DEF Cell
  <2> QED BY <2>3, <2>4
<1>4. Pushed
  BY <1>2, <1>3
<1>5. Cells(a)'[sp'] = g /\ \A i \in 1..sp : Cells(a)'[i] = Cells(a)[i]
  BY <1>4 DEF Cells
<1> QED BY <1>5 DEF IsStack, Extends

\* The steps of a call that leave C++.
LEMMA LeaveShortens ==
  ASSUME NEW a \in Goroutine, NEW g \in Goroutine, IInv, Shape(a),
         Return(g) \/ Trap(g), IsStack(a), IsStack(a)'
  PROVE  Extends(Cells(a), Cells(a)', g)
<1> /\ mu = g /\ pc[g] \in {"wasm", "trapped"}
    /\ pc \in [Goroutine -> PCs] /\ depth' = depth /\ depth[g] > 0
    /\ depth \in [Goroutine -> 0..MaxDepth] /\ MaxDepth \in Nat
    /\ sp \in Nat /\ sp' = slot[g][depth[g]] /\ sp' \in Nat
    /\ \A h \in Goroutine : pc[h] = "wasm" => mu = h
  BY ConstantsAssumption
     DEF IInv, TypeOK, Discipline, InModule, Inside, Return, Trap
<1>1. PICK l \in {"read", "free"} : pc' = [pc EXCEPT ![g] = l]
  BY DEF Return, Trap, Goto
<1> DEFINE Popped == /\ Cell(a, sp)[1] = g /\ sp = sp' + 1
                      /\ \A i \in 1..sp' : Cell(a, i)'[1] = Cell(a, i)[1]
<1>2. ASSUME g = a PROVE Popped
  <2>1. Guests(a) = {} /\ sp = Frames(a)
    BY <1>2, StackPointer DEF Guests
  <2>2. Frames(a)' = Frames(a) - 1 /\ Frames(a) = depth[a]
    BY <1>1, <1>2 DEF Frames, FrameOnStack
  <2>3. sp = sp' + 1
    BY <1>2, <2>1, <2>2 DEF Shape
  <2>4. Cell(a, sp) = <<a, sp>>
    BY <2>1 DEF Cell
  <2>5. \A i \in 1..sp' : Cell(a, i)' = <<a, i>> /\ Cell(a, i) = <<a, i>>
    BY <2>1, <2>2, <2>3 DEF Cell
  <2> QED BY <1>2, <2>3, <2>4, <2>5
<1>3. ASSUME g # a PROVE Popped
  <2>1. pc[g] = "wasm" /\ depth[g] = 1 /\ g \in Guests(a)
    BY <1>3 DEF Shape, Simple, Guests
  <2>2. Guest(a) = g /\ sp = Frames(a) + 1 /\ slot[g][1] = Frames(a)
    BY <2>1, StackPointer
  <2>3. Frames(a)' = Frames(a) /\ sp' = Frames(a)
    BY <1>1, <1>3, <2>1, <2>2 DEF Frames
  <2>4. Cell(a, sp) = <<g, 1>>
    BY <2>2, <2>3 DEF Cell
  <2>5. \A i \in 1..sp' : Cell(a, i)' = <<a, i>> /\ Cell(a, i) = <<a, i>>
    BY <2>3 DEF Cell
  <2> QED BY <2>2, <2>3, <2>4, <2>5
<1>4. Popped
  BY <1>2, <1>3
<1>5. Cells(a)[sp] = g /\ \A i \in 1..sp' : Cells(a)'[i] = Cells(a)[i]
  BY <1>4 DEF Cells
<1> QED BY <1>4, <1>5 DEF IsStack, Extends

\* All other steps leave the activations as they are.
LEMMA OthersStutter ==
  ASSUME NEW a \in Goroutine, CallbackGoroutine \subseteq {a},
         TypeNameMayTrap = FALSE, IInv, Shape(a), [Next]_vars,
         ~\E g \in Goroutine : Enter(g) \/ Return(g) \/ Trap(g)
  PROVE  sp' = sp /\ Frames(a)' = Frames(a) /\ Guests(a)' = Guests(a)
<1> /\ pc \in [Goroutine -> PCs] /\ depth \in [Goroutine -> 0..MaxDepth]
    /\ MaxDepth \in Nat
    /\ pc[a] = "init" => depth[a] = 0
  BY ConstantsAssumption DEF IInv, TypeOK, InitAlone
<1> USE DEF Frames, Guests, FrameOnStack, Goto
<1> DEFINE Same == sp' = sp /\ Frames(a)' = Frames(a) /\ Guests(a)' = Guests(a)
<1>1. CASE UNCHANGED vars
  BY <1>1 DEF vars
<1>2. ASSUME NEW g \in Goroutine,
             InitModule(g) \/ InitModuleDone(g) \/ HandlerReturn(g)
      PROVE  Same
  BY <1>2 DEF InitModule, InitModuleDone, HandlerReturn, InGo
<1>3. ASSUME NEW g \in Goroutine, NEW k \in {"invoke", "typename"}, Call(g, k)
      PROVE Same
  BY <1>3 DEF Call, InGo
<1>4. ASSUME NEW g \in Goroutine, Lock(g) \/ Unlock(g) PROVE Same
  BY <1>4 DEF Lock, Unlock
<1>5. ASSUME NEW g \in Goroutine, Alloc(g) \/ ReadResponse(g) \/ FreeRequest(g)
      PROVE Same
  BY <1>5 DEF Alloc, ReadResponse, FreeRequest
<1>6. ASSUME NEW g \in Goroutine,
             EncodeCallbackResult(g) \/ DecodeResult(g) \/ Callback(g) \/ Relock(g)
      PROVE Same
  <2>1. g = a
    BY <1>6 DEF EncodeCallbackResult, DecodeResult, Callback, Relock, Shape, Simple
  <2> QED BY <1>6, <2>1 DEF EncodeCallbackResult, DecodeResult, Callback, Relock
<1>7. ASSUME NEW g \in Goroutine, TypeNameTrap(g) PROVE Same
  BY <1>7 DEF TypeNameTrap
<1>8. ASSUME NEW g \in Goroutine, NEW h \in Goroutine, HandlerAwaits(g, h)
      PROVE Same
  BY <1>8 DEF HandlerAwaits, InGo
<1> QED BY <1>1, <1>2, <1>3, <1>4, <1>5, <1>6, <1>7, <1>8 DEF Next

\* Every step pushes an activation, pops the one on top, or leaves the stack.
LEMMA StackStep ==
  ASSUME NEW a \in Goroutine, CallbackGoroutine \subseteq {a},
         TypeNameMayTrap = FALSE, IInv, Shape(a), [Next]_vars,
         IsStack(a), IsStack(a)'
  PROVE  [Stack!Next]_LiveStack
<1> LiveStack = Cells(a) /\ LiveStack' = Cells(a)'
  BY DEF IsStack
<1>1. CASE \E g \in Goroutine : Enter(g)
  <2>1. PICK g \in Goroutine : Enter(g)
    BY <1>1
  <2>2. Extends(Cells(a)', Cells(a), g)
    BY <2>1, EnterExtends
  <2>3. Cells(a)' = Append(Cells(a), g)
    BY <2>2, OneMore
  <2> QED BY <2>3 DEF Stack!Next, Stack!Enter
<1>2. CASE \E g \in Goroutine : Return(g) \/ Trap(g)
  <2>1. PICK g \in Goroutine : Return(g) \/ Trap(g)
    BY <1>2
  <2>2. Extends(Cells(a), Cells(a)', g)
    BY <2>1, LeaveShortens
  <2>3. /\ Cells(a) # <<>>
        /\ Stack!Last(Cells(a)) = g
        /\ Stack!Front(Cells(a)) = Cells(a)'
    BY <2>2, OneMore
  <2> QED BY <2>3 DEF Stack!Next, Stack!Leave
<1>3. CASE ~\E g \in Goroutine : Enter(g) \/ Return(g) \/ Trap(g)
  <2>1. Cells(a)' = Cells(a)
    BY <1>3, OthersStutter, CellsSame
  <2> QED BY <2>1
<1> QED BY <1>1, <1>2, <1>3

\* With callbacks on one goroutine and no trap in a lookup, this runtime
\* implements the abstract C stack: activations are strictly nested.
THEOREM StackImplemented ==
  ASSUME NEW a \in Goroutine, CallbackGoroutine \subseteq {a},
         TypeNameMayTrap = FALSE
  PROVE  Spec => StackDiscipline
<1>1. Spec => [](IInv /\ Shape(a))
  BY ShapeAlways
<1>2. IInv /\ Shape(a) => IsStack(a)
  BY CellsSeq
<1>3. Init /\ IsStack(a) => Stack!Init
  BY DEF Init, IsStack, Stack!Init
<1>4. IInv /\ Shape(a) /\ [Next]_vars /\ IsStack(a) /\ IsStack(a)'
        => [Stack!Next]_LiveStack
  BY StackStep
<1> QED BY <1>1, <1>2, <1>3, <1>4, PTL DEF Spec, StackDiscipline, Stack!Spec
=============================================================================
