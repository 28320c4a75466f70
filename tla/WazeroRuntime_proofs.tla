------------------------ MODULE WazeroRuntime_proofs ------------------------
(***************************************************************************)
(* WazeroRuntime for any number of goroutines and exports and any depth of  *)
(* nesting.  The inductive invariant adds to the checked properties how     *)
(* each goroutine's place in a call, its depth and the two locks go         *)
(* together; above all, that a goroutine with a call in progress is the     *)
(* holder, which is why the unlocked read of holderGID is sound.            *)
(***************************************************************************)
EXTENDS WazeroRuntime, TLAPS

\* The steps of exportFor.
InLookup == {"find", "lookup", "miss", "store", "insert"}

\* How the place of g, its depth and the locks go together.
Discipline(g) ==
  /\ pc[g] \in InCall => depth[g] > 0
  /\ pc[g] \in {"lock", "hold", "unlock"}
       => depth[g] = IF pc[g] = "unlock" THEN 1 ELSE 0
  /\ depth[g] > 0 => mu = g
  /\ depth[g] > 0 /\ pc[g] # "unlock" => holderGID = g
  /\ holderGID = g => depth[g] > 0 /\ pc[g] # "unlock"
  /\ pc[g] \in {"lookup", "insert", "hold"} => mu = g
  /\ pc[g] \in InLookup => (reentrant[g] <=> depth[g] > 0)
  /\ pc[g] \in InLookup \cup {"call"} => depth[g] < MaxDepth
  /\ pc[g] \in {"lock", "hold"} => depth[g] < MaxDepth
  /\ \A d \in 1..MaxDepth : nested[g][d] => d > 1
  /\ \A d \in 1..depth[g] : d > 1 => nested[g][d]
  /\ pc[g] \in InLookup => fn[g] \in Export
  /\ pc[g] \in {"store", "insert"} => fn[g] \notin Missing

IInv == TypeOK /\ \A g \in Goroutine : Discipline(g)

\* The inductive invariant holds initially.
LEMMA InitIInv == Init => IInv
  BY ConstantsAssumption
  DEF Init, IInv, TypeOK, Discipline, PCs, InCall, InLookup

\* What the type invariant needs of the innermost call.
LEMMA InnermostCall ==
  ASSUME IInv, NEW g \in Goroutine
  PROVE  /\ pc[g] \in InCall => depth[g] \in 1..MaxDepth
         /\ pc[g] \in {"call", "hold"} => depth[g] + 1 \in 1..MaxDepth
         /\ pc[g] = "insert" => fn[g] \in Export \ Missing
  BY ConstantsAssumption DEF IInv, TypeOK, Discipline, InLookup, InCall

\* Every step keeps the types.
LEMMA TypeStep == ASSUME IInv, [Next]_vars PROVE TypeOK'
<1> TypeOK
  BY DEF IInv
<1> USE ConstantsAssumption, InnermostCall DEF TypeOK, Goto, PCs, InCall
<1>1. CASE UNCHANGED vars
  BY <1>1 DEF vars
<1>2. ASSUME NEW g \in Goroutine, InitModule(g) PROVE TypeOK'
  BY <1>2 DEF InitModule
<1>3. ASSUME NEW g \in Goroutine, InitModuleDone(g) PROVE TypeOK'
  BY <1>3 DEF InitModuleDone
<1>4. ASSUME NEW g \in Goroutine, Close(g) PROVE TypeOK'
  BY <1>4 DEF Close
<1>5. ASSUME NEW g \in Goroutine, NEW f \in Export, Invoke(g, f) PROVE TypeOK'
  <2>1. work' \in [Goroutine -> 0..MaxWork]
    <3>1. CASE depth[g] = 0
      BY <1>5, <3>1 DEF Invoke, BeginCall
    <3>2. CASE depth[g] # 0
      <4>1. Work(g)
        BY <1>5, <3>2 DEF Invoke, BeginCall
      <4> QED BY <4>1 DEF Work
    <3> QED BY <3>1, <3>2
  <2> QED BY <1>5, <2>1 DEF Invoke
<1>6. ASSUME NEW g \in Goroutine, ResolveTypeName(g) PROVE TypeOK'
  <2>1. work' \in [Goroutine -> 0..MaxWork]
    <3>1. CASE depth[g] = 0
      BY <1>6, <3>1 DEF ResolveTypeName, BeginCall
    <3>2. CASE depth[g] # 0
      <4>1. Work(g)
        BY <1>6, <3>2 DEF ResolveTypeName, BeginCall
      <4> QED BY <4>1 DEF Work
    <3> QED BY <3>1, <3>2
  <2> QED BY <1>6, <2>1 DEF ResolveTypeName
<1>7. ASSUME NEW g \in Goroutine, FindLock(g) PROVE TypeOK'
  BY <1>7 DEF FindLock, Acquire
<1>8. ASSUME NEW g \in Goroutine, Lookup(g) PROVE TypeOK'
  BY <1>8 DEF Lookup, Release
<1>9. ASSUME NEW g \in Goroutine, Miss(g) PROVE TypeOK'
  BY <1>9 DEF Miss
<1>10. ASSUME NEW g \in Goroutine, StoreLock(g) PROVE TypeOK'
  BY <1>10 DEF StoreLock, Acquire
<1>11. ASSUME NEW g \in Goroutine, Insert(g) PROVE TypeOK'
  BY <1>11 DEF Insert, Release
<1>12. ASSUME NEW g \in Goroutine, Enter(g) PROVE TypeOK'
  <2>1. depth[g] + 1 \in 1..MaxDepth
    <3>1. pc[g] = "call"
      BY <1>12 DEF Enter
    <3> QED BY <3>1, InnermostCall
  <2>2. CASE holderGID = g
    <3>1. depth' \in [Goroutine -> 0..MaxDepth]
      <4>1. depth' = [depth EXCEPT ![g] = depth[g] + 1]
        BY <1>12, <2>2 DEF Enter
      <4> QED BY <2>1, <4>1
    <3>2. nested' \in [Goroutine -> [1..MaxDepth -> BOOLEAN]]
      <4>1. nested' = [nested EXCEPT ![g] = [nested[g] EXCEPT ![depth[g] + 1] = TRUE]]
        BY <1>12, <2>2 DEF Enter
      <4>2. [nested[g] EXCEPT ![depth[g] + 1] = TRUE] \in [1..MaxDepth -> BOOLEAN]
        OBVIOUS
      <4> QED BY <4>1, <4>2
    <3> QED BY <1>12, <2>2, <3>1, <3>2 DEF Enter
  <2>3. CASE holderGID # g
    BY <1>12, <2>3 DEF Enter
  <2> QED BY <2>2, <2>3
<1>13. ASSUME NEW g \in Goroutine, Lock(g) PROVE TypeOK'
  BY <1>13 DEF Lock, Acquire
<1>14. ASSUME NEW g \in Goroutine, Hold(g) PROVE TypeOK'
  BY <1>14 DEF Hold
<1>15. ASSUME NEW g \in Goroutine, Alloc(g) PROVE TypeOK'
  <2>1. depth[g] \in 1..MaxDepth
    BY <1>15, InnermostCall DEF Alloc
  <2>2. <<g, depth[g], "req">> \in Goroutine \X (1..MaxDepth) \X {"req", "resp", "cb"}
    BY <2>1
  <2>3. heap' \subseteq Goroutine \X (1..MaxDepth) \X {"req", "resp", "cb"}
    BY <1>15, <2>2 DEF Alloc
  <2> QED BY <1>15, <2>3 DEF Alloc
<1>16. ASSUME NEW g \in Goroutine, Return(g) PROVE TypeOK'
  <2>1. depth[g] \in 1..MaxDepth
    BY <1>16, InnermostCall DEF Return
  <2>2. <<g, depth[g], "resp">> \in Goroutine \X (1..MaxDepth) \X {"req", "resp", "cb"}
    BY <2>1
  <2>3. heap' \subseteq Goroutine \X (1..MaxDepth) \X {"req", "resp", "cb"}
    BY <1>16, <2>2 DEF Return
  <2> QED BY <1>16, <2>3 DEF Return
<1>17. ASSUME NEW g \in Goroutine, ReadResponse(g) PROVE TypeOK'
  BY <1>17 DEF ReadResponse
<1>18. ASSUME NEW g \in Goroutine, FreeRequest(g) PROVE TypeOK'
  BY <1>18 DEF FreeRequest
<1>19. ASSUME NEW g \in Goroutine, ClearHolder(g) PROVE TypeOK'
  BY <1>19 DEF ClearHolder
<1>20. ASSUME NEW g \in Goroutine, Unlock(g) PROVE TypeOK'
  BY <1>20 DEF Unlock, Release
<1>21. ASSUME NEW g \in Goroutine, ReturnNested(g) PROVE TypeOK'
  BY <1>21 DEF ReturnNested
<1>22. ASSUME NEW g \in Goroutine, Callback(g) PROVE TypeOK'
  BY <1>22 DEF Callback, Work
<1>23. ASSUME NEW g \in Goroutine, HandlerReturn(g) PROVE TypeOK'
  BY <1>23 DEF HandlerReturn
<1>24. ASSUME NEW g \in Goroutine, AllocResponse(g) PROVE TypeOK'
  <2>1. depth[g] \in 1..MaxDepth
    BY <1>24, InnermostCall DEF AllocResponse
  <2>2. <<g, depth[g], "cb">> \in Goroutine \X (1..MaxDepth) \X {"req", "resp", "cb"}
    BY <2>1
  <2>3. heap' \subseteq Goroutine \X (1..MaxDepth) \X {"req", "resp", "cb"}
    BY <1>24, <2>2 DEF AllocResponse
  <2> QED BY <1>24, <2>3 DEF AllocResponse
<1>25. ASSUME NEW g \in Goroutine, DecodeResult(g) PROVE TypeOK'
  BY <1>25 DEF DecodeResult
<1> QED
  BY <1>1, <1>2, <1>3, <1>4, <1>5, <1>6, <1>7, <1>8, <1>9, <1>10, <1>11,
     <1>12, <1>13, <1>14, <1>15, <1>16, <1>17, <1>18, <1>19, <1>20, <1>21,
     <1>22, <1>23, <1>24, <1>25 DEF Next

\* Every step keeps the discipline: of the goroutine g that takes it, and of
\* every other one, for whom at most the two locks change.
LEMMA DisciplineStep ==
  ASSUME IInv, [Next]_vars, NEW h \in Goroutine PROVE Discipline(h)'
<1>0. TypeOK /\ Discipline(h) /\ \A g \in Goroutine : Discipline(g)
  BY DEF IInv
<1> USE ConstantsAssumption, <1>0 DEF TypeOK, Goto, PCs, InCall, InLookup
<1>1. CASE UNCHANGED vars
  BY <1>1 DEF vars, Discipline
<1>2. ASSUME NEW g \in Goroutine, InitModule(g) PROVE Discipline(h)'
  <2>1. CASE h = g
    BY <1>2, <2>1 DEF InitModule, Discipline
  <2>2. CASE h # g
    BY <1>2, <2>2, Discipline(g) DEF InitModule, Discipline
  <2> QED BY <2>1, <2>2
<1>3. ASSUME NEW g \in Goroutine, InitModuleDone(g) PROVE Discipline(h)'
  <2>1. CASE h = g
    BY <1>3, <2>1 DEF InitModuleDone, Discipline
  <2>2. CASE h # g
    BY <1>3, <2>2, Discipline(g) DEF InitModuleDone, Discipline
  <2> QED BY <2>1, <2>2
<1>4. ASSUME NEW g \in Goroutine, Close(g) PROVE Discipline(h)'
  <2>1. CASE h = g
    BY <1>4, <2>1 DEF Close, Discipline
  <2>2. CASE h # g
    BY <1>4, <2>2, Discipline(g) DEF Close, Discipline
  <2> QED BY <2>1, <2>2
<1>5. ASSUME NEW g \in Goroutine, NEW f \in Export, Invoke(g, f) PROVE Discipline(h)'
  <2>1. CASE h = g
    BY <1>5, <2>1 DEF Invoke, BeginCall, Discipline
  <2>2. CASE h # g
    BY <1>5, <2>2, Discipline(g) DEF Invoke, BeginCall, Discipline
  <2> QED BY <2>1, <2>2
<1>6. ASSUME NEW g \in Goroutine, ResolveTypeName(g) PROVE Discipline(h)'
  <2>1. CASE h = g
    BY <1>6, <2>1 DEF ResolveTypeName, BeginCall, Discipline
  <2>2. CASE h # g
    BY <1>6, <2>2, Discipline(g) DEF ResolveTypeName, BeginCall, Discipline
  <2> QED BY <2>1, <2>2
<1>7. ASSUME NEW g \in Goroutine, FindLock(g) PROVE Discipline(h)'
  <2>1. CASE h = g
    BY <1>7, <2>1 DEF FindLock, Acquire, Discipline
  <2>2. CASE h # g
    BY <1>7, <2>2, Discipline(g) DEF FindLock, Acquire, Discipline
  <2> QED BY <2>1, <2>2
<1>8. ASSUME NEW g \in Goroutine, Lookup(g) PROVE Discipline(h)'
  <2>1. CASE h = g
    BY <1>8, <2>1 DEF Lookup, Release, Discipline
  <2>2. CASE h # g
    BY <1>8, <2>2, Discipline(g) DEF Lookup, Release, Discipline
  <2> QED BY <2>1, <2>2
<1>9. ASSUME NEW g \in Goroutine, Miss(g) PROVE Discipline(h)'
  <2>1. CASE h = g
    BY <1>9, <2>1 DEF Miss, Discipline
  <2>2. CASE h # g
    BY <1>9, <2>2, Discipline(g) DEF Miss, Discipline
  <2> QED BY <2>1, <2>2
<1>10. ASSUME NEW g \in Goroutine, StoreLock(g) PROVE Discipline(h)'
  <2>1. CASE h = g
    BY <1>10, <2>1 DEF StoreLock, Acquire, Discipline
  <2>2. CASE h # g
    BY <1>10, <2>2, Discipline(g) DEF StoreLock, Acquire, Discipline
  <2> QED BY <2>1, <2>2
<1>11. ASSUME NEW g \in Goroutine, Insert(g) PROVE Discipline(h)'
  <2>1. CASE h = g
    BY <1>11, <2>1 DEF Insert, Release, Discipline
  <2>2. CASE h # g
    BY <1>11, <2>2, Discipline(g) DEF Insert, Release, Discipline
  <2> QED BY <2>1, <2>2
<1>12. ASSUME NEW g \in Goroutine, Enter(g) PROVE Discipline(h)'
  <2>1. CASE h = g
    <3>1. CASE holderGID = g
      <4>1. /\ depth' = [depth EXCEPT ![g] = depth[g] + 1]
            /\ nested' = [nested EXCEPT ![g] = [nested[g] EXCEPT ![depth[g] + 1] = TRUE]]
            /\ depth[g] > 0 /\ depth[g] < MaxDepth
            /\ pc' = [pc EXCEPT ![g] = "alloc"]
            /\ UNCHANGED <<mu, holderGID>>
        BY <1>12, <3>1, <2>1 DEF Enter, Discipline
      <4>2. /\ \A d \in 1..MaxDepth : nested'[g][d] => d > 1
            /\ \A d \in 1..depth'[g] : d > 1 => nested'[g][d]
        BY <4>1, <2>1 DEF Discipline
      <4>3. depth'[g] > 0 /\ pc'[g] = "alloc" /\ mu = g
        BY <4>1, <2>1 DEF Discipline
      <4> QED BY <4>1, <4>2, <4>3, <2>1, <3>1 DEF Discipline
    <3>2. CASE holderGID # g
      BY <1>12, <2>1, <3>2 DEF Enter, Discipline
    <3> QED BY <3>1, <3>2
  <2>2. CASE h # g
    BY <1>12, <2>2, Discipline(g) DEF Enter, Discipline
  <2> QED BY <2>1, <2>2
<1>13. ASSUME NEW g \in Goroutine, Lock(g) PROVE Discipline(h)'
  <2>1. CASE h = g
    BY <1>13, <2>1 DEF Lock, Acquire, Discipline
  <2>2. CASE h # g
    BY <1>13, <2>2, Discipline(g) DEF Lock, Acquire, Discipline
  <2> QED BY <2>1, <2>2
<1>14. ASSUME NEW g \in Goroutine, Hold(g) PROVE Discipline(h)'
  <2>1. CASE h = g
    BY <1>14, <2>1 DEF Hold, Discipline
  <2>2. CASE h # g
    BY <1>14, <2>2, Discipline(g) DEF Hold, Discipline
  <2> QED BY <2>1, <2>2
<1>15. ASSUME NEW g \in Goroutine, Alloc(g) PROVE Discipline(h)'
  <2>1. CASE h = g
    BY <1>15, <2>1 DEF Alloc, Discipline
  <2>2. CASE h # g
    BY <1>15, <2>2, Discipline(g) DEF Alloc, Discipline
  <2> QED BY <2>1, <2>2
<1>16. ASSUME NEW g \in Goroutine, Return(g) PROVE Discipline(h)'
  <2>1. CASE h = g
    BY <1>16, <2>1 DEF Return, Discipline
  <2>2. CASE h # g
    BY <1>16, <2>2, Discipline(g) DEF Return, Discipline
  <2> QED BY <2>1, <2>2
<1>17. ASSUME NEW g \in Goroutine, ReadResponse(g) PROVE Discipline(h)'
  <2>1. CASE h = g
    BY <1>17, <2>1 DEF ReadResponse, Discipline
  <2>2. CASE h # g
    BY <1>17, <2>2, Discipline(g) DEF ReadResponse, Discipline
  <2> QED BY <2>1, <2>2
<1>18. ASSUME NEW g \in Goroutine, FreeRequest(g) PROVE Discipline(h)'
  <2>1. CASE h = g
    BY <1>18, <2>1 DEF FreeRequest, Discipline
  <2>2. CASE h # g
    BY <1>18, <2>2, Discipline(g) DEF FreeRequest, Discipline
  <2> QED BY <2>1, <2>2
<1>19. ASSUME NEW g \in Goroutine, ClearHolder(g) PROVE Discipline(h)'
  <2>1. CASE h = g
    <3>1. depth[g] = 1
      <4>1. depth[g] \in 1..depth[g] /\ ~nested[g][depth[g]]
        BY <1>19, Discipline(g) DEF ClearHolder, Discipline
      <4> QED BY <4>1, Discipline(g) DEF Discipline
    <3> QED BY <1>19, <2>1, <3>1 DEF ClearHolder, Discipline
  <2>2. CASE h # g
    BY <1>19, <2>2, Discipline(g) DEF ClearHolder, Discipline
  <2> QED BY <2>1, <2>2
<1>20. ASSUME NEW g \in Goroutine, Unlock(g) PROVE Discipline(h)'
  <2>1. CASE h = g
    BY <1>20, <2>1 DEF Unlock, Release, Discipline
  <2>2. CASE h # g
    BY <1>20, <2>2, Discipline(g) DEF Unlock, Release, Discipline
  <2> QED BY <2>1, <2>2
<1>21. ASSUME NEW g \in Goroutine, ReturnNested(g) PROVE Discipline(h)'
  <2>1. CASE h = g
    BY <1>21, <2>1 DEF ReturnNested, Discipline
  <2>2. CASE h # g
    BY <1>21, <2>2, Discipline(g) DEF ReturnNested, Discipline
  <2> QED BY <2>1, <2>2
<1>22. ASSUME NEW g \in Goroutine, Callback(g) PROVE Discipline(h)'
  <2>1. CASE h = g
    BY <1>22, <2>1 DEF Callback, Discipline
  <2>2. CASE h # g
    BY <1>22, <2>2, Discipline(g) DEF Callback, Discipline
  <2> QED BY <2>1, <2>2
<1>23. ASSUME NEW g \in Goroutine, HandlerReturn(g) PROVE Discipline(h)'
  <2>1. CASE h = g
    BY <1>23, <2>1 DEF HandlerReturn, Discipline
  <2>2. CASE h # g
    BY <1>23, <2>2, Discipline(g) DEF HandlerReturn, Discipline
  <2> QED BY <2>1, <2>2
<1>24. ASSUME NEW g \in Goroutine, AllocResponse(g) PROVE Discipline(h)'
  <2>1. CASE h = g
    BY <1>24, <2>1 DEF AllocResponse, Discipline
  <2>2. CASE h # g
    BY <1>24, <2>2, Discipline(g) DEF AllocResponse, Discipline
  <2> QED BY <2>1, <2>2
<1>25. ASSUME NEW g \in Goroutine, DecodeResult(g) PROVE Discipline(h)'
  <2>1. CASE h = g
    BY <1>25, <2>1 DEF DecodeResult, Discipline
  <2>2. CASE h # g
    BY <1>25, <2>2, Discipline(g) DEF DecodeResult, Discipline
  <2> QED BY <2>1, <2>2
<1> QED
  BY <1>1, <1>2, <1>3, <1>4, <1>5, <1>6, <1>7, <1>8, <1>9, <1>10, <1>11,
     <1>12, <1>13, <1>14, <1>15, <1>16, <1>17, <1>18, <1>19, <1>20, <1>21,
     <1>22, <1>23, <1>24, <1>25 DEF Next

-----------------------------------------------------------------------------
LEMMA InductiveInvariant == Spec => []IInv
<1>1. IInv /\ UNCHANGED vars => IInv'
  BY TypeStep, DisciplineStep DEF IInv
<1>2. IInv /\ [Next]_vars => IInv'
  BY TypeStep, DisciplineStep DEF IInv
<1> QED BY InitIInv, <1>2, PTL DEF Spec

\* The state of the runtime stays in its types.
THEOREM TypeCorrect == Spec => []TypeOK
<1>1. IInv => TypeOK
  BY DEF IInv
<1> QED BY InductiveInvariant, <1>1, PTL

\* Only the owner of m.mu uses the export map or runs wasm, for any number of
\* goroutines, although reentrant calls and lookups skip or give up the lock.
THEOREM Exclusion == Spec => []ModuleUsedUnderLock
<1>1. IInv => ModuleUsedUnderLock
  BY DEF IInv, Discipline, ModuleUsedUnderLock, UsesModule, InCall
<1> QED BY InductiveInvariant, <1>1, PTL

\* Calls of different goroutines never overlap, handlers included.
THEOREM CallsSerial == Spec => []Serial
<1>1. IInv => Serial
  BY DEF IInv, Discipline, Serial
<1> QED BY InductiveInvariant, <1>1, PTL

\* holderGID names nobody or the owner of m.mu, and exactly the outermost
\* call of a goroutine owes the release of the mutex.
THEOREM HolderCorrect == Spec => []HolderIsOwner
<1>1. ASSUME IInv PROVE HolderIsOwner
  <2>1. holderGID \in {NoGoroutine, mu}
    BY <1>1 DEF IInv, TypeOK, Discipline
  <2>2. ASSUME NEW g \in Goroutine, NEW d \in 1..depth[g]
        PROVE  nested[g][d] <=> d > 1
    <3>1. TypeOK /\ Discipline(g)
      BY <1>1 DEF IInv
    <3>2. d \in 1..MaxDepth
      BY <3>1, ConstantsAssumption DEF TypeOK
    <3> QED BY <3>1, <3>2 DEF Discipline
  <2> QED BY <2>1, <2>2 DEF HolderIsOwner
<1> QED BY InductiveInvariant, <1>1, PTL

\* A goroutine keeps m.mu from its outermost call's lock to that call's end.
THEOREM LockIsKept == Spec => LockKept
<1>1. IInv /\ IInv' => \A g \in Goroutine :
                        depth[g] > 0 /\ depth'[g] > 0 => mu' = mu
  BY DEF IInv, Discipline
<1> QED BY InductiveInvariant, <1>1, PTL DEF LockKept

-----------------------------------------------------------------------------
\* Every buffer belongs to a call in progress; before its call has asked for
\* memory, and once it comes to its deferred release, it owns none.
Owned(b) ==
  /\ b[2] <= depth[b[1]]
  /\ b[3] # "req" =>
       /\ b[2] = depth[b[1]]
       /\ pc[b[1]] = IF b[3] = "resp" THEN "read" ELSE "result"
  /\ b[2] = depth[b[1]] => pc[b[1]] \notin {"alloc", "clear", "unlock"}

BuffersOwned == \A b \in heap : Owned(b)

\* Every step keeps the buffers owned, also on a module that is closed.
LEMMA BuffersStep ==
  ASSUME IInv, BuffersOwned, [Next]_vars PROVE BuffersOwned'
<1> TypeOK /\ \A g \in Goroutine : Discipline(g)
  BY DEF IInv
<1> /\ pc \in [Goroutine -> PCs] /\ depth \in [Goroutine -> 0..MaxDepth]
    /\ heap \subseteq Goroutine \X (1..MaxDepth) \X {"req", "resp", "cb"}
    /\ MaxDepth \in Nat
  BY ConstantsAssumption DEF TypeOK
<1> SUFFICES ASSUME NEW b \in heap' PROVE Owned(b)'
  BY DEF BuffersOwned
<1> USE DEF BuffersOwned, Owned, Goto
<1>1. CASE UNCHANGED vars
  BY <1>1 DEF vars
<1>2. ASSUME NEW g \in Goroutine, InitModule(g) PROVE Owned(b)'
  BY <1>2 DEF InitModule
<1>3. ASSUME NEW g \in Goroutine, InitModuleDone(g) PROVE Owned(b)'
  BY <1>3 DEF InitModuleDone
<1>4. ASSUME NEW g \in Goroutine, Close(g) PROVE Owned(b)'
  BY <1>4 DEF Close
<1>5. ASSUME NEW g \in Goroutine, NEW f \in Export, Invoke(g, f)
      PROVE Owned(b)'
  BY <1>5 DEF Invoke, BeginCall
<1>6. ASSUME NEW g \in Goroutine, ResolveTypeName(g) PROVE Owned(b)'
  BY <1>6 DEF ResolveTypeName, BeginCall
<1>7. ASSUME NEW g \in Goroutine, FindLock(g) PROVE Owned(b)'
  BY <1>7 DEF FindLock
<1>8. ASSUME NEW g \in Goroutine, Lookup(g) PROVE Owned(b)'
  BY <1>8 DEF Lookup
<1>9. ASSUME NEW g \in Goroutine, Miss(g) PROVE Owned(b)'
  BY <1>9 DEF Miss
<1>10. ASSUME NEW g \in Goroutine, StoreLock(g) PROVE Owned(b)'
  BY <1>10 DEF StoreLock
<1>11. ASSUME NEW g \in Goroutine, Insert(g) PROVE Owned(b)'
  BY <1>11 DEF Insert
<1>12. ASSUME NEW g \in Goroutine, Enter(g) PROVE Owned(b)'
  BY <1>12 DEF Enter
<1>13. ASSUME NEW g \in Goroutine, Lock(g) PROVE Owned(b)'
  BY <1>13 DEF Lock
<1>14. ASSUME NEW g \in Goroutine, Hold(g) PROVE Owned(b)'
  BY <1>14 DEF Hold
<1>15. ASSUME NEW g \in Goroutine, Alloc(g) PROVE Owned(b)'
  BY <1>15 DEF Alloc
<1>16. ASSUME NEW g \in Goroutine, Return(g) PROVE Owned(b)'
  BY <1>16 DEF Return
<1>17. ASSUME NEW g \in Goroutine, ReadResponse(g) PROVE Owned(b)'
  BY <1>17 DEF ReadResponse
<1>18. ASSUME NEW g \in Goroutine, FreeRequest(g) PROVE Owned(b)'
  BY <1>18 DEF FreeRequest
<1>19. ASSUME NEW g \in Goroutine, ClearHolder(g) PROVE Owned(b)'
  BY <1>19 DEF ClearHolder
<1>20. ASSUME NEW g \in Goroutine, Unlock(g) PROVE Owned(b)'
  BY <1>20 DEF Unlock
<1>21. ASSUME NEW g \in Goroutine, ReturnNested(g) PROVE Owned(b)'
  BY <1>21 DEF ReturnNested
<1>22. ASSUME NEW g \in Goroutine, Callback(g) PROVE Owned(b)'
  BY <1>22 DEF Callback
<1>23. ASSUME NEW g \in Goroutine, HandlerReturn(g) PROVE Owned(b)'
  BY <1>23 DEF HandlerReturn
<1>24. ASSUME NEW g \in Goroutine, AllocResponse(g) PROVE Owned(b)'
  BY <1>24 DEF AllocResponse
<1>25. ASSUME NEW g \in Goroutine, DecodeResult(g) PROVE Owned(b)'
  BY <1>25 DEF DecodeResult
<1> QED
  BY <1>1, <1>2, <1>3, <1>4, <1>5, <1>6, <1>7, <1>8, <1>9, <1>10, <1>11, <1>12,
     <1>13, <1>14, <1>15, <1>16, <1>17, <1>18, <1>19, <1>20, <1>21, <1>22, <1>23, <1>24, <1>25 DEF Next

\* No request, response or callback buffer outlives its call, on any path out
\* of it: an error, a NULL allocation, a panic of the handler.
THEOREM BuffersAreFreed == Spec => []BuffersFreed
<1>1. Init => BuffersOwned
  BY DEF Init, BuffersOwned
<1>2. IInv /\ BuffersOwned /\ [Next]_vars => BuffersOwned'
  BY BuffersStep
<1>3. BuffersOwned => BuffersFreed
  BY DEF BuffersOwned, Owned, BuffersFreed
<1> QED BY InductiveInvariant, <1>1, <1>2, <1>3, PTL DEF Spec

-----------------------------------------------------------------------------
(***************************************************************************)
(* Refinement of WasmStack: only entering callExport and leaving it change  *)
(* the depths, and both concern the one goroutine that is active.           *)
(***************************************************************************)
\* The abstract stack when g is the only goroutine that may be active.
LEMMA StackValue ==
  ASSUME NEW dep \in [Goroutine -> Nat], NEW g \in Goroutine,
         \A h \in Goroutine : h # g => dep[h] = 0
  PROVE  StackFor(dep) = [i \in 1..dep[g] |-> g]
<1> DEFINE active == {h \in Goroutine : dep[h] > 0}
<1>1. CASE dep[g] = 0
  <2>1. active = {}
    BY <1>1
  <2>2. [i \in 1..dep[g] |-> g] = <<>>
    BY <1>1
  <2> QED BY <2>1, <2>2 DEF StackFor
<1>2. CASE dep[g] # 0
  <2>1. active = {g}
    BY <1>2
  <2>2. (CHOOSE h \in active : TRUE) = g
    BY <2>1
  <2> QED BY <2>1, <2>2 DEF StackFor
<1> QED BY <1>1, <1>2

\* A stack of n frames of one goroutine, and one frame more.
LEMMA ConstantStack ==
  ASSUME NEW g \in Goroutine, NEW n \in Nat
  PROVE  LET s == [i \in 1..n |-> g]
             t == [i \in 1..(n + 1) |-> g]
         IN  /\ t = Append(s, g)
             /\ t # <<>> /\ Stack!Last(t) = g /\ Stack!Front(t) = s
<1> DEFINE s == [i \in 1..n |-> g]
           t == [i \in 1..(n + 1) |-> g]
<1>1. s \in Seq(Goroutine) /\ Len(s) = n
  OBVIOUS
<1>2. t \in Seq(Goroutine) /\ Len(t) = n + 1
  OBVIOUS
<1>3. t = Append(s, g)
  BY <1>1, <1>2
<1>4. t # <<>> /\ Stack!Last(t) = g /\ Stack!Front(t) = s
  BY <1>1, <1>2 DEF Stack!Last, Stack!Front
<1> QED BY <1>3, <1>4

\* A step that leaves one goroutine active and moves its depth by one is a
\* step of the abstract stack.
LEMMA StackMoves ==
  ASSUME IInv, TypeOK', NEW g \in Goroutine, NEW up \in BOOLEAN,
         \A h \in Goroutine : h # g => depth[h] = 0,
         depth' = [depth EXCEPT ![g] = IF up THEN @ + 1 ELSE @ - 1],
         ~up => depth[g] > 0
  PROVE  Stack!Next
<1>1. depth \in [Goroutine -> Nat] /\ depth' \in [Goroutine -> Nat]
  BY ConstantsAssumption DEF IInv, TypeOK
<1>2. StackFor(depth) = [i \in 1..depth[g] |-> g]
  BY <1>1, StackValue
<1>3. StackFor(depth') = [i \in 1..depth'[g] |-> g]
  <2>1. \A h \in Goroutine : h # g => depth'[h] = 0
    BY <1>1
  <2> QED BY <1>1, <2>1, StackValue
<1>4. CASE up
  <2>1. depth'[g] = depth[g] + 1
    BY <1>1, <1>4
  <2>2. StackFor(depth') = Append(StackFor(depth), g)
    BY <1>1, <1>2, <1>3, <2>1, ConstantStack
  <2> QED BY <2>2 DEF Stack!Next, Stack!Enter
<1>5. CASE ~up
  <2>1. depth[g] = depth'[g] + 1
    BY <1>1, <1>5
  <2>2. /\ StackFor(depth) # <<>>
        /\ Stack!Last(StackFor(depth)) = g
        /\ StackFor(depth') = Stack!Front(StackFor(depth))
    BY <1>1, <1>2, <1>3, <2>1, ConstantStack
  <2> QED BY <2>2 DEF Stack!Next, Stack!Leave
<1> QED BY <1>4, <1>5

\* The wazero runtime implements the abstract stack: whatever goroutines,
\* callbacks and nested calls do, the C++ activations are strictly nested.
THEOREM StackRefinement == Spec => StackDiscipline
<1>1. Init => Stack!Init
  BY DEF Init, Stack!Init, StackFor
<1>2. ASSUME IInv, IInv', [Next]_vars
      PROVE  [Stack!Next]_(StackFor(depth))
  <2> USE <1>2
  <2>1. CASE depth' = depth
    BY <2>1
  <2>2. \A g \in Goroutine : depth[g] > 0 => mu = g
    BY DEF IInv, Discipline
  <2>3. ASSUME NEW g \in Goroutine, Enter(g), depth' # depth
        PROVE  Stack!Next
    <3>1. holderGID = g /\ depth' = [depth EXCEPT ![g] = @ + 1]
      BY <2>3 DEF Enter
    <3>2. mu = g
      BY <3>1, <2>2 DEF IInv, Discipline
    <3>3. \A h \in Goroutine : h # g => depth[h] = 0
      BY <2>2, <3>2, ConstantsAssumption DEF IInv, TypeOK
    <3> QED BY <3>1, <3>3, StackMoves DEF IInv
  <2>4. ASSUME NEW g \in Goroutine, Hold(g)
        PROVE  Stack!Next
    <3>1. mu = g /\ depth' = [depth EXCEPT ![g] = @ + 1]
      BY <2>4 DEF Hold, IInv, Discipline
    <3>2. \A h \in Goroutine : h # g => depth[h] = 0
      BY <2>2, <3>1, ConstantsAssumption DEF IInv, TypeOK
    <3> QED BY <3>1, <3>2, StackMoves DEF IInv
  <2>5. ASSUME NEW g \in Goroutine, Unlock(g) \/ ReturnNested(g)
        PROVE  Stack!Next
    <3>1. depth[g] > 0 /\ depth' = [depth EXCEPT ![g] = @ - 1]
      BY <2>5 DEF Unlock, ReturnNested, IInv, Discipline, InCall
    <3>2. mu = g
      BY <2>2, <3>1
    <3>3. \A h \in Goroutine : h # g => depth[h] = 0
      BY <2>2, <3>2, ConstantsAssumption DEF IInv, TypeOK
    <3> QED BY <3>1, <3>3, StackMoves DEF IInv
  <2>6. CASE UNCHANGED vars
    BY <2>1, <2>6 DEF vars
  <2>7. ASSUME NEW g \in Goroutine,
               \/ InitModule(g) \/ InitModuleDone(g) \/ Close(g)
               \/ \E f \in Export : Invoke(g, f)
               \/ ResolveTypeName(g)
               \/ FindLock(g) \/ Lookup(g) \/ Miss(g) \/ StoreLock(g)
               \/ Insert(g) \/ Lock(g) \/ Alloc(g) \/ Return(g)
               \/ ReadResponse(g) \/ FreeRequest(g) \/ ClearHolder(g)
               \/ Callback(g) \/ HandlerReturn(g) \/ AllocResponse(g)
               \/ DecodeResult(g)
        PROVE  depth' = depth
    BY <2>7 DEF InitModule, InitModuleDone, Close, Invoke, ResolveTypeName,
                FindLock, Lookup, Miss, StoreLock, Insert, Lock, Alloc, Return,
                ReadResponse, FreeRequest, ClearHolder, Callback,
                HandlerReturn, AllocResponse, DecodeResult
  <2> QED BY <2>1, <2>3, <2>4, <2>5, <2>6, <2>7 DEF Next
<1> QED BY InductiveInvariant, <1>1, <1>2, PTL
        DEF Spec, StackDiscipline, Stack!Spec
=============================================================================
