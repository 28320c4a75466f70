-------------------------- MODULE HandleReach_proofs --------------------------
(***************************************************************************)
(* That the handles an application can reach, the requests under way and    *)
(* the pointers C++ objects hold name live objects (HandlesLive, RequestLive, *)
(* RefsLive), that the adapters C++ can call are registered                  *)
(* (HandlersRegistered), and that the bindings implement Ownership, for any  *)
(* goroutines, objects, handles and callback ids, and any collector, as long *)
(* as the application takes the care the bindings ask for.                   *)
(*                                                                          *)
(* An object is alive as long as the handle that frees the object it belongs *)
(* to is not collected.  So whoever needs an object must reach that handle,  *)
(* through keepAlive lists, from what the collector sees as used; and that   *)
(* handle must reach those that unregister the adapters of what it frees.    *)
(***************************************************************************)
EXTENDS HandleLifetime_proofs

\* The handles reached from S, by lists K, and the objects in the trees of A,
\* by owners W.
Closure(K, S) ==
  {h \in Handle : \A T \in SUBSET Handle :
     S \subseteq T /\ (\A x \in T : K[x] \subseteq T) => h \in T}

Tree(W, A) ==
  {o \in Object : \A T \in SUBSET Object :
     A \subseteq T /\ (\A x \in Object : W[x] \in T => x \in T) => o \in T}

-----------------------------------------------------------------------------
(***************************************************************************)
(* What is reached.                                                         *)
(***************************************************************************)
\* What is reached contains where one starts.
LEMMA ClosureContains ==
  ASSUME NEW K, NEW S PROVE S \cap Handle \subseteq Closure(K, S)
BY DEF Closure

\* A closed set contains all that is reached from it.
LEMMA ClosureLeast ==
  ASSUME NEW K, NEW S, NEW T \in SUBSET Handle,
         S \subseteq T, \A x \in T : K[x] \subseteq T
  PROVE  Closure(K, S) \subseteq T
BY DEF Closure

\* What is reached is closed.
LEMMA ClosureClosed ==
  ASSUME NEW K, NEW S, NEW x \in Closure(K, S), K[x] \subseteq Handle
  PROVE  K[x] \subseteq Closure(K, S)
BY DEF Closure

\* What is reached from what is reached.
LEMMA ClosureWithin ==
  ASSUME NEW K \in [Handle -> SUBSET Handle], NEW S, NEW R,
         R \subseteq Closure(K, S)
  PROVE  Closure(K, R) \subseteq Closure(K, S)
<1>1. Closure(K, S) \subseteq Handle
  BY DEF Closure
<1>2. \A x \in Closure(K, S) : K[x] \subseteq Closure(K, S)
  BY <1>1, ClosureClosed
<1> QED BY <1>1, <1>2, ClosureLeast

\* Longer lists reach more, at least within a set that the shorter lists keep to.
LEMMA ClosureGrows ==
  ASSUME NEW K, NEW L, NEW M \in SUBSET Handle, NEW S, S \subseteq M,
         \A x \in M : K[x] \subseteq L[x] \cap M
  PROVE  Closure(K, S) \subseteq Closure(L, S)
<1> SUFFICES ASSUME NEW T \in SUBSET Handle, S \subseteq T,
                    \A x \in T : L[x] \subseteq T
             PROVE  Closure(K, S) \subseteq T
  BY DEF Closure
<1>1. S \subseteq T \cap M /\ \A x \in T \cap M : K[x] \subseteq T \cap M
  OBVIOUS
<1> QED BY <1>1, ClosureLeast

\* What is reached and is no start is in a list.
LEMMA ClosureListed ==
  ASSUME NEW K \in [Handle -> SUBSET Handle], NEW S \in SUBSET Handle,
         NEW h \in Closure(K, S), h \notin S
  PROVE  \E x \in Handle : h \in K[x]
<1> SUFFICES ASSUME \A x \in Handle : h \notin K[x] PROVE FALSE
  OBVIOUS
<1> DEFINE T == Closure(K, S) \ {h}
<1>1. Closure(K, S) \subseteq Handle
  BY DEF Closure
<1>2. \A x \in T : K[x] \subseteq T
  BY <1>1, ClosureClosed
<1>3. S \cap Handle \subseteq T
  BY ClosureContains
<1> QED BY <1>1, <1>2, <1>3, ClosureLeast

\* What one handle reaches besides itself is reached from its list.
LEMMA ClosureOfOne ==
  ASSUME NEW K \in [Handle -> SUBSET Handle], NEW k \in Handle,
         NEW h \in Closure(K, {k}), h # k
  PROVE  h \in Closure(K, K[k])
<1> DEFINE T == Closure(K, K[k]) \cup {k}
<1>1. Closure(K, K[k]) \subseteq Handle
  BY DEF Closure
<1>2. \A x \in Closure(K, K[k]) : K[x] \subseteq Closure(K, K[k])
  BY <1>1, ClosureClosed
<1>3. K[k] \subseteq Closure(K, K[k])
  BY ClosureContains
<1>4. T \in SUBSET Handle /\ {k} \subseteq T /\ \A x \in T : K[x] \subseteq T
  <2>1. \A x \in Closure(K, K[k]) : K[x] \subseteq T
    BY <1>2
  <2>2. K[k] \subseteq T
    BY <1>3
  <2>3. \A x \in T : K[x] \subseteq T
    BY <2>1, <2>2
  <2> QED BY <1>1, <2>3
<1> HIDE DEF T
<1>5. Closure(K, {k}) \subseteq T
  BY <1>4, ClosureLeast
<1> QED BY <1>5 DEF T

-----------------------------------------------------------------------------
(***************************************************************************)
(* What belongs to what.                                                    *)
(***************************************************************************)
\* A tree contains its roots.
LEMMA TreeContains ==
  ASSUME NEW W, NEW A \in SUBSET Object PROVE A \subseteq Tree(W, A)
BY DEF Tree

\* A set closed under ownership contains the trees of what is in it.
LEMMA TreeLeast ==
  ASSUME NEW W, NEW A, NEW T \in SUBSET Object, A \subseteq T,
         \A x \in Object : W[x] \in T => x \in T
  PROVE  Tree(W, A) \subseteq T
BY DEF Tree

\* What belongs to a member of a tree is in the tree.
LEMMA TreeClosed ==
  ASSUME NEW W, NEW A, NEW x \in Object, W[x] \in Tree(W, A)
  PROVE  x \in Tree(W, A)
BY DEF Tree

\* The trees of members of a tree are within it.
LEMMA TreeWithin ==
  ASSUME NEW W, NEW A, NEW B, B \subseteq Tree(W, A)
  PROVE  Tree(W, B) \subseteq Tree(W, A)
<1>1. Tree(W, A) \in SUBSET Object
  BY DEF Tree
<1> QED BY <1>1, TreeLeast, TreeClosed

\* What is in a tree and is no root has its owner in the tree.
LEMMA TreeOwner ==
  ASSUME NEW W, NEW A \in SUBSET Object, NEW x \in Tree(W, A), x \notin A
  PROVE  x \in Object /\ W[x] \in Tree(W, A)
<1> DEFINE T == Tree(W, A) \ {x}
<1>1. Tree(W, A) \in SUBSET Object /\ A \subseteq T
  BY TreeContains DEF Tree
<1>2. ASSUME W[x] \notin Tree(W, A) PROVE FALSE
  <2>1. \A y \in Object : W[y] \in T => y \in T
    BY <1>2, TreeClosed
  <2> QED BY <1>1, <2>1, TreeLeast
<1> QED BY <1>1, <1>2

\* What belongs to one of A belongs to A, and the other way round.
LEMMA TreeSplit ==
  ASSUME NEW W, NEW A \in SUBSET Object
  PROVE  /\ \A a \in A : Tree(W, {a}) \subseteq Tree(W, A)
         /\ \A x \in Tree(W, A) : \E a \in A : x \in Tree(W, {a})
<1> DEFINE T == {x \in Object : \E a \in A : x \in Tree(W, {a})}
<1>1. \A a \in A : Tree(W, {a}) \subseteq Tree(W, A)
  <2>1. A \subseteq Tree(W, A)
    BY TreeContains
  <2>2. \A a \in A : {a} \subseteq Tree(W, A)
    BY <2>1
  <2> QED BY <2>2, TreeWithin
<1>2. A \subseteq T
  <2>1. \A a \in A : {a} \in SUBSET Object
    OBVIOUS
  <2> QED BY <2>1, TreeContains
<1>3. \A x \in Object : W[x] \in T => x \in T
  BY TreeClosed
<1>4. Tree(W, A) \subseteq T
  BY <1>2, <1>3, TreeLeast
<1> QED BY <1>1, <1>4

\* The trees of different roots are disjoint.
LEMMA TreesApart ==
  ASSUME NEW W, NEW A \in SUBSET Object, NEW B \in SUBSET Object, A \cap B = {},
         \A x \in A \cup B : W[x] = Null
  PROVE  Tree(W, A) \cap Tree(W, B) = {}
<1> DEFINE T == Tree(W, A) \ Tree(W, B)
<1>1. Tree(W, A) \in SUBSET Object /\ Tree(W, B) \in SUBSET Object
  BY DEF Tree
<1>2. A \subseteq T
  <2>1. A \subseteq Tree(W, A)
    BY TreeContains
  <2>2. \A x \in A : x \notin Tree(W, B)
    BY <1>1, TreeOwner, NullAssumption
  <2> QED BY <2>1, <2>2
<1>3. ASSUME NEW x \in Object, W[x] \in T PROVE x \in T
  <2>1. x \in Tree(W, A)
    BY <1>3, TreeClosed
  <2>2. x \notin B
    BY <1>1, <1>3, NullAssumption
  <2>3. x \notin Tree(W, B)
    BY <1>3, <2>2, TreeOwner
  <2> QED BY <2>1, <2>3
<1>4. Tree(W, A) \subseteq T
  BY <1>1, <1>2, <1>3, TreeLeast
<1> QED BY <1>4

\* The roots A are given to c: the trees grow by theirs where c is.
Grafted(W, A, c) == [x \in Object |-> IF x \in A THEN c ELSE W[x]]

\* Trees after roots have been given away: only that of their new owner grows.
LEMMA Graft ==
  ASSUME NEW W, NEW A \in SUBSET Object, NEW c \in Object, NEW R \in SUBSET Object,
         \A x \in A : W[x] = Null
  PROVE  /\ Tree(W, R) \subseteq Tree(Grafted(W, A, c), R)
         /\ Tree(Grafted(W, A, c), R) \subseteq Tree(W, R) \cup Tree(W, A)
         /\ c \in Tree(W, R) => Tree(W, A) \subseteq Tree(Grafted(W, A, c), R)
         /\ c \notin Tree(W, R) => Tree(Grafted(W, A, c), R) = Tree(W, R)
<1> DEFINE V == Grafted(W, A, c)
<1>0. \A B : Tree(W, B) \in SUBSET Object /\ Tree(V, B) \in SUBSET Object
  BY DEF Tree
<1>00. \A x \in Object : V[x] = IF x \in A THEN c ELSE W[x]
  BY DEF Grafted
<1> HIDE DEF V
<1>1. Tree(W, R) \subseteq Tree(V, R)
  <2>1. \A x \in Object : W[x] \in Tree(V, R) => x \in Tree(V, R)
    <3> TAKE x \in Object
    <3> HAVE W[x] \in Tree(V, R)
    <3>1. x \notin A
      BY <1>0, NullAssumption
    <3> QED BY <1>00, <3>1, TreeClosed
  <2>2. R \subseteq Tree(V, R)
    BY TreeContains
  <2> QED BY <1>0, <2>1, <2>2, TreeLeast
<1>2. Tree(V, R) \subseteq Tree(W, R) \cup Tree(W, A)
  <2> DEFINE T == Tree(W, R) \cup Tree(W, A)
  <2>1. \A x \in Object : V[x] \in T => x \in T
    <3> TAKE x \in Object
    <3> HAVE V[x] \in T
    <3>1. A \subseteq Tree(W, A)
      BY TreeContains
    <3> QED BY <1>00, <3>1, TreeClosed
  <2>2. R \subseteq T
    BY TreeContains
  <2> QED BY <1>0, <2>1, <2>2, TreeLeast
<1>3. ASSUME c \in Tree(W, R) PROVE Tree(W, A) \subseteq Tree(V, R)
  <2>1. c \in Tree(V, R)
    BY <1>1, <1>3
  <2>2. A \subseteq Tree(V, R)
    BY <1>00, <2>1, TreeClosed
  <2>3. \A x \in Object : W[x] \in Tree(V, R) => x \in Tree(V, R)
    BY <1>00, <2>2, TreeClosed
  <2> QED BY <1>0, <2>2, <2>3, TreeLeast
<1>4. ASSUME c \notin Tree(W, R) PROVE Tree(V, R) = Tree(W, R)
  <2>1. \A x \in Object : V[x] \in Tree(W, R) => x \in Tree(W, R)
    BY <1>00, <1>4, TreeClosed
  <2>2. R \subseteq Tree(W, R)
    BY TreeContains
  <2>3. Tree(V, R) \subseteq Tree(W, R)
    BY <1>0, <2>1, <2>2, TreeLeast
  <2> QED BY <1>1, <2>3
<1> QED BY <1>1, <1>2, <1>3, <1>4 DEF V

\* The trees of the roots A are cut down: the others stay as they are.
Pruned(W, A) == [x \in Object |-> IF x \in Tree(W, A) THEN Null ELSE W[x]]

\* Trees after others have been deleted.
LEMMA Prune ==
  ASSUME NEW W, NEW A \in SUBSET Object, NEW R \in SUBSET Object,
         A \cap R = {}, \A x \in A \cup R : W[x] = Null
  PROVE  Tree(Pruned(W, A), R) = Tree(W, R)
<1> DEFINE V == Pruned(W, A)
<1>0. \A B : Tree(W, B) \in SUBSET Object /\ Tree(V, B) \in SUBSET Object
  BY DEF Tree
<1>00. \A x \in Object : V[x] = IF x \in Tree(W, A) THEN Null ELSE W[x]
  BY DEF Pruned
<1> HIDE DEF V
<1>1. Tree(W, A) \cap Tree(W, R) = {}
  BY TreesApart
<1>2. Tree(V, R) \subseteq Tree(W, R)
  <2>1. \A x \in Object : V[x] \in Tree(W, R) => x \in Tree(W, R)
    BY <1>0, <1>00, NullAssumption, TreeClosed
  <2>2. R \subseteq Tree(W, R)
    BY TreeContains
  <2> QED BY <1>0, <2>1, <2>2, TreeLeast
<1>3. Tree(W, R) \subseteq Tree(V, R)
  <2> DEFINE T == Tree(V, R) \cup Tree(W, A)
  <2>1. \A x \in Object : W[x] \in T => x \in T
    <3> TAKE x \in Object
    <3> HAVE W[x] \in T
    <3>1. CASE x \in Tree(W, A)
      BY <3>1
    <3>2. CASE x \notin Tree(W, A)
      <4>1. W[x] \in Tree(V, R)
        BY <3>2, TreeClosed
      <4> QED BY <1>00, <3>2, <4>1, TreeClosed
    <3> QED BY <3>1, <3>2
  <2>2. R \subseteq T
    BY TreeContains
  <2>3. Tree(W, R) \subseteq T
    BY <1>0, <2>1, <2>2, TreeLeast
  <2> QED BY <1>1, <2>3
<1> QED BY <1>2, <1>3 DEF V

-----------------------------------------------------------------------------
(***************************************************************************)
(* The invariant.                                                           *)
(***************************************************************************)
\* Handles that a call under way is about to give away.
Frozen == {h \in Handle : \E g \in Goroutine :
             frame[g].pc = "encoded" /\ h \in frame[g].owned}

\* The keepAlive lists without them: what stays reached whatever the calls do.
Solid == [x \in Handle |-> keep[x] \ Frozen]

\* The handles that will free the object they point to.
Guards == {k \in fin : ptr[k] \in Object /\ \A g \in Goroutine : k \notin HandedOver(g)}

\* From S one reaches, by lists K, a guard in F of what p belongs to.
Anchored(K, F, P, W, S, p) == \E k \in Closure(K, S) \cap F : p \in Tree(W, {P[k]})

\* The same now: by lists that stay, to a guard that nobody is giving away.
Anchor(S, p) == Anchored(Solid, Guards, ptr, owner, S, p)

\* What the collector sees as used, besides the running finalizer, and what
\* waits for a finalizer of another handle.
Claims == held \cup (UNION {Mentioned(frame[g]) : g \in Goroutine})
               \cup (UNION {keep[x] : x \in fin})
Known == Closure(keep, Claims)

\* Types, and that dead handles and objects refer to nothing.
Lists ==
  /\ keep \in [Handle -> SUBSET made]
  /\ \A h \in Handle \ made : keep[h] = {}
  /\ refs \in [Object -> SUBSET Object]
  /\ \A o \in Object \ live : refs[o] = {}

\* The handles a call uses and does not give away, see also Unguarded: those of
\* them that only the application keeps.
Used(f) == f.borrowed \cup ({f.self} \ {Null})

\* Which kinds of calls have a receiver and borrowed arguments.
Roles(f) ==
  /\ f.op \in {"none", "new", "impl"} <=> f.self = Null
  /\ f.op = "none" => f.borrowed = {}

\* What a call uses exists, and nobody gives it away meanwhile.
InUse(g) ==
  /\ Used(frame[g]) \subseteq made
  /\ Unguarded(frame[g]) \subseteq held
  /\ \A k \in Goroutine : Used(frame[g]) \cap frame[k].owned = {}

\* The request names what the handles point to.
Request(f) ==
  f.pc = "encoded" =>
    /\ IF f.self = Null THEN f.at = Null ELSE f.at = ptr[f.self] /\ f.at \in Object
    /\ f.in = Ptrs(f.borrowed)
    /\ f.in \subseteq Object

\* What the callee keeps is pinned before it is called, or needs no handle.
Pins(f) ==
  f.pc = "encoded" =>
    /\ f.op = "new" => \A a \in f.owned : keep[a] = {}
    /\ f.op \in {"access", "method"} =>
         /\ f.pins => f.borrowed \cup f.owned \subseteq keep[f.self]
         /\ (f.pins /\ f.self \in fin) \/ \A a \in f.owned : keep[a] = {}

\* What a call has returned and its handle is going to depend on.
Result(f) ==
  f.pc = "returned" =>
    /\ f.op = "access" /\ f.result # Null =>
         f.result \in Object /\ Anchor({f.self}, f.result)
    /\ f.op \in {"new", "impl"} =>
         \A o \in Tree(owner, {f.result}) : \A p \in refs[o] :
           p \in Tree(owner, {f.result}) \/ Anchor(f.borrowed, p)

\* What is used or waited for reaches a guard of its object,
HandlesAnchored ==
  \A h \in Known :
    ptr[h] \in Object /\ (\A g \in Goroutine : h \notin HandedOver(g)) => Anchor({h}, ptr[h])

\* what objects point to is reached from the guard of their tree,
ObjectsAnchored ==
  \A k \in Guards : \A o \in Tree(owner, {ptr[k]}) : \A p \in refs[o] : Anchor({k}, p)

\* and every live object is in the tree of one that belongs to no other.
Rooted == \A o \in live : \E r \in live : owner[r] = Null /\ o \in Tree(owner, {r})

\* What is added to IInv.
RInv ==
  /\ Lists
  /\ \A g \in Goroutine : /\ Roles(frame[g]) /\ InUse(g) /\ Request(frame[g])
                          /\ Pins(frame[g]) /\ Result(frame[g])
  /\ HandlesAnchored
  /\ ObjectsAnchored
  /\ finalizing # Null => finalizing \notin Known
  /\ Rooted

\* The inductive invariant.
Inv == IInv /\ RInv

-----------------------------------------------------------------------------
\* A guard is the only one of its object, which belongs to no other.
LEMMA GuardAlone ==
  ASSUME IInv, NEW k \in Guards
  PROVE  /\ k \in Handle /\ ptr[k] \in live /\ ptr[k] \in Object /\ owner[ptr[k]] = Null
         /\ Freers(ptr[k]) = {k} /\ Makers(ptr[k]) = {}
         /\ \A j \in Guards : ptr[j] = ptr[k] => j = k
<1>1. k \in Handle /\ ptr[k] \in Object
  BY DEF IInv, Types, Guards
<1>2. \A j \in Guards : ptr[j] = ptr[k] => j \in Freers(ptr[k])
  BY DEF Guards, Freers
<1>3. Single(ptr[k])
  BY <1>1 DEF IInv
<1>4. ptr[k] \in live /\ owner[ptr[k]] = Null /\ Freers(ptr[k]) = {k} /\ Makers(ptr[k]) = {}
  BY <1>2, <1>3 DEF Single
<1> QED BY <1>1, <1>2, <1>4

\* What belongs to live objects is live.
LEMMA TreeLive ==
  ASSUME IInv, NEW A \in SUBSET live
  PROVE  Tree(owner, A) \subseteq live
<1>1. A \in SUBSET Object /\ live \subseteq Object
  BY DEF IInv, Types
<1>2. ASSUME NEW x \in Tree(owner, A), x \notin A PROVE x \in live
  <2>1. x \in Object /\ owner[x] \in Tree(owner, A)
    BY <1>1, <1>2, TreeOwner
  <2>2. owner[x] \in Object
    BY <2>1 DEF Tree
  <2> QED BY <2>1, <2>2, NullAssumption DEF IInv
<1> QED BY <1>2

\* What is anchored is live.
LEMMA AnchorLive ==
  ASSUME IInv, NEW S, NEW p, Anchor(S, p)
  PROVE  p \in live
<1>1. PICK k \in Guards : p \in Tree(owner, {ptr[k]})
  BY DEF Anchor, Anchored
<1>2. {ptr[k]} \in SUBSET live
  BY GuardAlone
<1> QED BY <1>1, <1>2, TreeLive

\* More handles anchor more.
LEMMA AnchorMore ==
  ASSUME Lists, made \subseteq Handle, NEW S, NEW R \in SUBSET Handle,
         S \subseteq Closure(Solid, R), NEW p, Anchor(S, p)
  PROVE  Anchor(R, p)
<1>1. Solid \in [Handle -> SUBSET Handle]
  BY DEF Lists, Solid
<1>2. Closure(Solid, S) \subseteq Closure(Solid, R)
  BY <1>1, ClosureWithin
<1> QED BY <1>2 DEF Anchor, Anchored

\* What a call uses the collector sees as used.
LEMMA UsedClaimed ==
  ASSUME IInv, RInv, NEW g \in Goroutine
  PROVE  /\ Used(frame[g]) \subseteq Claims /\ Mentioned(frame[g]) \subseteq Claims
         /\ Used(frame[g]) \in SUBSET Handle
<1> DEFINE f == frame[g]
<1>1. Roles(f) /\ InUse(g) /\ f \in Frame /\ made \subseteq Handle
  BY DEF RInv, IInv, Types
<1>2. Mentioned(f) \subseteq Claims
  BY DEF Claims
<1>3. f.op \in {"new", "impl"} => Used(f) \subseteq Mentioned(f)
  BY <1>1 DEF Roles, Used, Mentioned
<1>4. f.op = "access" => Used(f) \subseteq Mentioned(f) \cup Unguarded(f)
  BY <1>1 DEF Used, Mentioned, Unguarded
<1>5. f.op = "method" => Used(f) \subseteq Unguarded(f)
  BY <1>1 DEF Used, Unguarded
<1>6. f.op = "none" => Used(f) = {}
  BY <1>1 DEF Roles, Used
<1>7. held \subseteq Claims /\ Unguarded(f) \subseteq held
  BY <1>1 DEF Claims, InUse
<1>8. Used(f) \in SUBSET Handle
  BY <1>1 DEF InUse
<1>9. f.op \in {"none", "new", "impl", "access", "method"}
  BY <1>1 DEF Frame
<1> QED BY <1>2, <1>3, <1>4, <1>5, <1>6, <1>7, <1>8, <1>9

\* A call mentions handles in use.
LEMMA MentionedMade ==
  ASSUME IInv, RInv, NEW g \in Goroutine
  PROVE  Mentioned(frame[g]) \subseteq made
<1> DEFINE f == frame[g]
<1>1. Roles(f) /\ InUse(g) /\ f \in Frame /\ HandsOver(g) /\ fin \subseteq made
  BY DEF RInv, IInv, Types
<1>2. f.owned \subseteq made /\ Used(f) \subseteq made
  BY <1>1 DEF HandsOver, InUse
<1>3. Mentioned(f) \subseteq f.owned \cup Used(f)
  <2>1. f.op \in {"new", "impl"} => Mentioned(f) \subseteq f.owned \cup Used(f)
    BY DEF Mentioned, Used
  <2>2. f.op = "access" => Mentioned(f) \subseteq f.owned \cup Used(f)
    BY <1>1 DEF Mentioned, Used, Roles
  <2>3. f.op = "method" => Mentioned(f) \subseteq f.owned
    BY DEF Mentioned
  <2>4. f.op = "none" => Mentioned(f) = {}
    BY DEF Mentioned
  <2>5. f.op \in {"none", "new", "impl", "access", "method"}
    BY <1>1 DEF Frame
  <2> QED BY <2>1, <2>2, <2>3, <2>4, <2>5
<1> QED BY <1>2, <1>3

\* What is known is closed under the lists, and contains all claims.
LEMMA KnownClosed ==
  ASSUME IInv, RInv
  PROVE  /\ Claims \subseteq made /\ Claims \subseteq Known /\ Known \in SUBSET Handle
         /\ \A x \in Known : keep[x] \subseteq Known
         /\ \A x \in fin : keep[x] \subseteq Known
<1>1. Types /\ Lists
  BY DEF IInv, RInv
<1>2. Claims \subseteq made
  <2>1. \A x \in fin : keep[x] \subseteq made
    BY <1>1 DEF Types, Lists
  <2>2. \A g \in Goroutine : Mentioned(frame[g]) \subseteq made
    BY MentionedMade
  <2> QED BY <1>1, <2>1, <2>2 DEF Claims, Types
<1>3. Claims \subseteq Handle /\ Known \subseteq Handle
  BY <1>1, <1>2 DEF Types, Known, Closure
<1>4. Claims \subseteq Known
  BY <1>3, ClosureContains DEF Known
<1>5. \A x \in Known : keep[x] \subseteq Known
  <2>1. \A x \in Known : keep[x] \subseteq Handle
    BY <1>1, <1>3 DEF Lists, Types
  <2> QED BY <2>1, ClosureClosed DEF Known
<1>6. \A x \in fin : keep[x] \subseteq Known
  BY <1>4 DEF Claims
<1> QED BY <1>2, <1>3, <1>4, <1>5, <1>6

\* What is about to be given away still guards its object.
LEMMA FrozenGuard ==
  ASSUME IInv, NEW g \in Goroutine, frame[g].pc = "encoded", NEW a \in frame[g].owned
  PROVE  a \in Guards /\ a \in Frozen /\ ptr[a] \in frame[g].taken
<1>1. HandsOver(g) /\ Apart /\ Types
  BY DEF IInv
<1>2. a \in fin /\ a \in Handle /\ ptr[a] # Null /\ ptr[a] \in frame[g].taken
  BY <1>1 DEF HandsOver, Types
<1>3. ptr[a] \in Object
  BY <1>1, <1>2 DEF Types
<1>4. \A k \in Goroutine : a \notin HandedOver(k)
  BY <1>1 DEF Apart, HandedOver
<1> QED BY <1>2, <1>3, <1>4 DEF Guards, Frozen

\* From the outside, nothing reaches what is about to be given away.
LEMMA FrozenUnreached ==
  ASSUME Lists, made \subseteq Handle, NEW S \in SUBSET Handle, NEW a \in Frozen, a \notin S
  PROVE  a \notin Closure(Solid, S)
<1>1. Solid \in [Handle -> SUBSET Handle] /\ \A x \in Handle : a \notin Solid[x]
  BY DEF Lists, Solid
<1> QED BY <1>1, ClosureListed

\* What is anchored elsewhere is in no tree that a call is giving away.
LEMMA FrozenApart ==
  ASSUME IInv, RInv, NEW g \in Goroutine, frame[g].pc = "encoded",
         NEW S \in SUBSET Handle, S \cap frame[g].owned = {}, NEW p, Anchor(S, p)
  PROVE  p \notin Tree(owner, frame[g].taken)
<1>1. PICK k \in Closure(Solid, S) \cap Guards : p \in Tree(owner, {ptr[k]})
  BY DEF Anchor, Anchored
<1>2. k \notin frame[g].owned
  BY FrozenGuard, FrozenUnreached DEF RInv, IInv, Types
<1>3. ptr[k] \notin frame[g].taken
  <2>1. HandsOver(g)
    BY DEF IInv
  <2>2. \A a \in frame[g].owned : ptr[a] # ptr[k]
    BY <1>2, FrozenGuard, GuardAlone
  <2> QED BY <2>1, <2>2 DEF HandsOver
<1>4. frame[g].taken \in SUBSET Object /\ \A x \in frame[g].taken : owner[x] = Null
  <2>1. frame[g].taken \in SUBSET Object
    BY DEF IInv, Types, Frame
  <2> QED BY <2>1, TakenHasHandle
<1>5. {ptr[k]} \in SUBSET Object /\ owner[ptr[k]] = Null
  BY GuardAlone
<1>6. Tree(owner, {ptr[k]}) \cap Tree(owner, frame[g].taken) = {}
  BY <1>3, <1>4, <1>5, TreesApart
<1> QED BY <1>1, <1>6

-----------------------------------------------------------------------------
(***************************************************************************)
(* What the invariant is for.                                               *)
(***************************************************************************)
\* The three properties follow: what is anchored is live.
LEMMA InvHandlesLive == ASSUME Inv PROVE HandlesLive
<1> SUFFICES ASSUME NEW h \in Reach(held), ptr[h] # Null,
                    \A g \in Goroutine : h \notin HandedOver(g)
             PROVE  ptr[h] \in live
  BY DEF HandlesLive
<1>1. IInv /\ RInv /\ keep \in [Handle -> SUBSET Handle]
  BY DEF Inv, RInv, Lists, IInv, Types
<1>2. held \subseteq Known
  BY <1>1, KnownClosed DEF Claims
<1>3. Closure(keep, held) \subseteq Known
  BY <1>1, <1>2, ClosureWithin DEF Known
<1>4. h \in Known
  BY <1>3 DEF Reach, Closure
<1>5. ptr[h] \in Object
  BY <1>1, <1>4, KnownClosed DEF IInv, Types
<1>6. Anchor({h}, ptr[h])
  BY <1>1, <1>4, <1>5 DEF RInv, HandlesAnchored
<1> QED BY <1>1, <1>6, AnchorLive

\* What is kept is in the tree of an object that is not lost.
LEMMA KeptRooted ==
  ASSUME Inv, NEW o \in Kept
  PROVE  \E r \in live \ lost : owner[r] = Null /\ o \in Tree(owner, {r})
<1>1. PICK r \in live : owner[r] = Null /\ o \in Tree(owner, {r})
  BY DEF Inv, RInv, Rooted, Kept
<1>2. lost \in SUBSET Object
  BY DEF Inv, IInv, Types
<1>3. o \notin Tree(owner, lost)
  BY DEF Kept, O!Owned, Tree
<1>4. r \notin lost
  BY <1>1, <1>2, <1>3, TreeSplit
<1> QED BY <1>1, <1>4

\* Pointers of live objects are anchored at the guard of their root.
LEMMA InvRefsLive == ASSUME Inv PROVE RefsLive
<1> SUFFICES ASSUME NEW o \in Kept, NEW p \in refs[o] PROVE p \in live
  BY DEF RefsLive
<1>1. IInv /\ RInv
  BY DEF Inv
<1>2. PICK r \in live \ lost : owner[r] = Null /\ o \in Tree(owner, {r})
  BY KeptRooted
<1>3. r \in Object /\ Single(r)
  BY <1>1 DEF IInv, Types
<1>4. ASSUME NEW h \in Handle, h \in Freers(r) PROVE p \in live
  <2>1. h \in Guards /\ ptr[h] = r
    BY <1>3, <1>4 DEF Guards, Freers
  <2>2. Anchor({h}, p)
    BY <1>1, <1>2, <2>1 DEF RInv, ObjectsAnchored
  <2> QED BY <1>1, <2>2, AnchorLive
<1>5. ASSUME NEW g \in Goroutine, g \in Makers(r) PROVE p \in live
  <2>1. p \in Tree(owner, {r}) \/ Anchor(frame[g].borrowed, p)
    BY <1>1, <1>2, <1>5 DEF RInv, Result, Makers
  <2>2. {r} \in SUBSET live
    OBVIOUS
  <2> QED BY <1>1, <2>1, <2>2, AnchorLive, TreeLive
<1> QED BY <1>2, <1>3, <1>4, <1>5 DEF Single

\* What a request names is anchored at the handles it was read from.
LEMMA InvRequestLive == ASSUME Inv PROVE RequestLive
<1> SUFFICES ASSUME NEW g \in Goroutine, frame[g].pc = "encoded"
             PROVE  ({frame[g].at} \ {Null}) \cup frame[g].in \cup frame[g].taken \subseteq live
  BY DEF RequestLive
<1> DEFINE f == frame[g]
<1>1. IInv /\ RInv /\ f \in Frame /\ InUse(g) /\ Request(f) /\ Roles(f)
  BY DEF Inv, RInv, IInv, Types
<1>2. ASSUME NEW h \in Used(f), ptr[h] \in Object PROVE Anchor({h}, ptr[h])
  <2>1. h \in Known
    BY <1>1, UsedClaimed, KnownClosed
  <2>2. \A k \in Goroutine : h \notin HandedOver(k)
    BY <1>1 DEF InUse, HandedOver
  <2> QED BY <1>1, <1>2, <2>1, <2>2 DEF RInv, HandlesAnchored
<1>3. f.in \subseteq live
  <2>0. f.in = {ptr[h] : h \in f.borrowed} /\ f.in \subseteq Object
    BY <1>1 DEF Request, Ptrs
  <2>1. \A h \in f.borrowed : h \in Used(f) /\ ptr[h] \in Object
    BY <2>0 DEF Used
  <2>2. \A h \in f.borrowed : ptr[h] \in live
    BY <1>1, <1>2, <2>1, AnchorLive
  <2> QED BY <2>0, <2>2
<1>4. f.self # Null => f.at \in live
  <2>1. f.self # Null => f.self \in Used(f) /\ f.at = ptr[f.self] /\ ptr[f.self] \in Object
    BY <1>1 DEF Used, Request
  <2> QED BY <1>1, <1>2, <2>1, AnchorLive
<1>5. f.taken \subseteq live
  BY <1>1, TakenHasHandle DEF Frame
<1>6. {f.at} \ {Null} \subseteq live
  <2>1. f.self = Null => f.at = Null
    BY <1>1 DEF Request
  <2> QED BY <1>4, <2>1
<1> QED BY <1>3, <1>5, <1>6

-----------------------------------------------------------------------------
(***************************************************************************)
(* What a step must leave for an anchor to hold.                            *)
(***************************************************************************)
\* An anchor from S holds as long as S reaches no less, by lists that stay
\* within R, and the guards it reaches stay guards of no less.
LEMMA AnchorKept ==
  ASSUME NEW R \in SUBSET Handle, \A x \in R : Solid[x] \subseteq R \cap Solid'[x],
         NEW S \in SUBSET R, NEW p, Anchor(S, p),
         \A k \in Guards \cap Closure(Solid, S) :
           k \in Guards' /\ Tree(owner, {ptr[k]}) \subseteq Tree(owner', {ptr'[k]})
  PROVE  Anchored(Solid', Guards', ptr', owner', S, p)
<1>1. Closure(Solid, S) \subseteq Closure(Solid', S)
  BY ClosureGrows
<1>2. PICK k \in Closure(Solid, S) \cap Guards : p \in Tree(owner, {ptr[k]})
  BY DEF Anchor, Anchored
<1> QED BY <1>1, <1>2 DEF Anchored

\* What is known is in use, and stays within what is known.
LEMMA KnownShrinks ==
  ASSUME IInv, RInv, Claims' \subseteq Known,
         \A x \in Known : keep'[x] \subseteq Known
  PROVE  Known' \subseteq Known
<1>1. Known \in SUBSET Handle
  BY KnownClosed
<1>2. Closure(keep', Claims') \subseteq Known
  BY <1>1, ClosureLeast
<1> QED BY <1>2 DEF Known

\* A step that leaves objects, calls and guards alone, and the lists and
\* pointers of what is known (and more, R), keeps the invariant.
LEMMA QuietStep ==
  ASSUME IInv, RInv, NEW R \in SUBSET Handle, Known \cup fin \subseteq R,
         \A x \in R : keep[x] \subseteq R /\ keep'[x] = keep[x] /\ ptr'[x] = ptr[x],
         UNCHANGED <<live, owner, refs, frame>>, Lists', Guards' = Guards,
         held' \subseteq held, fin' \subseteq fin,
         finalizing' # Null => finalizing' \notin Known,
         \A g \in Goroutine :
           /\ Used(frame[g]) \subseteq made'
           /\ Unguarded(frame[g]) \subseteq held'
           /\ frame[g].self \in fin \cap Known => frame[g].self \in fin'
  PROVE  RInv'
<1>0. /\ Lists /\ HandlesAnchored /\ ObjectsAnchored /\ Rooted /\ Types
      /\ keep \in [Handle -> SUBSET made] /\ made \subseteq Handle
      /\ \A g \in Goroutine : /\ Roles(frame[g]) /\ InUse(g) /\ Request(frame[g])
                              /\ Pins(frame[g]) /\ Result(frame[g]) /\ HandsOver(g)
  BY DEF RInv, IInv, Types, Lists
<1>1. Known' \subseteq Known /\ fin \subseteq Handle
  <2>1. Claims' \subseteq Claims
    <3>1. \A x \in fin' : keep'[x] = keep[x] /\ x \in fin
      OBVIOUS
    <3>2. UNION {keep'[x] : x \in fin'} \subseteq UNION {keep[x] : x \in fin}
      BY <3>1
    <3>3. Claims' = held' \cup (UNION {Mentioned(frame[g]) : g \in Goroutine})
                      \cup (UNION {keep'[x] : x \in fin'})
      BY DEF Claims, Mentioned
    <3> QED BY <3>2, <3>3 DEF Claims
  <2>2. Claims \subseteq Known /\ \A x \in Known : keep[x] \subseteq Known
    BY KnownClosed
  <2>3. \A x \in Known : keep'[x] \subseteq Known
    BY <2>2
  <2> QED BY <1>0, <2>1, <2>2, <2>3, KnownShrinks DEF Types
<1>2. \A x \in R : Solid[x] \subseteq R \cap Solid'[x]
  <2>1. Frozen' = Frozen
    BY DEF Frozen
  <2> QED BY <2>1 DEF Solid
<1>3. ASSUME NEW S \in SUBSET R, NEW p, Anchor(S, p)
      PROVE  Anchored(Solid', Guards', ptr', owner', S, p)
  <2>1. \A k \in Guards : k \in Guards' /\ ptr'[k] = ptr[k]
    BY DEF Guards
  <2>2. \A k \in Guards \cap Closure(Solid, S) :
          k \in Guards' /\ Tree(owner, {ptr[k]}) \subseteq Tree(owner', {ptr'[k]})
    BY <2>1
  <2> QED BY <1>2, <1>3, <2>2, AnchorKept
<1>4. \A g \in Goroutine : HandedOver(g)' = HandedOver(g)
  BY DEF HandedOver
<1>5. HandlesAnchored'
  <2> SUFFICES ASSUME NEW h \in Known', ptr'[h] \in Object,
                      \A g \in Goroutine : h \notin HandedOver(g)'
               PROVE  Anchored(Solid', Guards', ptr', owner', {h}, ptr'[h])
    BY DEF HandlesAnchored, Anchor
  <2>1. h \in Known /\ h \in R /\ ptr'[h] = ptr[h]
    BY <1>1
  <2>2. Anchor({h}, ptr[h])
    BY <1>0, <1>4, <2>1 DEF HandlesAnchored
  <2> QED BY <1>3, <2>1, <2>2
<1>6. ObjectsAnchored'
  <2> SUFFICES ASSUME NEW k \in Guards', NEW o \in Tree(owner', {ptr'[k]}), NEW p \in refs'[o]
               PROVE  Anchored(Solid', Guards', ptr', owner', {k}, p)
    BY DEF ObjectsAnchored, Anchor
  <2>1. k \in Guards /\ k \in R /\ ptr'[k] = ptr[k]
    BY DEF Guards
  <2>2. Anchor({k}, p)
    BY <1>0, <2>1 DEF ObjectsAnchored
  <2> QED BY <1>3, <2>1, <2>2
<1>7. ASSUME NEW g \in Goroutine
      PROVE  /\ Roles(frame[g])' /\ InUse(g)' /\ Request(frame[g])'
             /\ Pins(frame[g])' /\ Result(frame[g])'
  <2> DEFINE f == frame[g]
  <2>1. f.borrowed \subseteq R /\ (f.self # Null => f.self \in Known /\ f.self \in R)
        /\ f.owned \subseteq R
    <3>1. Used(f) \subseteq Known
      BY UsedClaimed, KnownClosed
    <3> QED BY <1>0, <3>1 DEF Used, HandsOver
  <2>2. Roles(f)' /\ InUse(g)'
    BY <1>0 DEF Roles, InUse, Used
  <2>3. Request(f)'
    <3>1. \A h \in f.borrowed : ptr'[h] = ptr[h]
      BY <2>1
    <3>2. Ptrs(f.borrowed)' = Ptrs(f.borrowed)
      BY <3>1 DEF Ptrs
    <3> QED BY <1>0, <2>1, <3>2 DEF Request
  <2>4. Pins(f)'
    <3>1. f.op \in {"access", "method"} =>
            keep'[f.self] = keep[f.self] /\ (f.self \in fin => f.self \in fin')
      BY <1>0, <2>1 DEF Roles
    <3>2. \A a \in f.owned : keep'[a] = keep[a]
      BY <2>1
    <3> QED BY <1>0, <3>1, <3>2 DEF Pins
  <2>5. Result(f)'
    <3>1. f.op = "access" => f.self # Null
      BY <1>0 DEF Roles
    <3>2. ASSUME f.pc = "returned", f.op = "access", f.result # Null
          PROVE  f.result \in Object
                 /\ Anchored(Solid', Guards', ptr', owner', {f.self}, f.result)
      BY <1>0, <1>3, <2>1, <3>1, <3>2 DEF Result
    <3>3. ASSUME f.pc = "returned", f.op \in {"new", "impl"},
                 NEW o \in Tree(owner, {f.result}), NEW p \in refs[o]
          PROVE  p \in Tree(owner, {f.result})
                 \/ Anchored(Solid', Guards', ptr', owner', f.borrowed, p)
      BY <1>0, <1>3, <2>1, <3>3 DEF Result
    <3> QED BY <3>2, <3>3 DEF Result, Anchor
  <2> QED BY <2>2, <2>3, <2>4, <2>5
<1>8. Rooted'
  BY <1>0 DEF Rooted
<1>9. finalizing' # Null => finalizing' \notin Known'
  BY <1>1
<1> QED BY <1>5, <1>6, <1>7, <1>8, <1>9 DEF RInv
-----------------------------------------------------------------------------
(***************************************************************************)
(* The application drops handles, and the collector.                        *)
(***************************************************************************)
\* What a call uses is in use, and what QuietStep asks of the lists.
LEMMA UsedMade ==
  ASSUME IInv, RInv
  PROVE  /\ keep \in [Handle -> SUBSET Handle] /\ made \subseteq Handle /\ fin \subseteq made
         /\ \A g \in Goroutine :
              /\ Used(frame[g]) \subseteq made /\ Used(frame[g]) \subseteq Known
              /\ Unguarded(frame[g]) \subseteq held
BY UsedClaimed, KnownClosed DEF RInv, InUse, IInv, Types, Lists

\* A call that still uses a handle keeps it held.
LEMMA DropQuiet ==
  ASSUME IInv, RInv, Careless = {}, NEW h \in Handle, Drop(h)
  PROVE  RInv'
<1>1. /\ h \in held /\ held' = held \ {h} /\ \A g \in Goroutine : h \notin Unguarded(frame[g])
      /\ UNCHANGED <<live, owner, refs, ptr, made, fin, keep, frame, finalizing>>
  BY DEF Drop, cpp, handles, collector
<1>2. \A g \in Goroutine : Unguarded(frame[g]) \subseteq held'
  BY <1>1, UsedMade
<1>3. Lists' /\ Guards' = Guards
  BY <1>1 DEF RInv, Lists, Guards, HandedOver
<1>4. Known \cup fin \subseteq Handle /\ \A x \in Handle : keep[x] \subseteq Handle
  BY UsedMade, KnownClosed
<1>5. finalizing' # Null => finalizing' \notin Known
  BY <1>1 DEF RInv
<1> QED BY <1>1, <1>2, <1>3, <1>4, <1>5, UsedMade, QuietStep

\* What Go finalizes nobody knows of any more, no call and no other finalizer.
LEMMA FinalizableUnknown ==
  ASSUME IInv, RInv, NEW h, Finalizable(h)
  PROVE  h \notin Known
<1> DEFINE T == Reach(Roots) \cup (UNION {Reach(keep[x]) : x \in fin})
<1>1. keep \in [Handle -> SUBSET Handle] /\ fin \subseteq Handle /\ Claims \subseteq Handle
  BY UsedMade, KnownClosed DEF IInv, Types
<1>2. \A S : Reach(S) = Closure(keep, S)
  BY DEF Reach, Closure
<1>3. T \in SUBSET Handle
  BY DEF Reach
<1>4. Claims \subseteq T
  <2>1. ASSUME NEW c \in Claims, c \notin Roots PROVE c \in T
    <3>1. PICK x \in fin : c \in keep[x]
      BY <2>1 DEF Claims, Roots
    <3>2. c \in Reach(keep[x])
      BY <1>1, <3>1, ReachContains
    <3> QED BY <3>2
  <2>2. \A c \in Claims \cap Roots : c \in Reach(Roots)
    BY <1>1, ReachContains
  <2> QED BY <2>1, <2>2
<1>5. ASSUME NEW y \in T PROVE keep[y] \subseteq T
  <2>1. \A S : y \in Reach(S) => keep[y] \subseteq Reach(S)
    BY <1>1, <1>2, <1>3, <1>5, ClosureClosed
  <2> QED BY <1>5, <2>1
<1>6. h \notin T
  BY DEF Finalizable
<1> HIDE DEF T
<1> QED BY <1>3, <1>4, <1>5, <1>6, ClosureLeast DEF Known

\* A finalizer starts when nobody knows the handle.
LEMMA FinalizeQuiet ==
  ASSUME IInv, RInv, NEW h \in Handle, Finalize(h)
  PROVE  RInv'
<1>1. /\ Finalizable(h) /\ finalizing' = h
      /\ UNCHANGED <<live, owner, refs, ptr, made, fin, keep, held, frame>>
  BY DEF Finalize, cpp, handles
<1>2. Lists' /\ Guards' = Guards
  BY <1>1 DEF RInv, Lists, Guards, HandedOver
<1>3. Known \cup fin \subseteq Handle /\ \A x \in Handle : keep[x] \subseteq Handle
  BY UsedMade, KnownClosed
<1>4. finalizing' # Null => finalizing' \notin Known
  BY <1>1, FinalizableUnknown
<1> QED BY <1>1, <1>2, <1>3, <1>4, UsedMade, QuietStep

\* The finalizer that ends has freed what it guarded.
LEMMA UnregisterQuiet ==
  ASSUME IInv, RInv, Unregister
  PROVE  RInv'
<1>1. /\ freeing = "unregister" /\ fin' = fin \ {finalizing} /\ finalizing' = Null
      /\ UNCHANGED <<live, owner, refs, ptr, made, keep, held, frame>>
  BY DEF Unregister, cpp
<1>2. ptr[finalizing] = Null /\ finalizing # Null
  BY <1>1 DEF IInv, Finalizer
<1>3. Guards' = Guards
  BY <1>1, <1>2, NullAssumption DEF Guards, HandedOver
<1>4. Lists' /\ finalizing \notin Known
  BY <1>1, <1>2 DEF RInv, Lists
<1>5. Known \cup fin \subseteq Handle /\ \A x \in Handle : keep[x] \subseteq Handle
  BY UsedMade, KnownClosed
<1> QED BY <1>1, <1>3, <1>4, <1>5, UsedMade, QuietStep

\* What is collected nobody knows, and no finalizer keeps.
LEMMA CollectQuiet ==
  ASSUME IInv, RInv, Collect
  PROVE  RInv'
<1> DEFINE R == Reach(Roots \cup fin)
<1>1. /\ made' = made \ Garbage
      /\ ptr' = [h \in Handle |-> IF h \in Garbage THEN Null ELSE ptr[h]]
      /\ keep' = [h \in Handle |-> IF h \in Garbage THEN {} ELSE keep[h]]
      /\ UNCHANGED <<live, owner, refs, fin, held, frame, finalizing>>
  BY DEF Collect, cpp, collector
<1>2. /\ keep \in [Handle -> SUBSET Handle] /\ made \subseteq Handle /\ fin \subseteq Handle
      /\ Claims \subseteq Handle /\ Lists
  BY UsedMade, KnownClosed DEF RInv, IInv, Types
<1>3. R \in SUBSET Handle /\ R = Closure(keep, Roots \cup fin)
  BY DEF Reach, Closure
<1>4. fin \subseteq R /\ \A x \in R : keep[x] \subseteq R
  <2>1. fin \subseteq (Roots \cup fin) \cap Handle
    BY <1>2
  <2>2. fin \subseteq R
    BY <2>1, ReachContains
  <2>3. \A x \in Closure(keep, Roots \cup fin) : keep[x] \subseteq Closure(keep, Roots \cup fin)
    BY <1>2, <1>3, ClosureClosed
  <2> QED BY <1>3, <2>2, <2>3
<1>5. Known \subseteq R
  <2>1. Claims \subseteq R
    <3>1. ASSUME NEW c \in Claims, c \notin Roots PROVE c \in R
      <4>1. PICK x \in fin : c \in keep[x]
        BY <3>1 DEF Claims, Roots
      <4> QED BY <1>4, <4>1
    <3>2. \A c \in Claims \cap Roots : c \in R
      BY <1>2, ReachContains
    <3> QED BY <3>1, <3>2
  <2> QED BY <1>3, <1>4, <2>1, ClosureLeast DEF Known
<1>6. Garbage \cap R = {} /\ Garbage = made \ (fin \cup R)
  BY DEF Garbage
<1>7. \A x \in R : keep[x] \subseteq R /\ keep'[x] = keep[x] /\ ptr'[x] = ptr[x]
  BY <1>1, <1>3, <1>4, <1>6
<1>8. Lists'
  <2>1. ASSUME NEW x \in Handle PROVE keep'[x] \subseteq made' /\ (x \notin made' => keep'[x] = {})
    <3>1. CASE x \in R
      BY <1>1, <1>2, <1>6, <1>7, <3>1 DEF Lists
    <3>2. CASE x \notin R
      BY <1>1, <1>2, <1>4, <1>6, <3>2 DEF Lists
    <3> QED BY <3>1, <3>2
  <2>2. keep' \in [Handle -> SUBSET made']
    BY <1>1, <2>1
  <2> QED BY <1>1, <1>2, <2>1, <2>2 DEF Lists
<1>9. Guards' = Guards
  BY <1>1, <1>4, <1>7 DEF Guards, HandedOver
<1>10. \A g \in Goroutine : Used(frame[g]) \subseteq made'
  BY <1>1, <1>5, <1>6, UsedMade
<1>11. finalizing' # Null => finalizing' \notin Known
  BY <1>1 DEF RInv
<1> HIDE DEF R
<1> QED BY <1>1, <1>3, <1>4, <1>5, <1>7, <1>8, <1>9, <1>10, <1>11, UsedMade, QuietStep

\* What other components do leaves the handles alone.
LEMMA StutterQuiet ==
  ASSUME IInv, RInv, UNCHANGED vars
  PROVE  RInv'
<1>1. UNCHANGED <<live, owner, refs, ptr, made, fin, keep, held, frame, finalizing>>
  BY DEF vars, cpp, handles, collector
<1>2. Lists' /\ Guards' = Guards
  BY <1>1 DEF RInv, Lists, Guards, HandedOver
<1>3. Known \cup fin \subseteq Handle /\ \A x \in Handle : keep[x] \subseteq Handle
  BY UsedMade, KnownClosed
<1>4. finalizing' # Null => finalizing' \notin Known
  BY <1>1 DEF RInv
<1> QED BY <1>1, <1>2, <1>3, <1>4, UsedMade, QuietStep
-----------------------------------------------------------------------------
(***************************************************************************)
(* Objects are deleted.                                                     *)
(***************************************************************************)
\* An object is owned by a live one, or by none.
LEMMA OwnerLive ==
  ASSUME IInv, Rooted, NEW x \in Object
  PROVE  owner[x] \in live \cup {Null}
<1>1. CASE x \notin live
  BY <1>1 DEF IInv
<1>2. CASE x \in live
  <2>1. PICK r \in live : owner[r] = Null /\ x \in Tree(owner, {r})
    BY <1>2 DEF Rooted
  <2>2. {r} \in SUBSET Object /\ {r} \in SUBSET live
    BY DEF IInv, Types
  <2>3. x # r => owner[x] \in Tree(owner, {r})
    BY <2>1, <2>2, TreeOwner
  <2>4. Tree(owner, {r}) \subseteq live
    BY <2>2, TreeLive
  <2> QED BY <2>1, <2>3, <2>4
<1> QED BY <1>1, <1>2

\* An object that is not there yet owns nothing.
LEMMA FreshAlone ==
  ASSUME IInv, Rooted, NEW o \in Object, o \notin live
  PROVE  Tree(owner, {o}) = {o} /\ owner[o] = Null
<1>1. \A x \in Object : owner[x] \in {o} => x \in {o}
  BY OwnerLive, NullAssumption
<1>2. {o} \in SUBSET Object
  OBVIOUS
<1>3. Tree(owner, {o}) \subseteq {o}
  BY <1>1, <1>2, TreeLeast
<1> QED BY <1>2, <1>3, TreeContains DEF IInv

\* Deleting roots leaves the trees of the other roots as they are.
LEMMA DeleteLeaves ==
  ASSUME IInv, Lists, Rooted, NEW A \in SUBSET live, \A x \in A : owner[x] = Null, Delete(A)
  PROVE  /\ \A r \in live \ A : owner[r] = Null =>
              /\ r \in live' /\ owner'[r] = Null
              /\ Tree(owner', {r}) = Tree(owner, {r})
              /\ \A o \in Tree(owner, {r}) : refs'[o] = refs[o]
         /\ Rooted'
         /\ refs' \in [Object -> SUBSET Object] /\ \A o \in Object \ live' : refs'[o] = {}
<1>1. /\ live \subseteq Object /\ A \in SUBSET Object
      /\ refs \in [Object -> SUBSET Object] /\ \A o \in Object \ live : refs[o] = {}
  BY DEF IInv, Types, Lists
<1>2. /\ live' = live \ Tree(owner, A) /\ owner' = Pruned(owner, A)
      /\ refs' = [x \in Object |-> IF x \in Tree(owner, A) THEN {} ELSE refs[x]]
  BY DEF Delete, O!Owned, Tree, Pruned
<1>3. ASSUME NEW r \in live \ A, owner[r] = Null
      PROVE  /\ r \in live' /\ owner'[r] = Null
             /\ Tree(owner', {r}) = Tree(owner, {r})
             /\ \A o \in Tree(owner, {r}) : refs'[o] = refs[o]
  <2>1. {r} \in SUBSET Object /\ A \cap {r} = {} /\ \A x \in A \cup {r} : owner[x] = Null
    BY <1>1, <1>3
  <2>2. Tree(owner, A) \cap Tree(owner, {r}) = {}
    BY <1>1, <2>1, TreesApart
  <2>3. Tree(Pruned(owner, A), {r}) = Tree(owner, {r})
    BY <1>1, <2>1, Prune
  <2>4. r \in Tree(owner, {r}) /\ Tree(owner, {r}) \subseteq Object
    BY <2>1, TreeContains DEF Tree
  <2> QED BY <1>1, <1>2, <1>3, <2>2, <2>3, <2>4 DEF Pruned
<1>4. Rooted'
  <2> SUFFICES ASSUME NEW o \in live'
               PROVE  \E r \in live' : owner'[r] = Null /\ o \in Tree(owner', {r})
    BY DEF Rooted
  <2>1. o \in live /\ o \notin Tree(owner, A)
    BY <1>2
  <2>2. PICK r \in live : owner[r] = Null /\ o \in Tree(owner, {r})
    BY <2>1 DEF Rooted
  <2>3. r \notin A
    BY <1>1, <2>1, <2>2, TreeSplit
  <2> QED BY <1>3, <2>2, <2>3
<1> QED BY <1>1, <1>2, <1>3, <1>4

\* A finalizer deletes what its handle alone guards, or loses it: nobody else
\* reaches it.
LEMMA FreeKeeps ==
  ASSUME IInv, RInv, Free
  PROVE  RInv'
<1> DEFINE K == finalizing
<1>1. /\ freeing = "free" /\ ptr' = [ptr EXCEPT ![K] = Null]
      /\ (ptr[K] # Null /\ Delete({ptr[K]})) \/ UNCHANGED <<live, owner, refs>>
      /\ UNCHANGED <<made, fin, keep, held, frame, finalizing>>
  BY DEF Free, cpp
<1>2. /\ K \in fin /\ K \in Handle /\ K # Null /\ K \notin Known
      /\ \A g \in Goroutine : K \notin frame[g].owned /\ K \notin HandedOver(g)
      /\ ptr \in [Handle -> Object \cup {Null}] /\ live \subseteq Object
  BY <1>1 DEF IInv, RInv, Finalizer, Types, HandedOver
<1>3. CASE ptr[K] = Null
  <2>1. ptr' = ptr /\ UNCHANGED <<live, owner, refs>>
    BY <1>1, <1>2, <1>3
  <2>2. Lists' /\ Guards' = Guards
    BY <1>1, <2>1 DEF RInv, Lists, Guards, HandedOver
  <2>3. Known \cup fin \subseteq Handle /\ \A x \in Handle : keep[x] \subseteq Handle
    BY UsedMade, KnownClosed
  <2>4. finalizing' # Null => finalizing' \notin Known
    BY <1>1, <1>2
  <2> QED BY <1>1, <2>1, <2>2, <2>3, <2>4, UsedMade, QuietStep
<1>4. CASE ptr[K] # Null
  <2> DEFINE A == {ptr[K]}
  <2>1. K \in Guards /\ ptr[K] \in Object
    BY <1>2, <1>4 DEF Guards
  <2>2. /\ Lists /\ HandlesAnchored /\ ObjectsAnchored /\ Rooted
        /\ \A g \in Goroutine : /\ Roles(frame[g]) /\ InUse(g) /\ Request(frame[g])
                                /\ Pins(frame[g]) /\ Result(frame[g]) /\ HandsOver(g)
    BY DEF RInv, IInv
  <2>3. A \in SUBSET live /\ \A x \in A : owner[x] = Null
    BY <2>1, GuardAlone
  <2>4. /\ \A r \in live \ A : owner[r] = Null =>
             /\ r \in live' /\ owner'[r] = Null
             /\ Tree(owner', {r}) = Tree(owner, {r})
             /\ \A o \in Tree(owner, {r}) : refs'[o] = refs[o]
        /\ Rooted'
        /\ refs' \in [Object -> SUBSET Object] /\ \A o \in Object \ live' : refs'[o] = {}
    <3>1. CASE Delete(A)
      <4> HIDE DEF A
      <4> QED BY <2>2, <2>3, <3>1, DeleteLeaves
    <3>2. CASE UNCHANGED <<live, owner, refs>>
      BY <2>2, <3>2 DEF Rooted, Lists
    <3> QED BY <1>1, <3>1, <3>2
  <2>5. Guards' = Guards \ {K} /\ \A k \in Guards' : ptr'[k] = ptr[k]
    <3>1. \A g \in Goroutine : HandedOver(g)' = HandedOver(g)
      BY <1>1 DEF HandedOver
    <3>2. \A k \in fin : k # K => ptr'[k] = ptr[k]
      BY <1>1, <1>2
    <3>3. ptr'[K] = Null
      BY <1>1, <1>2
    <3> QED BY <1>1, <3>1, <3>2, <3>3, NullAssumption DEF Guards
  <2>6. \A k \in Guards' : /\ k \in Guards
                           /\ Tree(owner', {ptr'[k]}) = Tree(owner, {ptr[k]})
                           /\ \A o \in Tree(owner, {ptr[k]}) : refs'[o] = refs[o]
    <3>1. \A k \in Guards' : ptr[k] # ptr[K] /\ ptr[k] \in live /\ owner[ptr[k]] = Null
      BY <2>1, <2>5, GuardAlone
    <3> QED BY <2>4, <2>5, <3>1
  <2>7. /\ keep \in [Handle -> SUBSET Handle] /\ Known \in SUBSET Handle
        /\ \A x \in Known \cup fin : keep[x] \subseteq Known
        /\ Solid \in [Handle -> SUBSET Handle] /\ Solid' = Solid
    <3>1. keep \in [Handle -> SUBSET Handle]
      BY UsedMade
    <3>2. Solid' = Solid
      BY <1>1 DEF Solid, Frozen
    <3> QED BY <3>1, <3>2, KnownClosed DEF Solid
  <2>8. \A k \in Guards' : K \notin Known \cup {k}
    BY <1>2, <2>5
  <2>9. ASSUME NEW M, Known \subseteq M, M \subseteq Known \cup Guards', K \notin M,
               NEW S \in SUBSET M, NEW p, Anchor(S, p)
        PROVE  Anchored(Solid', Guards', ptr', owner', S, p)
    <3>1. M \in SUBSET Handle /\ S \in SUBSET Handle
      BY <1>2, <2>5, <2>7, <2>9 DEF Guards, IInv, Types
    <3>2. \A x \in M : Solid[x] \subseteq M
      <4>1. \A x \in M : keep[x] \subseteq Known
        BY <2>5, <2>7, <2>9 DEF Guards
      <4> QED BY <2>9, <3>1, <4>1 DEF Solid
    <3>3. Closure(Solid, S) \subseteq M
      BY <3>1, <3>2, ClosureLeast
    <3>4. \A k \in Guards \cap Closure(Solid, S) :
            k \in Guards' /\ Tree(owner, {ptr[k]}) \subseteq Tree(owner', {ptr'[k]})
      BY <2>5, <2>6, <2>9, <3>3
    <3>5. \A x \in M : Solid[x] \subseteq M \cap Solid'[x]
      BY <2>7, <3>2
    <3> QED BY <2>9, <3>1, <3>4, <3>5, AnchorKept
  <2>10. ASSUME NEW S \in SUBSET Known, NEW p, Anchor(S, p)
         PROVE  Anchored(Solid', Guards', ptr', owner', S, p)
    BY <1>2, <2>9, <2>10
  <2>11. Known' = Known
    BY <1>1 DEF Known, Claims, Mentioned
  <2>12. HandlesAnchored'
    <3> SUFFICES ASSUME NEW h \in Known', ptr'[h] \in Object,
                        \A g \in Goroutine : h \notin HandedOver(g)'
                 PROVE  Anchored(Solid', Guards', ptr', owner', {h}, ptr'[h])
      BY DEF HandlesAnchored, Anchor
    <3>1. h \in Known /\ ptr'[h] = ptr[h]
      BY <1>1, <1>2, <2>7, <2>11
    <3>2. \A g \in Goroutine : h \notin HandedOver(g)
      BY <1>1 DEF HandedOver
    <3>3. Anchor({h}, ptr[h])
      BY <2>2, <3>1, <3>2 DEF HandlesAnchored
    <3> QED BY <2>10, <3>1, <3>3
  <2>13. ObjectsAnchored'
    <3> SUFFICES ASSUME NEW k \in Guards', NEW o \in Tree(owner', {ptr'[k]}), NEW p \in refs'[o]
                 PROVE  Anchored(Solid', Guards', ptr', owner', {k}, p)
      BY DEF ObjectsAnchored, Anchor
    <3>1. k \in Guards /\ o \in Tree(owner, {ptr[k]}) /\ p \in refs[o]
      BY <2>6
    <3>2. Anchor({k}, p)
      BY <2>2, <3>1 DEF ObjectsAnchored
    <3> DEFINE M == Known \cup {k}
    <3>3. Known \subseteq M /\ M \subseteq Known \cup Guards' /\ K \notin M /\ {k} \in SUBSET M
      BY <2>8
    <3> HIDE DEF M
    <3> QED BY <2>9, <3>2, <3>3
  <2>14. ASSUME NEW g \in Goroutine
         PROVE  /\ Roles(frame[g])' /\ InUse(g)' /\ Request(frame[g])'
                /\ Pins(frame[g])' /\ Result(frame[g])'
    <3> DEFINE f == frame[g]
    <3>1. /\ f.borrowed \subseteq Known /\ (f.self # Null => f.self \in Known)
      <4>1. Used(f) \subseteq Known
        BY UsedMade
      <4> QED BY <4>1 DEF Used
    <3>2. Roles(f)' /\ InUse(g)' /\ Pins(f)'
      BY <1>1, <2>2 DEF Roles, InUse, Used, Pins
    <3>3. Request(f)'
      <4>1. \A h \in Known : ptr'[h] = ptr[h]
        BY <1>1, <1>2, <2>7
      <4>2. \A h \in f.borrowed : ptr'[h] = ptr[h]
        BY <3>1, <4>1
      <4>3. Ptrs(f.borrowed)' = Ptrs(f.borrowed)
        BY <1>1, <4>2 DEF Ptrs
      <4> QED BY <1>1, <2>2, <3>1, <4>1, <4>3 DEF Request
    <3>4. Result(f)'
      <4>1. f.op = "access" => f.self # Null
        BY <2>2 DEF Roles
      <4>2. ASSUME f.pc = "returned", f.op = "access", f.result # Null
            PROVE  f.result \in Object
                   /\ Anchored(Solid', Guards', ptr', owner', {f.self}, f.result)
        BY <2>2, <2>10, <3>1, <4>1, <4>2 DEF Result
      <4>3. ASSUME f.pc = "returned", f.op \in {"new", "impl"}
            PROVE  /\ Tree(owner', {f.result}) = Tree(owner, {f.result})
                   /\ \A o \in Tree(owner, {f.result}) : refs'[o] = refs[o]
        <5>1. f.result \in Object /\ g \in Makers(f.result)
          BY <2>2, <4>3 DEF HandsOver, Makers
        <5>2. f.result \in live /\ owner[f.result] = Null
          BY <5>1 DEF IInv, Single
        <5>3. Makers(ptr[K]) = {}
          BY <2>1, GuardAlone
        <5> QED BY <2>4, <5>1, <5>2, <5>3
      <4>4. ASSUME f.pc = "returned", f.op \in {"new", "impl"},
                   NEW o \in Tree(owner', {f.result}), NEW p \in refs'[o]
            PROVE  p \in Tree(owner', {f.result})
                   \/ Anchored(Solid', Guards', ptr', owner', f.borrowed, p)
        BY <2>2, <2>10, <3>1, <4>3, <4>4 DEF Result
      <4> QED BY <1>1, <4>2, <4>4 DEF Result, Anchor
    <3> QED BY <3>2, <3>3, <3>4
  <2>15. Lists'
    BY <1>1, <2>2, <2>4 DEF Lists
  <2>16. finalizing' # Null => finalizing' \notin Known'
    BY <1>1, <1>2, <2>11
  <2> QED BY <2>4, <2>12, <2>13, <2>14, <2>15, <2>16 DEF RInv
<1> QED BY <1>3, <1>4
-----------------------------------------------------------------------------
(***************************************************************************)
(* The C++ side.                                                            *)
(***************************************************************************)
\* The handles of the call stay the same.
Answers(g, a) ==
  /\ Answered(g, a) /\ a.self = frame[g].self /\ a.borrowed = frame[g].borrowed
  /\ a.id = frame[g].id

\* What the parts of the invariant say about one call.
CallOK(g) ==
  /\ Roles(frame[g]) /\ InUse(g) /\ Request(frame[g])
  /\ Pins(frame[g]) /\ Result(frame[g]) /\ HandsOver(g)

\* The parts of the invariant, for citing.
LEMMA RInvParts ==
  ASSUME IInv, RInv
  PROVE  /\ Lists /\ HandlesAnchored /\ ObjectsAnchored /\ Rooted /\ Types
         /\ live \subseteq Object /\ ptr \in [Handle -> Object \cup {Null}]
         /\ frame \in [Goroutine -> Frame]
         /\ Solid \in [Handle -> SUBSET Handle]
         /\ \A g \in Goroutine : CallOK(g) /\ frame[g] \in Frame
BY DEF RInv, IInv, Types, CallOK, Lists, Solid

\* When a call returns or fails, what it was given is no guard any more and
\* nothing is reached less.
LEMMA AnswersReach ==
  ASSUME IInv, RInv, NEW g \in Goroutine, NEW a \in Frame, Answers(g, a)
  PROVE  /\ UNCHANGED <<ptr, made, fin, keep, held, finalizing>>
         /\ frame'[g] = a /\ \A k \in Goroutine \ {g} : frame'[k] = frame[k]
         /\ Known' = Known /\ Guards' = Guards \ frame[g].owned
         /\ \A x \in Handle : Solid[x] \subseteq Solid'[x]
         /\ HandedOver(g)' = frame[g].owned
         /\ \A k \in Goroutine \ {g} : HandedOver(k)' = HandedOver(k)
         /\ \A k \in Goroutine : /\ Roles(frame[k])' /\ InUse(k)'
                                 /\ Request(frame[k])' /\ Pins(frame[k])'
<1>0. /\ UNCHANGED <<ptr, made, fin, keep, held, finalizing>>
      /\ frame' = [frame EXCEPT ![g] = a] /\ frame[g].pc = "encoded"
      /\ a.pc \in {"returned", "failed"} /\ a.op = frame[g].op /\ a.owned = frame[g].owned
      /\ a.self = frame[g].self /\ a.borrowed = frame[g].borrowed
  BY DEF Answers, Answered, handles, collector
<1>1. frame'[g] = a /\ \A k \in Goroutine \ {g} : frame'[k] = frame[k]
  BY <1>0, RInvParts
<1>2. ASSUME NEW k \in Goroutine
      PROVE  /\ frame'[k].op = frame[k].op /\ frame'[k].owned = frame[k].owned
             /\ frame'[k].self = frame[k].self /\ frame'[k].borrowed = frame[k].borrowed
             /\ frame'[k].pc = "encoded" => k # g
  BY <1>0, <1>1
<1>3. \A k \in Goroutine : Mentioned(frame'[k]) = Mentioned(frame[k])
  BY <1>2 DEF Mentioned
<1>4. Known' = Known
  <2>1. UNION {Mentioned(frame'[k]) : k \in Goroutine}
          = UNION {Mentioned(frame[k]) : k \in Goroutine}
    BY <1>3
  <2>2. Claims' = held' \cup (UNION {Mentioned(frame'[k]) : k \in Goroutine})
                    \cup (UNION {keep'[x] : x \in fin'})
    BY DEF Claims, Mentioned
  <2>3. Claims' = Claims
    BY <1>0, <2>1, <2>2 DEF Claims
  <2> QED BY <1>0, <2>3 DEF Known
<1>5. Frozen' \subseteq Frozen
  BY <1>1, <1>2 DEF Frozen
<1>6. \A x \in Handle : Solid[x] \subseteq Solid'[x]
  BY <1>0, <1>5 DEF Solid
<1>7. /\ HandedOver(g) = {} /\ HandedOver(g)' = frame[g].owned
      /\ \A k \in Goroutine \ {g} : HandedOver(k)' = HandedOver(k)
  BY <1>0, <1>1 DEF HandedOver
<1>8. Guards' = Guards \ frame[g].owned
  BY <1>0, <1>7 DEF Guards
<1>9. ASSUME NEW k \in Goroutine
      PROVE  Roles(frame[k])' /\ InUse(k)' /\ Request(frame[k])' /\ Pins(frame[k])'
  <2>1. CallOK(k)
    BY RInvParts
  <2>2. Roles(frame[k])'
    BY <1>2, <2>1 DEF CallOK, Roles
  <2>3. InUse(k)'
    <3>1. \A j \in Goroutine : /\ Used(frame'[j]) = Used(frame[j])
                               /\ Unguarded(frame'[j]) = Unguarded(frame[j])
      BY <1>2 DEF Used, Unguarded
    <3>2. InUse(k)
      BY <2>1 DEF CallOK
    <3> QED BY <1>0, <1>2, <3>1, <3>2 DEF InUse, Used, Unguarded
  <2>4. CASE k = g
    BY <1>2, <2>2, <2>3, <2>4 DEF Request, Pins
  <2>5. CASE k # g
    <3>1. frame'[k] = frame[k]
      BY <1>1, <2>5
    <3>2. Request(frame[k])'
      BY <1>0, <2>1, <3>1 DEF CallOK, Request, Ptrs
    <3>3. Pins(frame[k])'
      BY <1>0, <2>1, <3>1 DEF CallOK, Pins
    <3> QED BY <2>2, <2>3, <3>2, <3>3
  <2> QED BY <2>4, <2>5
<1> QED BY <1>0, <1>1, <1>4, <1>6, <1>7, <1>8, <1>9

\* The trees of those that stay guards grow, and those of other results under
\* way stay as they are.
Spared(g) ==
  /\ \A k \in Guards \ frame[g].owned : Tree(owner, {ptr[k]}) \subseteq Tree(owner', {ptr[k]})
  /\ \A r \in live : owner[r] = Null /\ Makers(r) # {} =>
       /\ Tree(owner', {r}) = Tree(owner, {r})
       /\ \A o \in Tree(owner, {r}) : refs'[o] = refs[o]

\* Then whoever does not reach only what is given away keeps its anchor.
LEMMA AnswersAnchor ==
  ASSUME IInv, RInv, NEW g \in Goroutine, NEW a \in Frame, Answers(g, a), Spared(g),
         NEW S \in SUBSET Handle, S \cap frame[g].owned = {}, NEW p, Anchor(S, p)
  PROVE  Anchored(Solid', Guards', ptr', owner', S, p)
<1>1. /\ Guards' = Guards \ frame[g].owned /\ ptr' = ptr
      /\ \A x \in Handle : Solid[x] \subseteq Solid'[x]
  BY AnswersReach
<1>2. frame[g].pc = "encoded" /\ made \subseteq Handle /\ Lists
  BY RInvParts DEF Answers, Answered, Types
<1>3. \A x \in Handle : Solid[x] \subseteq Handle \cap Solid'[x]
  BY <1>1, RInvParts
<1>4. ASSUME NEW k \in Guards \cap Closure(Solid, S)
      PROVE  k \in Guards' /\ Tree(owner, {ptr[k]}) \subseteq Tree(owner', {ptr'[k]})
  <2>1. k \notin frame[g].owned
    BY <1>2, <1>4, FrozenGuard, FrozenUnreached
  <2> QED BY <1>1, <1>4, <2>1 DEF Spared
<1> QED BY <1>3, <1>4, AnchorKept

\* What the handles and the results of other calls depend on is still there.
LEMMA AnswersKeep ==
  ASSUME IInv, RInv, NEW g \in Goroutine, NEW a \in Frame, Answers(g, a), Spared(g)
  PROVE  /\ HandlesAnchored'
         /\ \A k \in Goroutine \ {g} : Result(frame[k])'
         /\ finalizing' # Null => finalizing' \notin Known'
<1>1. /\ UNCHANGED <<ptr, finalizing>> /\ Known' = Known
      /\ frame'[g] = a /\ \A k \in Goroutine \ {g} : frame'[k] = frame[k]
      /\ HandedOver(g)' = frame[g].owned
      /\ \A k \in Goroutine \ {g} : HandedOver(k)' = HandedOver(k)
  BY AnswersReach
<1>2. frame[g].pc = "encoded"
  BY DEF Answers, Answered
<1>3. HandlesAnchored'
  <2> SUFFICES ASSUME NEW h \in Known', ptr'[h] \in Object,
                      \A k \in Goroutine : h \notin HandedOver(k)'
               PROVE  Anchored(Solid', Guards', ptr', owner', {h}, ptr'[h])
    BY DEF HandlesAnchored, Anchor
  <2>1. h \in Known /\ h \in Handle /\ ptr'[h] = ptr[h]
    BY <1>1, KnownClosed
  <2>2. h \notin frame[g].owned /\ \A k \in Goroutine : h \notin HandedOver(k)
    BY <1>1, <1>2 DEF HandedOver
  <2>3. Anchor({h}, ptr[h])
    BY <2>1, <2>2, RInvParts DEF HandlesAnchored
  <2>4. {h} \in SUBSET Handle /\ {h} \cap frame[g].owned = {}
    BY <2>1, <2>2
  <2> QED BY <2>1, <2>3, <2>4, AnswersAnchor
<1>4. ASSUME NEW k \in Goroutine \ {g} PROVE Result(frame[k])'
  <2> DEFINE f == frame[k]
  <2>1. /\ CallOK(k) /\ frame'[k] = f /\ Used(f) \in SUBSET Handle
        /\ Used(f) \cap frame[g].owned = {}
    BY <1>1, RInvParts, UsedClaimed DEF CallOK, InUse
  <2>2. ASSUME f.pc = "returned", f.op = "access", f.result # Null
        PROVE  f.result \in Object
               /\ Anchored(Solid', Guards', ptr', owner', {f.self}, f.result)
    <3>1. f.self \in Used(f) /\ f.result \in Object /\ Anchor({f.self}, f.result)
      BY <2>1, <2>2 DEF CallOK, Roles, Result, Used
    <3>2. {f.self} \in SUBSET Handle /\ {f.self} \cap frame[g].owned = {}
      BY <2>1, <3>1
    <3> QED BY <3>1, <3>2, AnswersAnchor
  <2>3. ASSUME f.pc = "returned", f.op \in {"new", "impl"}
        PROVE  /\ Tree(owner', {f.result}) = Tree(owner, {f.result})
               /\ \A o \in Tree(owner, {f.result}) : refs'[o] = refs[o]
    <3>1. f.result \in Object /\ k \in Makers(f.result)
      BY <2>1, <2>3 DEF CallOK, HandsOver, Makers
    <3>2. f.result \in live /\ owner[f.result] = Null
      BY <3>1 DEF IInv, Single
    <3> QED BY <3>1, <3>2 DEF Spared
  <2>4. ASSUME f.pc = "returned", f.op \in {"new", "impl"},
               NEW o \in Tree(owner', {f.result}), NEW p \in refs'[o]
        PROVE  p \in Tree(owner', {f.result})
               \/ Anchored(Solid', Guards', ptr', owner', f.borrowed, p)
    <3>1. p \in Tree(owner, {f.result}) \/ Anchor(f.borrowed, p)
      BY <2>1, <2>3, <2>4 DEF CallOK, Result
    <3>2. f.borrowed \in SUBSET Handle /\ f.borrowed \cap frame[g].owned = {}
      BY <2>1 DEF Used
    <3> QED BY <2>3, <2>4, <3>1, <3>2, AnswersAnchor
  <2> HIDE DEF f
  <2>5. frame'[k] = f
    BY <2>1
  <2> QED BY <2>2, <2>4, <2>5 DEF Result, Anchor
<1>5. finalizing' # Null => finalizing' \notin Known'
  BY <1>1 DEF RInv
<1> QED BY <1>3, <1>4, <1>5

\* What a case of the call has to show of the objects.
LEMMA AnswersDone ==
  ASSUME IInv, RInv, NEW g \in Goroutine, NEW a \in Frame, Answers(g, a), Spared(g),
         refs' \in [Object -> SUBSET Object], \A o \in Object \ live' : refs'[o] = {},
         ObjectsAnchored', Rooted', Result(frame[g])'
  PROVE  RInv'
<1>1. Lists'
  <2>1. Lists /\ UNCHANGED <<made, keep>>
    BY RInvParts, AnswersReach
  <2> QED BY <2>1 DEF Lists
<1>2. \A k \in Goroutine : /\ Roles(frame[k])' /\ InUse(k)' /\ Request(frame[k])'
                           /\ Pins(frame[k])' /\ Result(frame[k])'
  BY AnswersReach, AnswersKeep
<1>3. HandlesAnchored' /\ (finalizing' # Null => finalizing' \notin Known')
  BY AnswersKeep
<1> QED BY <1>1, <1>2, <1>3 DEF RInv

\* What the request names an anchor holds: receiver and borrowed arguments.
LEMMA RequestAnchored ==
  ASSUME IInv, RInv, NEW g \in Goroutine, frame[g].pc = "encoded"
  PROVE  /\ \A p \in frame[g].in : \E h \in frame[g].borrowed :
              p = ptr[h] /\ ptr[h] \in Object /\ Anchor({h}, p)
         /\ frame[g].self # Null =>
              /\ frame[g].at = ptr[frame[g].self] /\ frame[g].at \in live
              /\ Anchor({frame[g].self}, frame[g].at)
<1> DEFINE f == frame[g]
<1>1. CallOK(g) /\ HandlesAnchored
  BY RInvParts
<1>2. ASSUME NEW h \in Used(f), ptr[h] \in Object PROVE Anchor({h}, ptr[h])
  <2>1. h \in Known
    BY UsedMade
  <2>2. \A k \in Goroutine : h \notin HandedOver(k)
    BY <1>1 DEF CallOK, InUse, HandedOver
  <2> QED BY <1>1, <1>2, <2>1, <2>2 DEF HandlesAnchored
<1>3. f.in = {ptr[h] : h \in f.borrowed} /\ f.in \subseteq Object
  BY <1>1 DEF CallOK, Request, Ptrs
<1>4. f.self # Null => f.at = ptr[f.self] /\ f.at \in Object
  BY <1>1 DEF CallOK, Request
<1>5. f.borrowed \subseteq Used(f) /\ (f.self # Null => f.self \in Used(f))
  BY DEF Used
<1> HIDE DEF f
<1>6. \A p \in f.in : \E h \in f.borrowed : p = ptr[h] /\ ptr[h] \in Object /\ Anchor({h}, p)
  BY <1>2, <1>3, <1>5
<1>7. f.self # Null => f.at = ptr[f.self] /\ f.at \in live /\ Anchor({f.self}, f.at)
  BY <1>2, <1>4, <1>5, AnchorLive
<1> QED BY <1>6, <1>7 DEF f

\* What a call takes belonged to nobody, and its handles guarded it.
LEMMA Taken ==
  ASSUME IInv, RInv, NEW g \in Goroutine, frame[g].pc = "encoded"
  PROVE  /\ frame[g].taken \in SUBSET live /\ frame[g].taken \in SUBSET Object
         /\ \A x \in frame[g].taken : owner[x] = Null /\ Makers(x) = {}
         /\ \A k \in Guards \ frame[g].owned : ptr[k] \notin frame[g].taken
         /\ \A o \in Tree(owner, frame[g].taken) :
              \E b \in frame[g].owned : b \in Guards /\ o \in Tree(owner, {ptr[b]})
         /\ \A b \in frame[g].owned : Tree(owner, {ptr[b]}) \subseteq Tree(owner, frame[g].taken)
<1>1. frame[g] \in Frame /\ HandsOver(g)
  BY RInvParts DEF CallOK
<1>2. frame[g].taken \in SUBSET Object /\ frame[g].taken = {ptr[h] : h \in frame[g].owned}
  BY <1>1 DEF Frame, HandsOver
<1>3. \A x \in frame[g].taken : x \in live /\ owner[x] = Null /\ Makers(x) = {}
  BY <1>2, TakenHasHandle
<1>4. \A b \in frame[g].owned : b \in Guards
  BY FrozenGuard
<1>5. \A k \in Guards \ frame[g].owned : ptr[k] \notin frame[g].taken
  BY <1>2, <1>4, GuardAlone
<1>6. /\ \A x \in frame[g].taken : Tree(owner, {x}) \subseteq Tree(owner, frame[g].taken)
      /\ \A o \in Tree(owner, frame[g].taken) :
           \E x \in frame[g].taken : o \in Tree(owner, {x})
  BY <1>2, TreeSplit
<1> QED BY <1>2, <1>3, <1>4, <1>5, <1>6

\* Roots with their trees, other than those taken, and what makes them differ.
LEMMA RootsApart ==
  ASSUME IInv, NEW r \in live, NEW q \in live, owner[r] = Null, owner[q] = Null, r # q
  PROVE  Tree(owner, {r}) \cap Tree(owner, {q}) = {}
<1>1. {r} \in SUBSET Object /\ {q} \in SUBSET Object /\ {r} \cap {q} = {}
  BY DEF IInv, Types
<1> QED BY <1>1, TreesApart

\* The object of a receiver belongs to no result under way.
LEMMA ReceiverApart ==
  ASSUME IInv, NEW S, NEW p, Anchor(S, p), NEW r \in live, owner[r] = Null, Makers(r) # {}
  PROVE  p \notin Tree(owner, {r})
<1>1. PICK k \in Guards : p \in Tree(owner, {ptr[k]})
  BY DEF Anchor, Anchored
<1>2. ptr[k] \in live /\ owner[ptr[k]] = Null /\ Makers(ptr[k]) = {}
  BY GuardAlone
<1> QED BY <1>1, <1>2, RootsApart

\* A part is in the trees that its owner is in; the others stay.
LEMMA PartTrees ==
  ASSUME IInv, RInv, NEW g \in Goroutine, frame[g].pc = "encoded",
         NEW o \in Object, RunMakePart(g, o), NEW R \in SUBSET Object
  PROVE  /\ Tree(owner, R) \subseteq Tree(owner', R)
         /\ Tree(owner', R) \subseteq Tree(owner, R) \cup {o}
         /\ frame[g].at \in Tree(owner, R) => o \in Tree(owner', R)
         /\ frame[g].at \notin Tree(owner, R) => Tree(owner', R) = Tree(owner, R)
<1> DEFINE f == frame[g]
           A == {o}
           c == frame[g].at
<1>1. /\ f.op = "access" /\ o \notin live /\ owner' = [owner EXCEPT ![o] = f.at]
  BY DEF RunMakePart
<1>2. /\ Rooted /\ f.self # Null /\ live \subseteq Object
      /\ owner \in [Object -> Object \cup {Null}]
  BY <1>1, RInvParts DEF CallOK, Roles, Types
<1>3. Tree(owner, {o}) = {o} /\ owner[o] = Null
  BY <1>1, <1>2, FreshAlone
<1>4. A \in SUBSET Object /\ (\A x \in A : owner[x] = Null) /\ c \in Object
  BY <1>2, <1>3, RequestAnchored
<1>5. owner' = Grafted(owner, A, c) /\ Tree(owner, A) = {o}
  BY <1>1, <1>2, <1>3 DEF Grafted
<1> HIDE DEF A, c
<1>6. /\ Tree(owner, R) \subseteq Tree(owner', R)
      /\ Tree(owner', R) \subseteq Tree(owner, R) \cup Tree(owner, A)
      /\ c \in Tree(owner, R) => Tree(owner, A) \subseteq Tree(owner', R)
      /\ c \notin Tree(owner, R) => Tree(owner', R) = Tree(owner, R)
  BY <1>4, <1>5, Graft
<1> QED BY <1>5, <1>6 DEF c

\* An accessor makes a part, which belongs to what the receiver belongs to.
LEMMA RunMakePartKeeps ==
  ASSUME IInv, RInv, NEW g \in Goroutine, frame[g].pc = "encoded",
         NEW o \in Object, RunMakePart(g, o)
  PROVE  RInv'
<1> DEFINE f == frame[g]
<1>1. /\ f.op = "access" /\ o \notin live /\ live' = live \cup {o}
      /\ owner' = [owner EXCEPT ![o] = f.at] /\ UNCHANGED refs
      /\ frame' = [frame EXCEPT ![g].pc = "returned", ![g].result = o]
      /\ UNCHANGED <<handles, held, collector>>
  BY DEF RunMakePart, Return
<1>2. /\ CallOK(g) /\ f \in Frame /\ Lists /\ ObjectsAnchored /\ Rooted /\ f.self # Null
      /\ live \subseteq Object /\ owner \in [Object -> Object \cup {Null}]
  BY <1>1, RInvParts DEF CallOK, Roles, Types
<1>3. PICK a \in Frame : Answers(g, a) /\ a.op = "access" /\ a.self = f.self /\ a.result = o
  <2> DEFINE a == [f EXCEPT !.pc = "returned", !.result = o]
  <2>1. a \in Frame /\ Answers(g, a)
    BY <1>1, <1>2 DEF Answers, Answered, Frame
  <2> QED BY <1>1, <1>2, <2>1 DEF Frame
<1>4. f.owned = {}
  BY DEF RunMakePart
<1>5. f.self \in Handle /\ f.at \in live /\ f.at \in Object /\ Anchor({f.self}, f.at)
  BY <1>2, RequestAnchored, UsedClaimed DEF Used
<1>8. ASSUME NEW R \in SUBSET Object
      PROVE  /\ Tree(owner, R) \subseteq Tree(owner', R)
             /\ Tree(owner', R) \subseteq Tree(owner, R) \cup {o}
             /\ f.at \in Tree(owner, R) => o \in Tree(owner', R)
             /\ f.at \notin Tree(owner, R) => Tree(owner', R) = Tree(owner, R)
  BY PartTrees
<1>9. Spared(g)
  <2>1. \A k \in Guards : {ptr[k]} \in SUBSET Object
    BY GuardAlone
  <2>2. ASSUME NEW r \in live, owner[r] = Null, Makers(r) # {}
        PROVE  Tree(owner', {r}) = Tree(owner, {r})
    <3>1. f.at \notin Tree(owner, {r})
      BY <1>5, <2>2, ReceiverApart
    <3>2. {r} \in SUBSET Object
      BY <1>2
    <3> QED BY <1>8, <3>1, <3>2
  <2> QED BY <1>1, <1>8, <2>1, <2>2 DEF Spared
<1>10. \A S \in SUBSET Handle : \A p :
         Anchor(S, p) => Anchored(Solid', Guards', ptr', owner', S, p)
  BY <1>3, <1>4, <1>9, AnswersAnchor
<1>11. ObjectsAnchored'
  <2> SUFFICES ASSUME NEW k \in Guards', NEW x \in Tree(owner', {ptr'[k]}), NEW p \in refs'[x]
               PROVE  Anchored(Solid', Guards', ptr', owner', {k}, p)
    BY DEF ObjectsAnchored, Anchor
  <2>1. k \in Guards /\ k \in Handle /\ ptr' = ptr /\ {ptr[k]} \in SUBSET Object
    BY <1>3, AnswersReach, GuardAlone
  <2>2. refs[o] = {}
    BY <1>1, <1>2 DEF Lists
  <2>3. x \in Tree(owner, {ptr[k]})
    BY <1>1, <1>8, <2>1, <2>2
  <2>4. Anchor({k}, p)
    BY <1>1, <1>2, <2>1, <2>3 DEF ObjectsAnchored
  <2> QED BY <1>10, <2>1, <2>4
<1>12. Result(frame[g])'
  <2>1. frame'[g] = a
    BY <1>3, AnswersReach
  <2>2. PICK k \in Closure(Solid', {f.self}) \cap Guards' : f.at \in Tree(owner', {ptr'[k]})
    <3>1. {f.self} \in SUBSET Handle
      BY <1>5
    <3>2. Anchored(Solid', Guards', ptr', owner', {f.self}, f.at)
      BY <1>5, <1>10, <3>1
    <3> QED BY <3>2 DEF Anchored
  <2>3. owner'[o] = f.at
    BY <1>1, <1>2
  <2>4. o \in Tree(owner', {ptr'[k]})
    BY <2>2, <2>3, TreeClosed
  <2>5. Anchored(Solid', Guards', ptr', owner', {f.self}, o)
    BY <2>2, <2>4 DEF Anchored
  <2> QED BY <1>3, <2>1, <2>5 DEF Result, Anchor
<1>13. Rooted'
  <2> SUFFICES ASSUME NEW x \in live'
               PROVE  \E r \in live' : owner'[r] = Null /\ x \in Tree(owner', {r})
    BY DEF Rooted
  <2>1. \A y \in live : \E r \in live : owner[r] = Null /\ y \in Tree(owner, {r})
    BY <1>2 DEF Rooted
  <2>2. \A r \in live : {r} \in SUBSET Object /\ owner'[r] = owner[r] /\ r \in live'
    BY <1>1, <1>2
  <2>3. CASE x \in live
    BY <1>8, <2>1, <2>2, <2>3
  <2>4. CASE x = o
    BY <1>5, <1>8, <2>1, <2>2, <2>4
  <2> QED BY <1>1, <2>3, <2>4
<1>14. refs' \in [Object -> SUBSET Object] /\ \A x \in Object \ live' : refs'[x] = {}
  BY <1>1, <1>2 DEF Lists
<1> QED BY <1>3, <1>9, <1>11, <1>12, <1>13, <1>14, AnswersDone

\* A new object owns the trees that the call was given; the others stay.
LEMMA ConstructTrees ==
  ASSUME IInv, RInv, Careless = {}, NEW g \in Goroutine, frame[g].pc = "encoded",
         NEW o \in Object, RunConstruct(g, o)
  PROVE  /\ \A R \in SUBSET live : Tree(owner', R) = Tree(owner, R)
         /\ Tree(owner', {o}) = {o} \cup Tree(owner, frame[g].taken)
<1> DEFINE A == frame[g].taken
<1>1. o \notin live /\ owner' = Grafted(owner, A, o)
  BY DEF RunConstruct, Grafted
<1>2. Rooted /\ live \subseteq Object
  BY RInvParts
<1>4. Tree(owner, {o}) = {o} /\ owner[o] = Null
  BY <1>1, <1>2, FreshAlone
<1>5. A \in SUBSET Object /\ \A x \in A : owner[x] = Null
  BY Taken
<1>6. ASSUME NEW R \in SUBSET live PROVE Tree(owner', R) = Tree(owner, R)
  <2>1. o \notin Tree(owner, R)
    BY <1>1, TreeLive
  <2>2. R \in SUBSET Object
    BY <1>2
  <2>3. Tree(Grafted(owner, A, o), R) = Tree(owner, R)
    <3> HIDE DEF A
    <3>1. A \in SUBSET Object
      BY <1>5
    <3>2. \A x \in A : owner[x] = Null
      BY <1>5
    <3> QED BY <2>1, <2>2, <3>1, <3>2, Graft
  <2> QED BY <1>1, <2>3
<1>7. Tree(owner', {o}) = {o} \cup Tree(owner, A)
  <2>1. {o} \in SUBSET Object /\ o \in Tree(owner, {o})
    BY <1>4
  <2>2. /\ Tree(owner, {o}) \subseteq Tree(Grafted(owner, A, o), {o})
        /\ Tree(Grafted(owner, A, o), {o}) \subseteq Tree(owner, {o}) \cup Tree(owner, A)
        /\ Tree(owner, A) \subseteq Tree(Grafted(owner, A, o), {o})
    <3> HIDE DEF A
    <3> QED BY <1>5, <2>1, Graft
  <2> QED BY <1>1, <1>4, <2>2
<1> QED BY <1>6, <1>7

\* A new object owns what the call was given, and its arguments anchor the rest.
LEMMA RunConstructKeeps ==
  ASSUME IInv, RInv, Careless = {}, NEW g \in Goroutine, frame[g].pc = "encoded",
         NEW o \in Object, RunConstruct(g, o)
  PROVE  RInv'
<1> DEFINE f == frame[g]
           A == frame[g].taken
<1>1. /\ f.op \in {"new", "impl"} /\ o \notin live /\ live' = live \cup {o}
      /\ owner' = Grafted(owner, A, o) /\ refs' = [refs EXCEPT ![o] = f.in]
      /\ frame' = [frame EXCEPT ![g].pc = "returned", ![g].result = o]
      /\ UNCHANGED <<handles, held, collector>>
  BY DEF RunConstruct, Return, Grafted
<1>2. /\ CallOK(g) /\ f \in Frame /\ Lists /\ ObjectsAnchored /\ Rooted
      /\ live \subseteq Object /\ keep \in [Handle -> SUBSET Handle]
  BY RInvParts, UsedMade
<1>3. PICK a \in Frame : /\ Answers(g, a) /\ a.op \in {"new", "impl"} /\ a.result = o
                         /\ a.borrowed = f.borrowed
  <2> DEFINE a == [f EXCEPT !.pc = "returned", !.result = o]
  <2>1. a \in Frame /\ Answers(g, a)
    BY <1>1, <1>2 DEF Answers, Answered, Frame
  <2> QED BY <1>1, <1>2, <2>1 DEF Frame
<1>4. owner[o] = Null
  BY <1>1, <1>2, FreshAlone
<1>5. /\ A \in SUBSET live /\ A \in SUBSET Object
      /\ \A x \in A : owner[x] = Null /\ Makers(x) = {}
      /\ \A k \in Guards \ f.owned : ptr[k] \notin A
      /\ \A x \in Tree(owner, A) : \E b \in f.owned : b \in Guards /\ x \in Tree(owner, {ptr[b]})
      /\ \A b \in f.owned : Tree(owner, {ptr[b]}) \subseteq Tree(owner, A)
  BY Taken
<1>6. \A R \in SUBSET live : Tree(owner', R) = Tree(owner, R)
  BY ConstructTrees
<1>7. Tree(owner', {o}) = {o} \cup Tree(owner, A)
  BY ConstructTrees
<1>8. \A x \in live : refs'[x] = refs[x]
  BY <1>1, <1>2 DEF Lists
<1>9. \A r \in live : {r} \in SUBSET live /\ Tree(owner, {r}) \subseteq live
  BY TreeLive
<1>10. Spared(g)
  <2>1. \A k \in Guards : {ptr[k]} \in SUBSET live
    BY GuardAlone
  <2> QED BY <1>6, <1>8, <1>9, <2>1 DEF Spared
<1>11. \A S \in SUBSET Handle : \A p : S \cap f.owned = {} /\ Anchor(S, p) =>
         Anchored(Solid', Guards', ptr', owner', S, p)
  BY <1>3, <1>10, AnswersAnchor
<1>12. ObjectsAnchored'
  <2> SUFFICES ASSUME NEW k \in Guards', NEW x \in Tree(owner', {ptr'[k]}), NEW p \in refs'[x]
               PROVE  Anchored(Solid', Guards', ptr', owner', {k}, p)
    BY DEF ObjectsAnchored, Anchor
  <2>1. k \in Guards /\ k \in Handle /\ ptr' = ptr /\ k \notin f.owned /\ ptr[k] \in live
    BY <1>3, AnswersReach, GuardAlone
  <2>2. x \in Tree(owner, {ptr[k]}) /\ p \in refs[x]
    BY <1>6, <1>8, <1>9, <2>1
  <2>3. Anchor({k}, p)
    BY <1>2, <2>1, <2>2 DEF ObjectsAnchored
  <2> QED BY <1>11, <2>1, <2>3
<1>13. Result(frame[g])'
  <2>1. frame'[g] = a /\ f.borrowed \in SUBSET Handle /\ f.borrowed \cap f.owned = {}
    BY <1>2, <1>3, AnswersReach, UsedClaimed DEF CallOK, InUse, Used
  <2>2. ASSUME NEW x \in Tree(owner', {o}), NEW p \in refs'[x]
        PROVE  p \in Tree(owner', {o})
               \/ Anchored(Solid', Guards', ptr', owner', f.borrowed, p)
    <3>1. CASE x = o
      <4>1. p \in f.in
        BY <1>1, <1>2, <2>2, <3>1 DEF Lists
      <4>2. PICK h \in f.borrowed : Anchor({h}, p)
        BY <4>1, RequestAnchored
      <4>3. Anchor(f.borrowed, p)
        <5>1. {h} \subseteq Closure(Solid, f.borrowed)
          BY <2>1, <4>2, ClosureContains
        <5> HIDE DEF f
        <5> QED BY <1>2, <2>1, <4>2, <5>1, UsedMade, AnchorMore
      <4> QED BY <1>11, <2>1, <4>3
    <3>2. CASE x \in Tree(owner, A)
      <4>1. PICK b \in f.owned : b \in Guards /\ x \in Tree(owner, {ptr[b]})
        BY <1>5, <3>2
      <4>2. x \in live /\ p \in refs[x]
        <5>1. x \in live
          BY <1>5, <3>2, TreeLive
        <5> QED BY <1>8, <2>2, <5>1
      <4>3. Anchor({b}, p)
        BY <1>2, <4>1, <4>2 DEF ObjectsAnchored
      <4>4. keep[b] = {} /\ b \in Handle
        <5>1. f.op = "new"
          BY <1>1, <1>2, <4>1 DEF CallOK, HandsOver
        <5> QED BY <1>2, <4>1, <5>1, GuardAlone DEF CallOK, Pins
      <4>5. Closure(Solid, {b}) \subseteq {b}
        <5>1. {b} \in SUBSET Handle /\ \A y \in {b} : Solid[y] \subseteq {b}
          BY <4>4 DEF Solid
        <5> QED BY <5>1, ClosureLeast
      <4>6. p \in Tree(owner, {ptr[b]})
        BY <4>3, <4>5 DEF Anchor, Anchored
      <4> QED BY <1>5, <1>7, <4>1, <4>6
    <3> QED BY <1>7, <2>2, <3>1, <3>2
  <2> HIDE DEF f
  <2> QED BY <1>3, <2>1, <2>2 DEF Result, Anchor
<1>14. Rooted'
  <2> SUFFICES ASSUME NEW x \in live'
               PROVE  \E r \in live' : owner'[r] = Null /\ x \in Tree(owner', {r})
    BY DEF Rooted
  <2>1. owner'[o] = Null /\ o \in live' /\ o \in Tree(owner', {o})
    BY <1>1, <1>4, <1>5, <1>7 DEF Grafted
  <2>2. CASE x \in live
    <3>1. PICK r \in live : owner[r] = Null /\ x \in Tree(owner, {r})
      BY <1>2, <2>2 DEF Rooted
    <3>2. CASE r \in A
      <4>1. x \in Tree(owner, A)
        BY <1>5, <3>1, <3>2, TreeSplit
      <4> QED BY <1>7, <2>1, <4>1
    <3>3. CASE r \notin A
      BY <1>1, <1>2, <1>6, <1>9, <3>1, <3>3 DEF Grafted
    <3> QED BY <3>2, <3>3
  <2> QED BY <1>1, <2>1, <2>2
<1>15. refs' \in [Object -> SUBSET Object] /\ \A x \in Object \ live' : refs'[x] = {}
  BY <1>1, <1>2 DEF Lists, Frame
<1> QED BY <1>3, <1>10, <1>12, <1>13, <1>14, <1>15, AnswersDone

\* What a method takes is in the trees that the receiver's object is in, and
\* was in none of its own; the others stay.
LEMMA MethodTrees ==
  ASSUME IInv, RInv, Careless = {}, NEW g \in Goroutine, frame[g].pc = "encoded",
         NEW o, NEW S, RunMethod(g, o, S)
  PROVE  /\ frame[g].self \in Handle /\ frame[g].self \in Used(frame[g])
         /\ frame[g].self \notin frame[g].owned
         /\ frame[g].at = ptr[frame[g].self] /\ frame[g].at \in live
         /\ frame[g].at \in Object /\ Anchor({frame[g].self}, frame[g].at)
         /\ frame[g].at \notin Tree(owner, frame[g].taken)
         /\ owner' = Grafted(owner, frame[g].taken, frame[g].at)
         /\ \A R \in SUBSET Object :
              /\ Tree(owner, R) \subseteq Tree(owner', R)
              /\ Tree(owner', R) \subseteq Tree(owner, R) \cup Tree(owner, frame[g].taken)
              /\ frame[g].at \in Tree(owner, R) =>
                   Tree(owner, frame[g].taken) \subseteq Tree(owner', R)
              /\ frame[g].at \notin Tree(owner, R) => Tree(owner', R) = Tree(owner, R)
<1> DEFINE f == frame[g]
           A == frame[g].taken
           at == frame[g].at
<1>1. f.op \in {"access", "method"} /\ owner' = Grafted(owner, A, at)
  BY DEF RunMethod, Grafted
<1>2. CallOK(g) /\ f \in Frame /\ f.self # Null /\ live \subseteq Object
  BY <1>1, RInvParts DEF CallOK, Roles
<1>4. A \in SUBSET Object /\ \A x \in A : owner[x] = Null
  BY Taken
<1>5. /\ f.self \in Handle /\ f.self \in Used(f) /\ f.self \notin f.owned
      /\ at = ptr[f.self] /\ at \in live /\ at \in Object
      /\ Anchor({f.self}, at) /\ at \notin Tree(owner, A)
  <2>1. /\ f.self \in Used(f) /\ f.self \in Handle /\ f.self \notin f.owned
    BY <1>2, UsedClaimed DEF Used, CallOK, InUse
  <2>2. at = ptr[f.self] /\ at \in live /\ Anchor({f.self}, at)
    BY <1>2, RequestAnchored
  <2>3. {f.self} \in SUBSET Handle /\ {f.self} \cap f.owned = {}
    BY <2>1
  <2> QED BY <1>2, <2>1, <2>2, <2>3, FrozenApart
<1>6. ASSUME NEW R \in SUBSET Object
      PROVE  /\ Tree(owner, R) \subseteq Tree(owner', R)
             /\ Tree(owner', R) \subseteq Tree(owner, R) \cup Tree(owner, A)
             /\ at \in Tree(owner, R) => Tree(owner, A) \subseteq Tree(owner', R)
             /\ at \notin Tree(owner, R) => Tree(owner', R) = Tree(owner, R)
  <2> HIDE DEF A, at
  <2> QED BY <1>1, <1>4, <1>5, Graft
<1> QED BY <1>1, <1>5, <1>6

\* A method returns or fails.
LEMMA MethodAnswers ==
  ASSUME IInv, RInv, Careless = {}, NEW g \in Goroutine, frame[g].pc = "encoded",
         NEW o \in Object \cup {Null}, NEW S, RunMethod(g, o, S)
  PROVE  \E a \in Frame : /\ Answers(g, a) /\ a.op = frame[g].op
                          /\ a.pc = "returned" => a.result = o
<1> DEFINE f == frame[g]
<1>1. f \in Frame /\ f.op \in {"access", "method"} /\ UNCHANGED <<handles, held, collector>>
  BY RInvParts DEF RunMethod
<1>2. CASE Return(g, o)
  <2> DEFINE a == [f EXCEPT !.pc = "returned", !.result = o]
  <2>1. a \in Frame /\ Answers(g, a)
    BY <1>1, <1>2 DEF Answers, Answered, Frame, Return
  <2> QED BY <1>1, <2>1 DEF Frame
<1>3. CASE Fail(g)
  <2> DEFINE a == [f EXCEPT !.pc = "failed"]
  <2>1. a \in Frame /\ Answers(g, a)
    BY <1>1, <1>3 DEF Answers, Answered, Frame, Fail
  <2> QED BY <1>1, <2>1 DEF Frame
<1> QED BY <1>2, <1>3 DEF RunMethod

\* What a method takes belongs to the object of the receiver, and what it stores
\* is pinned on the receiver, which guards the object, or it needs nothing of
\* what it takes.  What it returns is within reach of the receiver.
LEMMA RunMethodKeeps ==
  ASSUME IInv, RInv, Careless = {}, NEW g \in Goroutine, frame[g].pc = "encoded",
         NEW o \in Object \cup {Null}, NEW S, RunMethod(g, o, S)
  PROVE  RInv'
<1> DEFINE f == frame[g]
           A == frame[g].taken
           at == frame[g].at
<1>1. /\ f.op \in {"access", "method"} /\ UNCHANGED live /\ owner' = Grafted(owner, A, at)
      /\ refs' = [refs EXCEPT ![at] = @ \cup S]
      /\ S = {} \/ (S = f.in /\ f.pins /\ f.self \in fin)
      /\ UNCHANGED <<handles, held, collector>>
  BY DEF RunMethod, MayStore, Grafted
<1>01. o # Null => o = at \/ o \in refs'[at] \/ owner'[o] = at
  BY DEF RunMethod, Related
<1>2. /\ CallOK(g) /\ f \in Frame /\ Lists /\ ObjectsAnchored /\ Rooted /\ f.self # Null
      /\ live \subseteq Object /\ keep \in [Handle -> SUBSET Handle] /\ made \subseteq Handle
  BY <1>1, RInvParts, UsedMade DEF CallOK, Roles
<1>3. PICK a \in Frame : /\ Answers(g, a) /\ a.op = f.op
                         /\ a.pc = "returned" => a.result = o
  BY MethodAnswers
<1>4. /\ A \in SUBSET live /\ A \in SUBSET Object
      /\ \A x \in A : owner[x] = Null /\ Makers(x) = {}
      /\ \A k \in Guards \ f.owned : ptr[k] \notin A
      /\ \A x \in Tree(owner, A) : \E b \in f.owned : b \in Guards /\ x \in Tree(owner, {ptr[b]})
      /\ \A b \in f.owned : Tree(owner, {ptr[b]}) \subseteq Tree(owner, A)
  BY Taken
<1>5. /\ f.self \in Handle /\ f.self \in Used(f) /\ f.self \notin f.owned
      /\ at = ptr[f.self] /\ at \in live /\ at \in Object
      /\ Anchor({f.self}, at) /\ at \notin Tree(owner, A)
  BY MethodTrees
<1>6. ASSUME NEW R \in SUBSET Object
      PROVE  /\ Tree(owner, R) \subseteq Tree(owner', R)
             /\ Tree(owner', R) \subseteq Tree(owner, R) \cup Tree(owner, A)
             /\ at \in Tree(owner, R) => Tree(owner, A) \subseteq Tree(owner', R)
             /\ at \notin Tree(owner, R) => Tree(owner', R) = Tree(owner, R)
  BY MethodTrees
<1>7. /\ \A x \in Object : x # at => refs'[x] = refs[x]
      /\ refs'[at] = refs[at] \cup S /\ S \subseteq f.in /\ S \subseteq Object
  BY <1>1, <1>2, <1>5 DEF Lists, Frame
<1>8. Spared(g)
  <2>1. \A k \in Guards : {ptr[k]} \in SUBSET Object
    BY GuardAlone
  <2>2. ASSUME NEW r \in live, owner[r] = Null, Makers(r) # {}
        PROVE  /\ Tree(owner', {r}) = Tree(owner, {r})
               /\ \A x \in Tree(owner, {r}) : refs'[x] = refs[x]
    <3>1. at \notin Tree(owner, {r})
      BY <1>5, <2>2, ReceiverApart
    <3>2. {r} \in SUBSET Object
      BY <1>2
    <3>3. Tree(owner, {r}) \subseteq Object
      BY DEF Tree
    <3> QED BY <1>6, <1>7, <3>1, <3>2, <3>3
  <2> QED BY <1>6, <2>1, <2>2 DEF Spared
<1>9. \A X \in SUBSET Handle : \A p : X \cap f.owned = {} /\ Anchor(X, p) =>
        Anchored(Solid', Guards', ptr', owner', X, p)
  BY <1>3, <1>8, AnswersAnchor
<1>10. /\ Guards' = Guards \ f.owned /\ ptr' = ptr /\ keep' = keep /\ frame'[g] = a
       /\ \A k \in Goroutine \ {g} : frame'[k] = frame[k]
       /\ \A x \in Handle : Solid[x] \subseteq Solid'[x]
       /\ Solid \in [Handle -> SUBSET Handle] /\ Solid' \in [Handle -> SUBSET Handle]
  BY <1>2, <1>3, AnswersReach DEF Solid
<1>11. ASSUME NEW k \in Guards, at \in Tree(owner, {ptr[k]}), f.self \in fin
       PROVE  k = f.self
  <2>1. \A q \in Goroutine : f.self \notin HandedOver(q)
    BY <1>2, <1>5 DEF CallOK, InUse, HandedOver
  <2>2. f.self \in Guards
    BY <1>5, <1>11, <2>1 DEF Guards
  <2>3. ptr[k] \in live /\ owner[ptr[k]] = Null /\ owner[at] = Null
    BY <1>5, <2>2, GuardAlone
  <2>4. {at} \in SUBSET Object
    BY <1>5
  <2>5. at \in Tree(owner, {at})
    BY <2>4, TreeContains
  <2>6. ptr[k] = at
    BY <1>5, <1>11, <2>3, <2>5, RootsApart
  <2> QED BY <1>5, <2>2, <2>6, GuardAlone
<1>12. ASSUME NEW k \in Guards', NEW b \in f.owned, NEW p, Anchor({b}, p),
              b \in Guards, at \in Tree(owner, {ptr[k]})
       PROVE  Anchored(Solid', Guards', ptr', owner', {k}, p)
  <2>0. k \in Guards /\ k \in Handle /\ k \notin f.owned /\ {ptr[k]} \in SUBSET Object
        /\ b \in Handle
    BY <1>10, <1>12, GuardAlone
  <2>1. PICK j \in Closure(Solid, {b}) \cap Guards : p \in Tree(owner, {ptr[j]})
    BY <1>12 DEF Anchor, Anchored
  <2>2. CASE j \in f.owned
    <3>1. p \in Tree(owner', {ptr'[k]})
      BY <1>4, <1>6, <1>10, <1>12, <2>0, <2>1, <2>2
    <3>2. k \in Closure(Solid', {k})
      BY <2>0, ClosureContains
    <3> QED BY <1>12, <3>1, <3>2 DEF Anchored
  <2>3. CASE j \notin f.owned
    <3>1. j # b
      BY <2>3
    <3>2. keep[b] # {}
      <4>1. ASSUME keep[b] = {} PROVE j = b
        <5>1. {b} \in SUBSET Handle /\ \A y \in {b} : Solid[y] \subseteq {b}
          BY <2>0, <4>1 DEF Solid
        <5>2. Closure(Solid, {b}) \subseteq {b}
          BY <5>1, ClosureLeast
        <5> QED BY <2>1, <5>2
      <4> QED BY <3>1, <4>1
    <3>3. f.self \in fin /\ b \in keep[f.self]
      BY <1>1, <1>2, <3>2 DEF CallOK, Pins
    <3>5. k = f.self
      BY <1>11, <1>12, <2>0, <3>3
    <3>6. b \in Solid'[k]
      <4>1. \A q \in Goroutine : frame'[q].pc = "encoded" => b \notin frame'[q].owned
        <5>1. frame'[g].pc # "encoded"
          BY <1>3, <1>10 DEF Answers, Answered
        <5>2. \A q \in Goroutine \ {g} : b \notin frame[q].owned
          <6>1. Apart /\ b \in frame[g].owned
            BY <1>12 DEF IInv
          <6> QED BY <6>1 DEF Apart
        <5> QED BY <1>10, <5>1, <5>2
      <4>2. b \notin Frozen'
        BY <4>1 DEF Frozen
      <4> QED BY <1>10, <2>0, <3>3, <3>5, <4>2 DEF Solid
    <3>7. {b} \subseteq Closure(Solid', {k})
      <4>1. k \in Closure(Solid', {k}) /\ Solid'[k] \subseteq Handle
        BY <1>10, <2>0, ClosureContains
      <4>2. Solid'[k] \subseteq Closure(Solid', {k})
        BY <4>1, ClosureClosed
      <4> QED BY <3>6, <4>2
    <3>8. j \in Closure(Solid', {k})
      <4>1. {b} \in SUBSET Handle /\ \A y \in Handle : Solid[y] \subseteq Solid'[y] \cap Handle
        BY <1>10, <2>0
      <4>2. Closure(Solid, {b}) \subseteq Closure(Solid', {b})
        BY <4>1, ClosureGrows
      <4>3. Closure(Solid', {b}) \subseteq Closure(Solid', {k})
        BY <1>10, <3>7, ClosureWithin
      <4> QED BY <2>1, <4>2, <4>3
    <3>9. j \in Guards' /\ p \in Tree(owner', {ptr'[j]})
      <4>1. {ptr[j]} \in SUBSET Object
        BY <2>1, GuardAlone
      <4> QED BY <1>6, <1>10, <2>1, <2>3, <4>1
    <3> QED BY <3>8, <3>9 DEF Anchored
  <2> QED BY <2>2, <2>3
<1>13. ASSUME NEW k \in Guards', at \in Tree(owner, {ptr[k]}), NEW p \in S
       PROVE  Anchored(Solid', Guards', ptr', owner', {k}, p)
  <2>1. k \in Guards /\ k \in Handle /\ k \notin f.owned
    BY <1>10, GuardAlone
  <2>2. p \in f.in /\ f.self \in fin /\ f.borrowed \subseteq keep[f.self]
    BY <1>1, <1>2, <1>13 DEF CallOK, Pins
  <2>3. k = f.self
    BY <1>11, <1>13, <2>1, <2>2
  <2>4. PICK h \in f.borrowed : Anchor({h}, p)
    BY <2>2, RequestAnchored
  <2>5. h \in Solid[k]
    <3>1. h \in Used(f) /\ \A q \in Goroutine : h \notin frame[q].owned
      BY <1>2 DEF CallOK, InUse, Used
    <3> QED BY <2>1, <2>2, <2>3, <3>1 DEF Solid, Frozen
  <2>6. {h} \subseteq Closure(Solid, {k})
    <3>1. k \in Closure(Solid, {k}) /\ Solid[k] \subseteq Handle
      BY <1>10, <2>1, ClosureContains
    <3>2. Solid[k] \subseteq Closure(Solid, {k})
      BY <3>1, ClosureClosed
    <3> QED BY <2>5, <3>2
  <2>7. {k} \in SUBSET Handle /\ {k} \cap f.owned = {}
    BY <2>1
  <2>8. Anchor({k}, p)
    BY <1>2, <2>4, <2>6, <2>7, AnchorMore
  <2> QED BY <1>9, <2>7, <2>8
<1>14. ObjectsAnchored'
  <2> SUFFICES ASSUME NEW k \in Guards', NEW x \in Tree(owner', {ptr'[k]}), NEW p \in refs'[x]
               PROVE  Anchored(Solid', Guards', ptr', owner', {k}, p)
    BY DEF ObjectsAnchored, Anchor
  <2>1. /\ k \in Guards /\ k \in Handle /\ k \notin f.owned
        /\ {ptr[k]} \in SUBSET Object /\ x \in Tree(owner', {ptr[k]}) /\ x \in Object
    BY <1>10, GuardAlone DEF Tree
  <2>2. CASE p \notin refs[x]
    <3>1. x = at /\ p \in S
      BY <1>7, <2>1, <2>2
    <3>2. at \in Tree(owner, {ptr[k]})
      BY <1>5, <1>6, <2>1, <3>1
    <3> QED BY <1>13, <3>1, <3>2
  <2>3. CASE p \in refs[x] /\ x \in Tree(owner, {ptr[k]})
    <3>1. Anchor({k}, p)
      BY <1>2, <2>1, <2>3 DEF ObjectsAnchored
    <3>2. {k} \in SUBSET Handle /\ {k} \cap f.owned = {}
      BY <2>1
    <3> QED BY <1>9, <3>1, <3>2
  <2>4. CASE p \in refs[x] /\ x \notin Tree(owner, {ptr[k]})
    <3>1. x \in Tree(owner, A) /\ at \in Tree(owner, {ptr[k]})
      BY <1>6, <2>1, <2>4
    <3>2. PICK b \in f.owned : b \in Guards /\ x \in Tree(owner, {ptr[b]})
      BY <1>4, <3>1
    <3>3. Anchor({b}, p)
      BY <1>2, <2>4, <3>2 DEF ObjectsAnchored
    <3> QED BY <1>12, <3>1, <3>2, <3>3
  <2> QED BY <2>2, <2>3, <2>4
<1>15. ASSUME o # Null PROVE o \in Object /\ Anchored(Solid', Guards', ptr', owner', {f.self}, o)
  <2>1. {f.self} \in SUBSET Handle /\ {f.self} \cap f.owned = {}
    BY <1>5
  <2>2. Anchored(Solid', Guards', ptr', owner', {f.self}, at)
    BY <1>5, <1>9, <2>1
  <2>3. PICK k \in Closure(Solid', {f.self}) \cap Guards' : at \in Tree(owner', {ptr'[k]})
    BY <2>2 DEF Anchored
  <2>4. CASE o \in refs'[at]
    <3>1. Anchored(Solid', Guards', ptr', owner', {k}, o)
      BY <1>14, <2>3, <2>4 DEF ObjectsAnchored, Anchor
    <3>2. {k} \subseteq Closure(Solid', {f.self})
      BY <2>3
    <3>3. Closure(Solid', {k}) \subseteq Closure(Solid', {f.self})
      BY <1>10, <3>2, ClosureWithin
    <3>4. o \in Object
      BY <1>15
    <3> QED BY <3>1, <3>3, <3>4 DEF Anchored
  <2>5. CASE owner'[o] = at
    <3>1. o \in Object
      BY <1>15
    <3>2. o \in Tree(owner', {ptr'[k]})
      BY <2>3, <2>5, <3>1, TreeClosed
    <3> QED BY <2>3, <3>1, <3>2 DEF Anchored
  <2> QED BY <1>01, <1>15, <2>2, <2>4, <2>5
<1>16. Result(frame[g])'
  <2>1. CASE o # Null
    <3>1. Anchored(Solid', Guards', ptr', owner', {f.self}, o) /\ o \in Object
      BY <1>15, <2>1
    <3>2. a.self = f.self
      BY <1>3 DEF Answers
    <3> HIDE DEF f
    <3> QED BY <1>1, <1>3, <1>10, <3>1, <3>2 DEF Result, Anchor
  <2>2. CASE o = Null
    <3> HIDE DEF f
    <3> QED BY <1>1, <1>3, <1>10, <2>2 DEF Result
  <2> QED BY <2>1, <2>2
<1>17. Rooted'
  <2> SUFFICES ASSUME NEW x \in live'
               PROVE  \E r \in live' : owner'[r] = Null /\ x \in Tree(owner', {r})
    BY DEF Rooted
  <2>1. \A r \in live \ A : {r} \in SUBSET Object /\ owner'[r] = owner[r] /\ r \in live'
    BY <1>1, <1>2 DEF Grafted
  <2>2. PICK r \in live : owner[r] = Null /\ x \in Tree(owner, {r})
    BY <1>1, <1>2 DEF Rooted
  <2>3. CASE r \notin A
    BY <1>6, <2>1, <2>2, <2>3
  <2>4. CASE r \in A
    <3>1. x \in Tree(owner, A)
      BY <1>4, <2>2, <2>4, TreeSplit
    <3>2. PICK q \in live : owner[q] = Null /\ at \in Tree(owner, {q})
      BY <1>2, <1>5 DEF Rooted
    <3>3. q \notin A
      BY <1>4, <1>5, <3>2, TreeSplit
    <3> QED BY <1>6, <2>1, <3>1, <3>2, <3>3
  <2> QED BY <2>3, <2>4
<1>18. refs' \in [Object -> SUBSET Object] /\ \A x \in Object \ live' : refs'[x] = {}
  <2>1. refs' \in [Object -> SUBSET Object]
    BY <1>1, <1>2, <1>7 DEF Lists
  <2> QED BY <1>1, <1>2, <1>5, <1>7, <2>1 DEF Lists
<1> QED BY <1>3, <1>8, <1>14, <1>16, <1>17, <1>18, AnswersDone

\* A callee that fails deletes what it was given, and nothing else depends on it.
LEMMA RunFailsKeeps ==
  ASSUME IInv, RInv, NEW g \in Goroutine, frame[g].pc = "encoded", RunFails(g)
  PROVE  RInv'
<1> DEFINE f == frame[g]
           A == frame[g].taken
<1>1. /\ Delete(A) /\ frame' = [frame EXCEPT ![g].pc = "failed"]
      /\ UNCHANGED <<handles, held, collector>>
  BY DEF RunFails, Fail
<1>2. /\ CallOK(g) /\ f \in Frame /\ Lists /\ ObjectsAnchored /\ Rooted
      /\ live \subseteq Object
  BY RInvParts
<1>3. PICK a \in Frame : Answers(g, a) /\ a.pc = "failed"
  <2> DEFINE a == [f EXCEPT !.pc = "failed"]
  <2>1. a \in Frame /\ Answers(g, a)
    BY <1>1, <1>2 DEF Answers, Answered, Frame
  <2> QED BY <1>1, <1>2, <2>1 DEF Frame
<1>4. /\ A \in SUBSET live /\ \A x \in A : owner[x] = Null /\ Makers(x) = {}
      /\ \A k \in Guards \ f.owned : ptr[k] \notin A
  BY Taken
<1>5. /\ \A r \in live \ A : owner[r] = Null =>
           /\ r \in live' /\ owner'[r] = Null
           /\ Tree(owner', {r}) = Tree(owner, {r})
           /\ \A o \in Tree(owner, {r}) : refs'[o] = refs[o]
      /\ Rooted'
      /\ refs' \in [Object -> SUBSET Object] /\ \A o \in Object \ live' : refs'[o] = {}
  <2> HIDE DEF A
  <2> QED BY <1>1, <1>2, <1>4, DeleteLeaves
<1>6. \A k \in Guards : ptr[k] \in live /\ owner[ptr[k]] = Null
  BY GuardAlone
<1>7. Spared(g)
  BY <1>4, <1>5, <1>6 DEF Spared
<1>8. ObjectsAnchored'
  <2> SUFFICES ASSUME NEW k \in Guards', NEW x \in Tree(owner', {ptr'[k]}), NEW p \in refs'[x]
               PROVE  Anchored(Solid', Guards', ptr', owner', {k}, p)
    BY DEF ObjectsAnchored, Anchor
  <2>1. k \in Guards /\ k \in Handle /\ ptr' = ptr /\ k \notin f.owned
    BY <1>3, AnswersReach, GuardAlone
  <2>2. x \in Tree(owner, {ptr[k]}) /\ p \in refs[x]
    BY <1>4, <1>5, <1>6, <2>1
  <2>3. Anchor({k}, p)
    BY <1>2, <2>1, <2>2 DEF ObjectsAnchored
  <2>4. {k} \in SUBSET Handle /\ {k} \cap f.owned = {}
    BY <2>1
  <2> QED BY <1>3, <1>7, <2>3, <2>4, AnswersAnchor
<1>9. Result(frame[g])'
  <2>1. frame'[g] = a
    BY <1>3, AnswersReach
  <2> QED BY <1>3, <2>1 DEF Result
<1> QED BY <1>3, <1>5, <1>7, <1>8, <1>9, AnswersDone

\* A call that is refused leaves the objects alone: those it was to take belong
\* to nobody.
LEMMA RunRefusedKeeps ==
  ASSUME IInv, RInv, NEW g \in Goroutine, frame[g].pc = "encoded", RunRefused(g)
  PROVE  RInv'
<1> DEFINE f == frame[g]
<1>1. /\ UNCHANGED <<live, owner, refs>> /\ frame' = [frame EXCEPT ![g].pc = "failed"]
      /\ UNCHANGED <<handles, held, collector>>
  BY DEF RunRefused, Fail
<1>2. f \in Frame /\ Lists /\ ObjectsAnchored /\ Rooted
  BY RInvParts
<1>3. PICK a \in Frame : Answers(g, a) /\ a.pc = "failed"
  <2> DEFINE a == [f EXCEPT !.pc = "failed"]
  <2>1. a \in Frame /\ Answers(g, a)
    BY <1>1, <1>2 DEF Answers, Answered, Frame
  <2> QED BY <1>1, <1>2, <2>1 DEF Frame
<1>4. Spared(g)
  BY <1>1 DEF Spared
<1>5. ObjectsAnchored'
  <2> SUFFICES ASSUME NEW k \in Guards', NEW x \in Tree(owner', {ptr'[k]}), NEW p \in refs'[x]
               PROVE  Anchored(Solid', Guards', ptr', owner', {k}, p)
    BY DEF ObjectsAnchored, Anchor
  <2>1. k \in Guards /\ k \in Handle /\ ptr' = ptr /\ k \notin f.owned
    BY <1>3, AnswersReach, GuardAlone
  <2>2. Anchor({k}, p)
    BY <1>1, <1>2, <2>1 DEF ObjectsAnchored
  <2>3. {k} \in SUBSET Handle /\ {k} \cap f.owned = {}
    BY <2>1
  <2> QED BY <1>3, <1>4, <2>2, <2>3, AnswersAnchor
<1>6. Result(frame[g])'
  <2>1. frame'[g] = a
    BY <1>3, AnswersReach
  <2> QED BY <1>3, <2>1 DEF Result
<1>7. Rooted' /\ refs' \in [Object -> SUBSET Object] /\ \A x \in Object \ live' : refs'[x] = {}
  BY <1>1, <1>2 DEF Rooted, Lists
<1> QED BY <1>3, <1>4, <1>5, <1>6, <1>7, AnswersDone

-----------------------------------------------------------------------------
(***************************************************************************)
(* The Go function after the call.                                          *)
(***************************************************************************)
\* What the result of a call keeps.
Depends(f) == IF f.op = "access" THEN {f.self} ELSE f.borrowed

\* A call ends.  The handles N it makes keep what they depend on; what it
\* handed over was no guard any more.
Ends(g, N) ==
  LET f == frame[g]
  IN  /\ f.pc \in {"returned", "failed"} /\ frame' = [frame EXCEPT ![g] = Idle]
      /\ N \in SUBSET (Handle \ made)
      /\ UNCHANGED <<live, owner, refs, finalizing>>
      /\ made' = made \cup N /\ held' = held \cup N
      /\ ptr' = [k \in Handle |-> IF k \in N THEN f.result
                                  ELSE IF k \in f.owned THEN Null ELSE ptr[k]]
      /\ keep' = [k \in Handle |-> IF k \in N THEN Depends(f) ELSE keep[k]]
      /\ \/ f.op = "access" /\ f.pc = "returned" /\ f.result # Null /\ fin' = fin
         \/ f.op \in {"new", "impl"} /\ f.pc = "returned" /\ fin' = fin \cup N
         \/ N = {} /\ fin' = fin

\* Its end leaves the other calls, the lists and the guards as they are.
LEMMA EndsReach ==
  ASSUME IInv, RInv, NEW g \in Goroutine, NEW N, Ends(g, N)
  PROVE  /\ frame'[g] = Idle /\ \A k \in Goroutine \ {g} : frame'[k] = frame[k]
         /\ N \in SUBSET Handle /\ Frozen' = Frozen
         /\ \A x \in Handle : Solid[x] \subseteq Solid'[x]
         /\ \A x \in N : Solid'[x] = Depends(frame[g])
         /\ Guards \subseteq Guards' /\ Guards' \subseteq Guards \cup N
         /\ \A k \in Guards : ptr'[k] = ptr[k] /\ k \notin N
         /\ Known' \subseteq Known \cup N /\ Known \cap N = {}
         /\ \A x \in made \ frame[g].owned : ptr'[x] = ptr[x]
<1> DEFINE f == frame[g]
<1>0. /\ Types /\ Lists /\ fin \subseteq made /\ made \subseteq Handle /\ held \subseteq made
      /\ keep \in [Handle -> SUBSET Handle] /\ frame \in [Goroutine -> Frame]
      /\ \A k \in Goroutine : CallOK(k)
  BY RInvParts, UsedMade DEF IInv, Types
<1>1. /\ f.pc \in {"returned", "failed"} /\ frame' = [frame EXCEPT ![g] = Idle]
      /\ N \in SUBSET (Handle \ made)
      /\ made' = made \cup N /\ held' = held \cup N
      /\ ptr' = [k \in Handle |-> IF k \in N THEN f.result
                                  ELSE IF k \in f.owned THEN Null ELSE ptr[k]]
      /\ keep' = [k \in Handle |-> IF k \in N THEN Depends(f) ELSE keep[k]]
      /\ fin \subseteq fin' /\ fin' \subseteq fin \cup N
  BY DEF Ends
<1>2. frame'[g] = Idle /\ \A k \in Goroutine \ {g} : frame'[k] = frame[k]
  BY <1>0, <1>1
<1>3. Idle.pc = "idle" /\ Idle.op = "none" /\ Idle.owned = {}
  BY DEF Idle
<1>4. Frozen' = Frozen
  BY <1>1, <1>2, <1>3 DEF Frozen
<1>5. Depends(f) \cap Frozen = {} /\ Depends(f) \in SUBSET Handle /\ Depends(f) \subseteq Known
  <2>1. Used(f) \cap Frozen = {} /\ Used(f) \in SUBSET Handle /\ Used(f) \subseteq Known
    BY <1>0, UsedMade DEF CallOK, InUse, Frozen
  <2>2. Depends(f) \subseteq Used(f)
    BY <1>0 DEF CallOK, Roles, Depends, Used
  <2> QED BY <2>1, <2>2
<1>6. \A x \in Handle : Solid[x] \subseteq Solid'[x]
  BY <1>0, <1>1, <1>4 DEF Solid, Lists
<1>7. \A x \in N : Solid'[x] = Depends(f)
  BY <1>1, <1>4, <1>5 DEF Solid
<1>8. \A x \in made \ f.owned : ptr'[x] = ptr[x]
  BY <1>0, <1>1
<1>9. /\ HandedOver(g) = f.owned /\ HandedOver(g)' = {}
      /\ \A k \in Goroutine \ {g} : HandedOver(k)' = HandedOver(k)
  BY <1>1, <1>2, <1>3 DEF HandedOver
<1>10. \A k \in Guards : k \in fin /\ ptr'[k] = ptr[k] /\ k \notin N
  BY <1>0, <1>1, <1>8, <1>9 DEF Guards
<1>11. Guards \subseteq Guards'
  BY <1>1, <1>9, <1>10 DEF Guards
<1>12. ASSUME NEW k \in Guards', k \notin N PROVE k \in Guards
  <2>1. k \in fin /\ k \in Handle /\ ptr'[k] \in Object
        /\ \A j \in Goroutine \ {g} : k \notin HandedOver(j)
    BY <1>0, <1>1, <1>9, <1>12 DEF Guards
  <2>2. k \notin f.owned /\ ptr[k] \in Object
    BY <1>1, <1>12, <2>1, NullAssumption
  <2> QED BY <1>9, <2>1, <2>2 DEF Guards
<1>13. Known \in SUBSET Handle /\ Claims \subseteq Known /\ Known \cap N = {}
       /\ \A x \in Known \cup fin : keep[x] \subseteq Known
  <2>1. Known \subseteq made
    <3>1. made \in SUBSET Handle /\ \A x \in made : keep[x] \subseteq made
      BY <1>0 DEF Lists
    <3> QED BY <3>1, KnownClosed, ClosureLeast DEF Known
  <2> QED BY <1>1, <2>1, KnownClosed
<1>14. Known' \subseteq Known \cup N
  <2> DEFINE T == Known \cup N
  <2>1. T \in SUBSET Handle
    BY <1>1, <1>13
  <2>2. \A x \in Known \cup fin \cup N : keep'[x] \subseteq Known
    BY <1>0, <1>1, <1>5, <1>13
  <2>3. Claims' \subseteq T
    <3>1. \A k \in Goroutine : Mentioned(frame'[k]) \subseteq Known
      <4>1. Mentioned(Idle) = {}
        BY <1>3 DEF Mentioned
      <4>2. \A k \in Goroutine : Mentioned(frame[k]) \subseteq Known
        BY <1>13, UsedClaimed
      <4> QED BY <1>2, <4>1, <4>2
    <3>2. held \subseteq Known
      BY <1>13 DEF Claims
    <3>3. Claims' = held' \cup (UNION {Mentioned(frame'[k]) : k \in Goroutine})
                      \cup (UNION {keep'[x] : x \in fin'})
      BY DEF Claims, Mentioned
    <3>4. (UNION {Mentioned(frame'[k]) : k \in Goroutine}) \subseteq T
      BY <3>1
    <3>5. (UNION {keep'[x] : x \in fin'}) \subseteq T
      BY <1>1, <2>2
    <3>6. held' \subseteq T
      BY <1>1, <3>2
    <3> HIDE DEF T
    <3> QED BY <3>3, <3>4, <3>5, <3>6
  <2>4. \A x \in T : keep'[x] \subseteq T
    BY <2>2
  <2> HIDE DEF T
  <2>5. Closure(keep', Claims') \subseteq T
    BY <2>1, <2>3, <2>4, ClosureLeast
  <2> QED BY <2>5 DEF T, Known
<1> QED BY <1>1, <1>2, <1>4, <1>6, <1>7, <1>8, <1>10, <1>11, <1>12, <1>13, <1>14

\* What a call made is anchored by its handle, or by the receiver.
LEMMA EndsKeep ==
  ASSUME IInv, RInv, NEW g \in Goroutine, NEW N, Ends(g, N)
  PROVE  RInv'
<1> DEFINE f == frame[g]
<1>1. /\ frame'[g] = Idle /\ \A k \in Goroutine \ {g} : frame'[k] = frame[k]
      /\ N \in SUBSET Handle /\ Frozen' = Frozen
      /\ \A x \in Handle : Solid[x] \subseteq Solid'[x]
      /\ \A x \in N : Solid'[x] = Depends(f)
      /\ Guards \subseteq Guards' /\ Guards' \subseteq Guards \cup N
      /\ \A k \in Guards : ptr'[k] = ptr[k] /\ k \notin N
      /\ Known' \subseteq Known \cup N /\ Known \cap N = {}
      /\ \A x \in made \ f.owned : ptr'[x] = ptr[x]
  BY EndsReach
<1>2. /\ f.pc \in {"returned", "failed"} /\ frame' = [frame EXCEPT ![g] = Idle]
      /\ N \in SUBSET (Handle \ made)
      /\ UNCHANGED <<live, owner, refs, finalizing>>
      /\ made' = made \cup N /\ held' = held \cup N
      /\ ptr' = [k \in Handle |-> IF k \in N THEN f.result
                                  ELSE IF k \in f.owned THEN Null ELSE ptr[k]]
      /\ keep' = [k \in Handle |-> IF k \in N THEN Depends(f) ELSE keep[k]]
      /\ \/ f.op = "access" /\ f.pc = "returned" /\ f.result # Null /\ fin' = fin
         \/ f.op \in {"new", "impl"} /\ f.pc = "returned" /\ fin' = fin \cup N
         \/ N = {} /\ fin' = fin
  BY DEF Ends
<1>3. /\ Types /\ Lists /\ HandlesAnchored /\ ObjectsAnchored /\ Rooted
      /\ fin \subseteq made /\ made \subseteq Handle
      /\ keep \in [Handle -> SUBSET Handle]
      /\ \A k \in Goroutine : CallOK(k)
      /\ Used(f) \subseteq made /\ Used(f) \in SUBSET Handle
      /\ Solid \in [Handle -> SUBSET Handle] /\ live \subseteq Object
      /\ Known \in SUBSET Handle
  BY RInvParts, UsedMade, UsedClaimed, KnownClosed
<1>03. Depends(f) \subseteq Used(f)
  BY <1>3 DEF CallOK, Roles, Depends, Used
<1>4. Solid' \in [Handle -> SUBSET Handle] /\ keep' \in [Handle -> SUBSET made']
  <2>1. keep' \in [Handle -> SUBSET made']
    BY <1>2, <1>3, <1>03 DEF Lists
  <2> QED BY <1>2, <1>3, <2>1 DEF Solid
<1>5. Idle.pc = "idle" /\ Idle.op = "none" /\ Idle.self = Null /\ Idle.borrowed = {}
      /\ Idle.owned = {}
  BY DEF Idle
<1>6. ASSUME NEW S \in SUBSET Handle, NEW p, Anchor(S, p)
      PROVE  Anchored(Solid', Guards', ptr', owner', S, p)
  <2>1. \A x \in Handle : Solid[x] \subseteq Handle \cap Solid'[x]
    BY <1>1, <1>3
  <2>2. \A k \in Guards \cap Closure(Solid, S) :
          k \in Guards' /\ Tree(owner, {ptr[k]}) \subseteq Tree(owner', {ptr'[k]})
    BY <1>1, <1>2
  <2> QED BY <1>6, <2>1, <2>2, AnchorKept
<1>7. ASSUME NEW n \in N, NEW S \in SUBSET Depends(f), NEW p, Anchor(S, p)
      PROVE  Anchored(Solid', Guards', ptr', owner', {n}, p)
  <2>1. {n} \in SUBSET Handle /\ n \in Closure(Solid', {n}) /\ S \in SUBSET Handle
    BY <1>1, <1>3, <1>03, ClosureContains
  <2>2. Anchored(Solid', Guards', ptr', owner', S, p)
    BY <1>6, <1>7, <2>1
  <2>3. S \subseteq Closure(Solid', {n})
    <3>1. Solid'[n] \subseteq Closure(Solid', {n})
      BY <1>1, <1>4, <2>1, ClosureClosed
    <3> QED BY <1>1, <3>1
  <2>4. Closure(Solid', S) \subseteq Closure(Solid', {n})
    BY <1>4, <2>3, ClosureWithin
  <2> QED BY <2>2, <2>4 DEF Anchored
<1>8. ASSUME NEW n \in N, n \in Guards', NEW p \in Tree(owner', {ptr'[n]})
      PROVE  Anchored(Solid', Guards', ptr', owner', {n}, p)
  <2>1. n \in Closure(Solid', {n})
    BY <1>1, ClosureContains
  <2> QED BY <1>8, <2>1 DEF Anchored
<1>9. /\ HandedOver(g) = f.owned /\ HandedOver(g)' = {}
      /\ \A k \in Goroutine \ {g} : HandedOver(k)' = HandedOver(k)
      /\ \A k \in Goroutine : HandedOver(k) \subseteq made
  BY <1>1, <1>2, <1>3, <1>5 DEF HandedOver, CallOK, HandsOver
<1>10. \A n \in N : /\ ptr'[n] = f.result /\ f.pc = "returned"
                    /\ \/ f.op = "access" /\ f.result # Null /\ n \notin fin'
                       \/ f.op \in {"new", "impl"} /\ n \in fin'
  BY <1>1, <1>2, <1>3
<1>11. \A n \in N : f.op \in {"new", "impl"} => n \in Guards' /\ f.result \in Object
  <2>1. f.pc = "returned" /\ f.op \in {"new", "impl"} => f.result \in Object
    BY <1>3 DEF CallOK, HandsOver
  <2> QED BY <1>2, <1>9, <1>10, <2>1 DEF Guards
<1>12. HandlesAnchored'
  <2> SUFFICES ASSUME NEW h \in Known', ptr'[h] \in Object,
                      \A k \in Goroutine : h \notin HandedOver(k)'
               PROVE  Anchored(Solid', Guards', ptr', owner', {h}, ptr'[h])
    BY DEF HandlesAnchored, Anchor
  <2>1. CASE h \notin N
    <3>1. h \in Known /\ h \in Handle
      BY <1>1, <1>3, <2>1
    <3>2. h \notin f.owned /\ ptr'[h] = ptr[h]
      BY <1>2, <2>1, <3>1, NullAssumption
    <3>3. \A k \in Goroutine : h \notin HandedOver(k)
      BY <1>9, <3>2
    <3>4. Anchor({h}, ptr[h])
      BY <1>3, <3>1, <3>2, <3>3 DEF HandlesAnchored
    <3> QED BY <1>6, <3>1, <3>2, <3>4
  <2>2. CASE h \in N /\ f.op \in {"new", "impl"}
    <3>1. h \in Guards' /\ {ptr'[h]} \in SUBSET Object
      BY <1>11, <2>2
    <3>2. ptr'[h] \in Tree(owner', {ptr'[h]})
      BY <3>1, TreeContains
    <3> QED BY <1>8, <2>2, <3>1, <3>2
  <2>3. CASE h \in N /\ f.op = "access"
    <3>1. Anchor({f.self}, f.result) /\ {f.self} \in SUBSET Depends(f)
      BY <1>3, <1>10, <2>3 DEF CallOK, Result, Depends
    <3> QED BY <1>7, <1>10, <2>3, <3>1
  <2> QED BY <1>10, <2>1, <2>2, <2>3
<1>13. ObjectsAnchored'
  <2> SUFFICES ASSUME NEW k \in Guards', NEW x \in Tree(owner', {ptr'[k]}), NEW p \in refs'[x]
               PROVE  Anchored(Solid', Guards', ptr', owner', {k}, p)
    BY DEF ObjectsAnchored, Anchor
  <2>1. CASE k \notin N
    <3>1. k \in Guards /\ k \in Handle /\ x \in Tree(owner, {ptr[k]}) /\ p \in refs[x]
      BY <1>1, <1>2, <1>3, <2>1 DEF Guards
    <3>2. Anchor({k}, p)
      BY <1>3, <3>1 DEF ObjectsAnchored
    <3> QED BY <1>6, <3>1, <3>2
  <2>2. CASE k \in N
    <3>1. f.op \in {"new", "impl"} /\ ptr'[k] = f.result /\ f.pc = "returned"
      BY <1>10, <2>2 DEF Guards
    <3>2. p \in Tree(owner, {f.result}) \/ Anchor(f.borrowed, p)
      BY <1>2, <1>3, <3>1 DEF CallOK, Result
    <3>3. f.borrowed \in SUBSET Depends(f)
      BY <3>1 DEF Depends
    <3> QED BY <1>2, <1>7, <1>8, <2>2, <3>1, <3>2, <3>3
  <2> QED BY <2>1, <2>2
<1>14. ASSUME NEW k \in Goroutine, k # g
       PROVE  /\ Roles(frame[k])' /\ InUse(k)' /\ Request(frame[k])'
              /\ Pins(frame[k])' /\ Result(frame[k])'
  <2> DEFINE e == frame[k]
  <2>1. /\ CallOK(k) /\ frame'[k] = e /\ Used(e) \subseteq made /\ Used(e) \in SUBSET Handle
        /\ Used(e) \cap f.owned = {} /\ (e.self # Null => e.self \in Used(e))
        /\ e.borrowed \subseteq Used(e) /\ e.owned \subseteq fin
    BY <1>1, <1>3, <1>14, UsedMade, UsedClaimed DEF CallOK, InUse, HandsOver, Used
  <2>2. Roles(frame[k])'
    BY <2>1 DEF CallOK, Roles
  <2>3. InUse(k)'
    <3>1. \A q \in Goroutine : frame'[q].owned \subseteq frame[q].owned
      BY <1>1, <1>5
    <3>2. InUse(k)
      BY <2>1 DEF CallOK
    <3> QED BY <1>2, <2>1, <3>1, <3>2 DEF InUse, Used, Unguarded
  <2>4. Request(frame[k])'
    <3>1. \A h \in Used(e) : ptr'[h] = ptr[h]
      BY <1>1, <2>1
    <3>2. {ptr'[h] : h \in e.borrowed} = {ptr[h] : h \in e.borrowed}
      BY <2>1, <3>1
    <3>3. e.self # Null => ptr'[e.self] = ptr[e.self]
      BY <2>1, <3>1
    <3>4. Request(e)
      BY <2>1 DEF CallOK
    <3> QED BY <2>1, <3>2, <3>3, <3>4 DEF Request, Ptrs
  <2>5. Pins(frame[k])'
    <3>1. fin \subseteq fin' /\ \A x \in made : keep'[x] = keep[x]
      BY <1>2, <1>3
    <3>2. Pins(e) /\ Roles(e)
      BY <2>1 DEF CallOK
    <3>3. e.op \in {"access", "method"} => keep'[e.self] = keep[e.self]
      BY <2>1, <3>1, <3>2 DEF Roles
    <3>4. \A x \in e.owned : keep'[x] = keep[x]
      BY <1>3, <2>1, <3>1
    <3> QED BY <2>1, <3>1, <3>2, <3>3, <3>4 DEF Pins
  <2>6. Result(frame[k])'
    <3>1. Result(e) /\ Roles(e)
      BY <2>1 DEF CallOK
    <3>2. ASSUME e.pc = "returned", e.op = "access", e.result # Null
          PROVE  e.result \in Object
                 /\ Anchored(Solid', Guards', ptr', owner', {e.self}, e.result)
      <4>1. {e.self} \in SUBSET Handle
        BY <2>1, <3>1, <3>2 DEF Roles
      <4> QED BY <1>6, <3>1, <3>2, <4>1 DEF Result
    <3>3. ASSUME e.pc = "returned", e.op \in {"new", "impl"},
                 NEW o \in Tree(owner, {e.result}), NEW p \in refs[o]
          PROVE  p \in Tree(owner, {e.result})
                 \/ Anchored(Solid', Guards', ptr', owner', e.borrowed, p)
      <4>1. e.borrowed \in SUBSET Handle
        BY <2>1
      <4> QED BY <1>6, <3>1, <3>3, <4>1 DEF Result
    <3>4. frame'[k] = e
      BY <2>1
    <3> HIDE DEF e
    <3> QED BY <1>2, <3>2, <3>3, <3>4 DEF Result, Anchor
  <2> QED BY <2>2, <2>3, <2>4, <2>5, <2>6
<1>15. Roles(frame[g])' /\ InUse(g)' /\ Request(frame[g])' /\ Pins(frame[g])' /\ Result(frame[g])'
  BY <1>1, <1>5 DEF Roles, InUse, Used, Unguarded, Request, Pins, Result
<1>16. Lists' /\ Rooted'
  BY <1>2, <1>3, <1>4 DEF Lists, Rooted
<1>17. finalizing' # Null => finalizing' \notin Known'
  <2>1. finalizing # Null => finalizing \notin Known /\ finalizing \in made
    BY <1>3 DEF RInv, IInv, Finalizer
  <2> QED BY <1>1, <1>2, <2>1
<1> QED BY <1>12, <1>13, <1>14, <1>15, <1>16, <1>17 DEF RInv

\* The handles made take over the adapters.
Names(g, N) ==
  /\ handler' = handler
  /\ \/ UNCHANGED <<fin, cb>>
     \/ \E h \in N : N = {h} /\ cb' = [cb EXCEPT ![h] = frame[g].id]

\* The four ways a call ends.
LEMMA FinishEnds ==
  ASSUME IInv, RInv, Careless = {}, NEW g \in Goroutine, Finish(g)
  PROVE  \E N \in SUBSET Handle : Ends(g, N) /\ Names(g, N)
<1> DEFINE f == frame[g]
<1>1. /\ Types /\ CallOK(g) /\ f \in Frame
      /\ ptr \in [Handle -> Object \cup {Null}] /\ keep \in [Handle -> SUBSET Handle]
      /\ Cleared(f) = [k \in Handle |-> IF k \in f.owned THEN Null ELSE ptr[k]]
  BY RInvParts, UsedMade, ClearedPtr
<1>2. ASSUME NEW h \in Handle, FinishConstruct(g, h) PROVE Ends(g, {h}) /\ Names(g, {h})
  <2>1. /\ f.pc = "returned" /\ f.op \in {"new", "impl"} /\ h \notin made
        /\ made' = made \cup {h} /\ fin' = fin \cup {h} /\ held' = held \cup {h}
        /\ ptr' = [Cleared(f) EXCEPT ![h] = f.result]
        /\ keep' = [keep EXCEPT ![h] = f.borrowed]
        /\ frame' = [frame EXCEPT ![g] = Idle]
        /\ UNCHANGED <<live, owner, refs, handler, finalizing>>
        /\ cb' = [cb EXCEPT ![h] = f.id]
    BY <1>2 DEF FinishConstruct, cpp, collector
  <2>2. Depends(f) = f.borrowed
    BY <2>1 DEF Depends
  <2>3. ptr' = [k \in Handle |-> IF k \in {h} THEN f.result
                                 ELSE IF k \in f.owned THEN Null ELSE ptr[k]]
    BY <1>1, <2>1
  <2>4. keep' = [k \in Handle |-> IF k \in {h} THEN Depends(f) ELSE keep[k]]
    BY <1>1, <2>1, <2>2
  <2> QED BY <2>1, <2>3, <2>4 DEF Ends, Names
<1>3. ASSUME NEW h \in Handle, FinishAccess(g, h) PROVE Ends(g, {h}) /\ Names(g, {h})
  <2>1. /\ f.pc = "returned" /\ f.op = "access" /\ f.result # Null /\ h \notin made
        /\ made' = made \cup {h} /\ fin' = fin /\ held' = held \cup {h}
        /\ ptr' = [Cleared(f) EXCEPT ![h] = f.result]
        /\ keep' = [keep EXCEPT ![h] = {f.self}]
        /\ frame' = [frame EXCEPT ![g] = Idle]
        /\ UNCHANGED <<live, owner, refs, handler, cb, finalizing>>
    BY <1>3 DEF FinishAccess, cpp, collector
  <2>2. Depends(f) = {f.self}
    BY <2>1 DEF Depends
  <2>3. ptr' = [k \in Handle |-> IF k \in {h} THEN f.result
                                 ELSE IF k \in f.owned THEN Null ELSE ptr[k]]
    BY <1>1, <2>1
  <2>4. keep' = [k \in Handle |-> IF k \in {h} THEN Depends(f) ELSE keep[k]]
    BY <1>1, <2>1, <2>2
  <2> QED BY <2>1, <2>3, <2>4 DEF Ends, Names
<1>4. ASSUME FinishCall(g) \/ FinishFailed(g) PROVE Ends(g, {}) /\ Names(g, {})
  <2>1. /\ f.pc \in {"returned", "failed"} /\ ptr' = Cleared(f)
        /\ frame' = [frame EXCEPT ![g] = Idle]
        /\ UNCHANGED <<live, owner, refs, handler, cb, made, fin, keep, held, finalizing>>
    BY <1>4 DEF FinishCall, FinishFailed, cpp, collector
  <2>2. keep' = [k \in Handle |-> IF k \in {} THEN Depends(f) ELSE keep[k]]
    BY <1>1, <2>1
  <2> QED BY <1>1, <2>1, <2>2 DEF Ends, Names
<1> QED BY <1>2, <1>3, <1>4 DEF Finish

-----------------------------------------------------------------------------
(***************************************************************************)
(* The start of a call.                                                     *)
(***************************************************************************)
\* What a careful application gives a call f: handles it holds and uses
\* nowhere else where it hands them over; and C, that the call pins.
Careful(g, f, C) ==
  /\ Roles(f) /\ f.op # "none"
  /\ Used(f) \cup f.owned \subseteq held /\ Used(f) \cap f.owned = {}
  /\ f.in = Ptrs(f.borrowed) /\ \A h \in Used(f) : ptr[h] \in Object /\ ~InFlight(h)
  /\ f.at = IF f.self = Null THEN Null ELSE ptr[f.self]
  /\ \A h \in f.owned : /\ \A x \in Handle : h \notin keep[x]
                        /\ \A k \in Goroutine : h \notin Used(frame[k])
  /\ keep' = [x \in Handle |-> IF x = f.self THEN keep[x] \cup C ELSE keep[x]]
  /\ C \subseteq held
  /\ f.pins => C = f.borrowed \cup f.owned
  /\ (f.pins /\ f.self \in fin) \/ \A h \in f.owned : keep[h] = {}
  /\ UNCHANGED refs

\* A call with new arguments needs nothing that is not pinned or held.
LEMMA CarefulKeeps ==
  ASSUME IInv, RInv, NEW g \in Goroutine, NEW f \in Frame, Begun(g, f), NEW C, Careful(g, f, C)
  PROVE  RInv'
<1>1. /\ frame[g] = Idle /\ frame' = [frame EXCEPT ![g] = f] /\ f.pc = "encoded"
      /\ f.owned \subseteq held \cap fin /\ \A h \in f.owned : ptr[h] # Null
      /\ UNCHANGED <<live, owner, refs, ptr, made, fin, held, finalizing>>
      /\ \A h \in f.owned : \A k \in Goroutine : h \notin frame[k].owned
  BY DEF Begun, Careful, collector
<1>2. /\ Roles(f) /\ f.op # "none"
      /\ Used(f) \cup f.owned \subseteq held /\ Used(f) \cap f.owned = {}
      /\ f.in = Ptrs(f.borrowed) /\ \A h \in Used(f) : ptr[h] \in Object /\ ~InFlight(h)
      /\ f.at = IF f.self = Null THEN Null ELSE ptr[f.self]
      /\ \A h \in f.owned : /\ \A x \in Handle : h \notin keep[x]
                            /\ \A k \in Goroutine : h \notin Used(frame[k])
      /\ keep' = [x \in Handle |-> IF x = f.self THEN keep[x] \cup C ELSE keep[x]]
      /\ C \subseteq held
      /\ f.pins => C = f.borrowed \cup f.owned
      /\ (f.pins /\ f.self \in fin) \/ \A h \in f.owned : keep[h] = {}
  BY DEF Careful
<1>3. /\ Types /\ Lists /\ HandlesAnchored /\ ObjectsAnchored /\ Rooted
      /\ fin \subseteq made /\ made \subseteq Handle /\ held \subseteq made
      /\ keep \in [Handle -> SUBSET made] /\ keep \in [Handle -> SUBSET Handle]
      /\ \A k \in Goroutine : CallOK(k)
      /\ Solid \in [Handle -> SUBSET Handle] /\ live \subseteq Object
      /\ Known \in SUBSET Handle /\ Claims \subseteq Known /\ held \subseteq Known
      /\ \A x \in Known \cup fin : keep[x] \subseteq Known
  BY RInvParts, UsedMade, KnownClosed DEF Types, Lists, Claims
<1>4. frame'[g] = f /\ \A k \in Goroutine \ {g} : frame'[k] = frame[k]
  BY <1>1, RInvParts
<1>5. Idle.pc = "idle" /\ Idle.op = "none" /\ Idle.owned = {}
  BY DEF Idle
<1>6. \A x \in Handle : Solid[x] \subseteq Solid'[x]
  <2>1. Frozen' \subseteq Frozen \cup f.owned
    BY <1>1, <1>4 DEF Frozen
  <2> QED BY <1>2, <1>3, <2>1 DEF Solid
<1>7. \A k \in Goroutine : HandedOver(k)' = HandedOver(k)
  BY <1>1, <1>4, <1>5 DEF HandedOver
<1>8. Guards' = Guards
  BY <1>1, <1>7 DEF Guards
<1>9. ASSUME NEW S \in SUBSET Handle, NEW p, Anchor(S, p)
      PROVE  Anchored(Solid', Guards', ptr', owner', S, p)
  <2>1. \A x \in Handle : Solid[x] \subseteq Handle \cap Solid'[x]
    BY <1>3, <1>6
  <2>2. \A k \in Guards \cap Closure(Solid, S) :
          k \in Guards' /\ Tree(owner, {ptr[k]}) \subseteq Tree(owner', {ptr'[k]})
    BY <1>1, <1>8
  <2> QED BY <1>9, <2>1, <2>2, AnchorKept
<1>10. Known' \subseteq Known
  <2>1. \A x \in Known \cup fin : keep'[x] \subseteq Known
    BY <1>2, <1>3
  <2>2. \A k \in Goroutine : Mentioned(frame'[k]) \subseteq Known
    <3>1. Mentioned(f) \subseteq held
      <4>1. f.op = "access" => f.self \in Used(f)
        BY <1>2 DEF Roles, Used
      <4>2. f.op \in {"new", "impl", "access", "method"} /\ f.borrowed \subseteq Used(f)
        BY <1>2 DEF Frame, Used
      <4> QED BY <1>2, <4>1, <4>2 DEF Mentioned
    <3>2. \A k \in Goroutine : Mentioned(frame[k]) \subseteq Known
      BY <1>3, UsedClaimed
    <3> QED BY <1>3, <1>4, <3>1, <3>2
  <2>3. Claims' = held' \cup (UNION {Mentioned(frame'[k]) : k \in Goroutine})
                    \cup (UNION {keep'[x] : x \in fin'})
    BY DEF Claims, Mentioned
  <2>4. (UNION {Mentioned(frame'[k]) : k \in Goroutine}) \subseteq Known
    BY <2>2
  <2>5. (UNION {keep'[x] : x \in fin'}) \subseteq Known
    BY <1>1, <2>1
  <2>6. Claims' \subseteq Known
    BY <1>1, <1>3, <2>3, <2>4, <2>5
  <2> QED BY <2>1, <2>6, KnownShrinks
<1>11. HandlesAnchored'
  <2> SUFFICES ASSUME NEW h \in Known', ptr'[h] \in Object,
                      \A k \in Goroutine : h \notin HandedOver(k)'
               PROVE  Anchored(Solid', Guards', ptr', owner', {h}, ptr'[h])
    BY DEF HandlesAnchored, Anchor
  <2>1. h \in Known /\ {h} \in SUBSET Handle /\ ptr'[h] = ptr[h]
    BY <1>1, <1>3, <1>10
  <2>2. Anchor({h}, ptr[h])
    BY <1>3, <1>7, <2>1 DEF HandlesAnchored
  <2> QED BY <1>9, <2>1, <2>2
<1>12. ObjectsAnchored'
  <2> SUFFICES ASSUME NEW k \in Guards', NEW x \in Tree(owner', {ptr'[k]}), NEW p \in refs'[x]
               PROVE  Anchored(Solid', Guards', ptr', owner', {k}, p)
    BY DEF ObjectsAnchored, Anchor
  <2>1. k \in Guards /\ {k} \in SUBSET Handle
    BY <1>3, <1>8 DEF Guards
  <2>2. Anchor({k}, p)
    BY <1>1, <1>3, <2>1 DEF ObjectsAnchored
  <2> QED BY <1>9, <2>1, <2>2
<1>13. \A h \in f.owned : \A k \in Goroutine : h \notin Used(frame'[k])
  BY <1>2, <1>4
<1>14. ASSUME NEW k \in Goroutine, k # g
       PROVE  /\ Roles(frame[k])' /\ InUse(k)' /\ Request(frame[k])'
              /\ Pins(frame[k])' /\ Result(frame[k])'
  <2> DEFINE e == frame[k]
  <2>1. /\ CallOK(k) /\ frame'[k] = e /\ Used(e) \in SUBSET Handle
        /\ (e.self # Null => e.self \in Used(e)) /\ e.borrowed \subseteq Used(e)
        /\ e.owned \subseteq fin
    BY <1>3, <1>4, <1>14, UsedClaimed DEF CallOK, HandsOver, Used
  <2>2. Roles(frame[k])' /\ Request(frame[k])'
    BY <1>1, <2>1 DEF CallOK, Roles, Request, Ptrs
  <2>3. InUse(k)'
    <3>1. InUse(k) /\ Used(frame'[k]) = Used(e)
      BY <2>1 DEF CallOK
    <3>2. \A q \in Goroutine : Used(e) \cap frame'[q].owned = {}
      BY <1>4, <1>13, <3>1 DEF InUse
    <3> QED BY <1>1, <2>1, <3>1, <3>2 DEF InUse, Used, Unguarded
  <2>4. Pins(frame[k])'
    <3>1. \A x \in Handle : keep[x] \subseteq keep'[x]
      BY <1>2, <1>3
    <3>2. \A h \in e.owned : keep'[h] = keep[h]
      <4>1. ASSUME NEW h \in e.owned PROVE h # f.self
        <5>1. InFlight(h) /\ h \in Handle
          BY <1>3, <2>1 DEF InFlight
        <5>2. f.self # Null => f.self \in Used(f)
          BY DEF Used
        <5> QED BY <1>2, <5>1, <5>2, NullAssumption
      <4> QED BY <1>2, <1>3, <2>1, <4>1
    <3>3. Pins(e) /\ (e.op \in {"access", "method"} => e.self \in Handle)
      BY <2>1 DEF CallOK, Roles
    <3>4. fin \subseteq Handle /\ fin' = fin
      BY <1>1, <1>3
    <3> HIDE DEF e
    <3> QED BY <2>1, <3>1, <3>2, <3>3, <3>4 DEF Pins
  <2>5. Result(frame[k])'
    <3>1. Result(e) /\ Roles(e)
      BY <2>1 DEF CallOK
    <3>2. ASSUME e.pc = "returned", e.op = "access", e.result # Null
          PROVE  e.result \in Object
                 /\ Anchored(Solid', Guards', ptr', owner', {e.self}, e.result)
      <4>1. {e.self} \in SUBSET Handle
        BY <2>1, <3>1, <3>2 DEF Roles
      <4> QED BY <1>9, <3>1, <3>2, <4>1 DEF Result
    <3>3. ASSUME e.pc = "returned", e.op \in {"new", "impl"},
                 NEW o \in Tree(owner, {e.result}), NEW p \in refs[o]
          PROVE  p \in Tree(owner, {e.result})
                 \/ Anchored(Solid', Guards', ptr', owner', e.borrowed, p)
      <4>1. e.borrowed \in SUBSET Handle
        BY <2>1
      <4> QED BY <1>9, <3>1, <3>3, <4>1 DEF Result
    <3>4. frame'[k] = e
      BY <2>1
    <3> HIDE DEF e
    <3> QED BY <1>1, <3>2, <3>3, <3>4 DEF Result, Anchor
  <2> QED BY <2>2, <2>3, <2>4, <2>5
<1>15. /\ Roles(frame[g])' /\ InUse(g)' /\ Request(frame[g])'
       /\ Pins(frame[g])' /\ Result(frame[g])'
  <2>1. f.borrowed \subseteq Used(f) /\ (f.self # Null => f.self \in Used(f))
    BY DEF Used
  <2>2. Roles(frame[g])' /\ Result(frame[g])'
    BY <1>1, <1>2, <1>4 DEF Roles, Result
  <2>3. InUse(g)'
    <3>1. \A q \in Goroutine : Used(f) \cap frame'[q].owned = {}
      BY <1>2, <1>4 DEF InFlight
    <3>2. Unguarded(f) \subseteq held
      BY <1>2, <2>1 DEF Unguarded, Roles
    <3> QED BY <1>1, <1>2, <1>3, <1>4, <3>1, <3>2 DEF InUse
  <2>4. Request(frame[g])'
    <3>1. Ptrs(f.borrowed) \subseteq Object /\ Ptrs(f.borrowed)' = Ptrs(f.borrowed)
      BY <1>1, <1>2, <2>1 DEF Ptrs
    <3> QED BY <1>1, <1>2, <1>4, <2>1, <3>1 DEF Request, Ptrs
  <2>5. Pins(frame[g])'
    <3>1. f.op \in {"access", "method"} => C \subseteq keep'[f.self]
      BY <1>2, <1>3, <2>1 DEF Roles
    <3>2. ASSUME NEW h \in f.owned PROVE keep'[h] = keep[h]
      <4>1. h # f.self /\ h \in Handle
        BY <1>1, <1>2, <1>3, <2>1, NullAssumption
      <4> QED BY <1>2, <4>1
    <3>3. f.op = "new" => f.self \notin fin
      BY <1>2, <1>3, NullAssumption DEF Roles
    <3>4. fin' = fin
      BY <1>1
    <3> QED BY <1>2, <1>4, <3>1, <3>2, <3>3, <3>4 DEF Pins
  <2> QED BY <2>2, <2>3, <2>4, <2>5
<1>16. Lists' /\ Rooted'
  <2>1. keep' \in [Handle -> SUBSET made']
    BY <1>1, <1>2, <1>3
  <2>2. \A x \in Handle \ made' : keep'[x] = {}
    <3>1. f.self # Null => f.self \in made
      BY <1>2, <1>3 DEF Used
    <3> QED BY <1>1, <1>2, <1>3, <3>1, NullAssumption DEF Lists
  <2> QED BY <1>1, <1>3, <2>1, <2>2 DEF Lists, Rooted
<1>17. finalizing' # Null => finalizing' \notin Known'
  BY <1>1, <1>10 DEF RInv
<1> QED BY <1>11, <1>12, <1>14, <1>15, <1>16, <1>17 DEF RInv

\* How the calls start: with receiver, borrowed, consumed and pinned handles.
Starts(g, op, self, B, A, pins, id, C) ==
  /\ frame[g] = Idle /\ Call(g, op, self, B, A, pins, id)
  /\ UNCHANGED <<live, owner, lost, ptr, made, fin, held, collector, refs, handler, cb>>
  /\ keep' = [x \in Handle |-> IF x = self THEN keep[x] \cup C ELSE keep[x]]
  /\ op = "impl" => A = {}
  /\ IF self = Null THEN op \in {"new", "impl"} ELSE op \in {"access", "method"} /\ self \in held
  /\ pins => self # Null /\ C = B \cup A
  /\ (pins /\ self \in fin) \/ \A h \in A : keep[h] = {} /\ cb[h] = Null

\* Such a start keeps the invariant.
LEMMA StartsKeep ==
  ASSUME IInv, RInv, Careless = {}, NEW g \in Goroutine,
         NEW op \in {"new", "impl", "access", "method"}, NEW pins \in BOOLEAN,
         NEW self \in Handle \cup {Null}, NEW B \in SUBSET held, NEW A \in SUBSET held,
         NEW C \in SUBSET held, NEW id \in Id \cup {Null},
         Starts(g, op, self, B, A, pins, id, C)
  PROVE  RInv'
<1>0. /\ frame[g] = Idle /\ Call(g, op, self, B, A, pins, id)
      /\ UNCHANGED <<live, owner, lost, ptr, made, fin, held, collector, refs>>
      /\ op = "impl" => A = {}
      /\ op \in {"access", "method"} => self # Null
      /\ self = Null <=> op \in {"new", "impl"}
      /\ self # Null => self \in held
      /\ pins => C = B \cup A
      /\ (pins /\ self \in fin) \/ \A h \in A : keep[h] = {}
  BY DEF Starts
<1>1. UNCHANGED <<live, owner, lost, ptr, made, fin, held, collector>>
  BY <1>0
<1>2. PICK f \in Frame : Begun(g, f) /\ Requests(f, op, self, B, A, pins)
  BY <1>0, <1>1, CallBegins
<1>3. /\ f.op = op /\ f.pins = pins /\ f.self = self /\ f.borrowed = B /\ f.owned = A /\ f.in = Ptrs(B)
      /\ f.at = IF self = Null THEN Null ELSE ptr[self]
      /\ Used(f) = B \cup ({self} \ {Null})
  BY <1>2 DEF Requests, Used
<1>4. Roles(f)
  BY <1>0, <1>3 DEF Roles
<1>5. /\ A \cap (B \cup {self}) = {}
      /\ \A h \in B \cup ({self} \ {Null}) : ptr[h] # Null /\ ~InFlight(h)
      /\ \A h \in A : Consumable(h)
  BY <1>0 DEF Call, Usable
<1>6. ptr \in [Handle -> Object \cup {Null}] /\ held \subseteq Handle
  BY DEF IInv, Types
<1>7. \A h \in B \cup ({self} \ {Null}) : ptr[h] \in Object
  BY <1>0, <1>5, <1>6
<1>8. \A h \in A : /\ \A x \in Handle : h \notin keep[x]
                   /\ \A k \in Goroutine : h \notin Used(frame[k])
  BY <1>5 DEF Consumable, Given, Used
<1>9. Careful(g, f, C)
  BY <1>0, <1>3, <1>4, <1>5, <1>7, <1>8 DEF Careful, Starts
<1> QED BY <1>2, <1>9, CarefulKeeps

\* A careful application starts every call so.
Begins(g) ==
  \E op \in {"new", "impl", "access", "method"}, self \in Handle \cup {Null},
     B \in SUBSET held, A \in SUBSET held, C \in SUBSET held, pins \in BOOLEAN,
     id \in Id \cup {Null} :
    Starts(g, op, self, B, A, pins, id, C)

LEMMA BeginStarts ==
  ASSUME IInv, RInv, Careless = {}, NEW g \in Goroutine, Begin(g)
  PROVE  Begins(g)
<1>1. /\ frame[g] = Idle /\ held \subseteq Handle /\ keep \in [Handle -> SUBSET Handle]
      /\ \A B \in Arguments : B \in SUBSET held
      /\ {} \in SUBSET held /\ Null \notin Handle
  BY UsedMade, NullAssumption DEF Begin, IInv, Types, Arguments
<1>2. keep = [x \in Handle |-> IF x = Null THEN keep[x] \cup {} ELSE keep[x]]
  BY <1>1
<1>3. \A h : SelfContained(h) => keep[h] = {} /\ cb[h] = Null
  BY DEF SelfContained
<1>4. ASSUME NEW B \in Arguments, NEW A \in Arguments, Construct(g, B, A) PROVE Begins(g)
  <2>1. Starts(g, "new", Null, B, A, FALSE, Null, {})
    BY <1>1, <1>2, <1>3, <1>4 DEF Construct, Starts, cpp, handles
  <2> QED BY <1>1, <2>1 DEF Begins
<1>5. ASSUME NEW B \in Arguments, NEW A \in Arguments, NEW id \in Id,
             ConstructImpl(g, id, B, A)
      PROVE  Begins(g)
  <2>0. A = {}
    BY <1>5 DEF ConstructImpl
  <2>1. Starts(g, "impl", Null, B, A, FALSE, id, {})
    BY <2>0, <1>1, <1>2, <1>3, <1>5 DEF ConstructImpl, Starts, cpp, handles
  <2> QED BY <1>1, <2>1 DEF Begins
<1>6. ASSUME NEW op \in {"access", "method"}, NEW h \in held, NEW B \in Arguments,
             NEW A \in Arguments, NEW pins \in BOOLEAN, Method(g, op, h, B, A, pins)
      PROVE  Begins(g)
  <2>1. /\ Call(g, op, h, B, A, pins, Null) /\ h # Null
        /\ UNCHANGED <<live, owner, lost, ptr, made, fin, held, collector, refs, handler, cb>>
        /\ (pins /\ h \in fin) \/ \A a \in A : keep[a] = {} /\ cb[a] = Null
        /\ keep' = IF pins THEN [keep EXCEPT ![h] = @ \cup B \cup A] ELSE keep
    BY <1>1, <1>3, <1>6 DEF Method, cpp
  <2>2. CASE pins
    <3>0. \A x \in Handle : keep[x] \cup (B \cup A) = keep[x] \cup B \cup A
      OBVIOUS
    <3>1. keep' = [x \in Handle |-> IF x = h THEN keep[x] \cup (B \cup A) ELSE keep[x]]
      BY <1>1, <2>1, <2>2, <3>0
    <3>2. Starts(g, op, h, B, A, pins, Null, B \cup A) /\ B \cup A \in SUBSET held
      BY <1>1, <2>1, <3>1 DEF Starts
    <3> QED BY <1>1, <3>2 DEF Begins
  <2>3. CASE ~pins
    <3>1. keep' = [x \in Handle |-> IF x = h THEN keep[x] \cup {} ELSE keep[x]]
      BY <1>1, <2>1, <2>3
    <3>2. Starts(g, op, h, B, A, pins, Null, {})
      BY <1>1, <2>1, <2>3, <3>1 DEF Starts
    <3> QED BY <1>1, <3>2 DEF Begins
  <2> QED BY <2>2, <2>3
<1> QED BY <1>4, <1>5, <1>6 DEF Begin

-----------------------------------------------------------------------------
(***************************************************************************)
(* The theorems.                                                            *)
(***************************************************************************)
\* At the start there is nothing to reach.
LEMMA InitReach == Init => RInv
<1> SUFFICES ASSUME Init PROVE RInv
  OBVIOUS
<1> USE NullAssumption DEF Init, O!Init, Idle
<1>1. Lists /\ Rooted
  BY DEF Lists, Rooted
<1>2. Known = {}
  <2>1. Mentioned(Idle) = {}
    BY DEF Mentioned
  <2>2. \A g \in Goroutine : Mentioned(frame[g]) = {}
    BY <2>1
  <2>3. Claims = {}
    <3>1. (UNION {Mentioned(frame[g]) : g \in Goroutine}) = {}
      BY <2>2
    <3>2. (UNION {keep[x] : x \in fin}) = {} /\ held = {}
      OBVIOUS
    <3> QED BY <3>1, <3>2 DEF Claims
  <2>4. Closure(keep, {}) \subseteq {}
    <3> DEFINE T == {}
    <3>1. T \in SUBSET Handle /\ T \subseteq T /\ \A x \in T : keep[x] \subseteq T
      OBVIOUS
    <3>2. Closure(keep, T) \subseteq T
      BY <3>1, ClosureLeast
    <3> QED BY <3>2
  <2> QED BY <2>3, <2>4 DEF Known
<1>3. HandlesAnchored /\ ObjectsAnchored
  BY <1>2 DEF HandlesAnchored, ObjectsAnchored, Guards
<1>4. \A g \in Goroutine : /\ Roles(frame[g]) /\ InUse(g) /\ Request(frame[g])
                           /\ Pins(frame[g]) /\ Result(frame[g])
  BY DEF Roles, InUse, Used, Unguarded, Request, Pins, Result
<1> QED BY <1>1, <1>3, <1>4 DEF RInv

\* Every step of a careful application and of the collector keeps the invariant.
LEMMA StepKeeps ==
  ASSUME Careless = {}, Inv, [Next]_vars
  PROVE  Inv'
<1>1. IInv /\ RInv /\ OwnershipCare
  BY DEF Inv, OwnershipCare
<1>2. IInv'
  BY <1>1, InductiveInvariant
<1>3. ASSUME NEW g \in Goroutine, Run(g) PROVE RInv'
  <2>1. frame[g].pc = "encoded"
    BY <1>3 DEF Run
  <2>2. ASSUME NEW o \in Object, RunConstruct(g, o) PROVE RInv'
    BY <1>1, <2>1, <2>2, RunConstructKeeps
  <2>3. ASSUME NEW o \in Object \cup {Null}, NEW S \in {{}, frame[g].in}, RunMethod(g, o, S)
        PROVE  RInv'
    BY <1>1, <2>1, <2>3, RunMethodKeeps
  <2>4. ASSUME NEW o \in Object, RunMakePart(g, o) PROVE RInv'
    BY <1>1, <2>1, <2>4, RunMakePartKeeps
  <2>5. CASE RunFails(g)
    BY <1>1, <2>1, <2>5, RunFailsKeeps
  <2>6. CASE RunRefused(g)
    BY <1>1, <2>1, <2>6, RunRefusedKeeps
  <2> QED BY <1>3, <2>2, <2>3, <2>4, <2>5, <2>6 DEF Run
<1>4. ASSUME NEW g \in Goroutine, Begin(g) PROVE RInv'
  BY <1>1, <1>4, BeginStarts, StartsKeep DEF Begins
<1>5. ASSUME NEW g \in Goroutine, Finish(g) PROVE RInv'
  BY <1>1, <1>5, FinishEnds, EndsKeep
<1>6. ASSUME NEW h \in Handle, Drop(h) PROVE RInv'
  BY <1>1, <1>6, DropQuiet
<1>7. ASSUME NEW h \in Handle, Finalize(h) PROVE RInv'
  BY <1>1, <1>7, FinalizeQuiet
<1>8. ASSUME Free PROVE RInv'
  BY <1>1, <1>8, FreeKeeps
<1>9. ASSUME Unregister PROVE RInv'
  BY <1>1, <1>9, UnregisterQuiet
<1>10. ASSUME Collect PROVE RInv'
  BY <1>1, <1>10, CollectQuiet
<1>11. ASSUME UNCHANGED vars PROVE RInv'
  BY <1>1, <1>11, StutterQuiet
<1>12. RInv'
  BY <1>3, <1>4, <1>5, <1>6, <1>7, <1>8, <1>9, <1>10, <1>11 DEF Next
<1> QED BY <1>2, <1>12 DEF Inv

\* The invariant holds throughout.
LEMMA AlwaysInv ==
  ASSUME Careless = {}
  PROVE  Spec => []Inv
<1>1. Init => Inv
  BY InitIInv, InitReach DEF Inv
<1>2. Inv /\ [Next]_vars => Inv'
  BY StepKeeps
<1> QED BY <1>1, <1>2, PTL DEF Spec

\* A handle the application can still get at is never left with the pointer of
\* a freed object, whatever is dropped and whenever the collector runs: the
\* keepAlive lists that constructors, accessors and methods fill keep, through
\* any chain of views and stored arguments, the handle whose finalizer frees it.
THEOREM HandlesLiveAlways ==
  ASSUME Careless = {}
  PROVE  Spec => []HandlesLive
<1>1. Inv => HandlesLive
  BY InvHandlesLive
<1>2. Spec => []Inv
  BY AlwaysInv
<1> QED BY <1>1, <1>2, PTL

\* A live object never holds a pointer to a freed one, unless it was lost by a
\* call that was refused: what a constructor or a method named Add..., Set...
\* stores is pinned on the handle that owns the object it is stored in, through
\* transfers and finalizers in any order.
THEOREM RefsLiveAlways ==
  ASSUME Careless = {}
  PROVE  Spec => []RefsLive
<1>1. Inv => RefsLive
  BY InvRefsLive
<1>2. Spec => []Inv
  BY AlwaysInv
<1> QED BY <1>1, <1>2, PTL

\* When the C++ function of a call runs, the receiver and all arguments that its
\* request names are live, although nothing locks them after they were encoded.
THEOREM RequestLiveAlways ==
  ASSUME Careless = {}
  PROVE  Spec => []RequestLive
<1>1. Inv => RequestLive
  BY InvRequestLive
<1>2. Spec => []Inv
  BY AlwaysInv
<1> QED BY <1>1, <1>2, PTL

-----------------------------------------------------------------------------
\* Each step of the bindings makes an object, transfers some, releases some, or
\* leaves what there is and who owns it.
LEMMA StepOwns ==
  ASSUME Careless = {}, Inv, [Next]_vars
  PROVE  [O!Next]_<<live, owner>>
<1>1. IInv /\ RInv /\ RequestLive /\ Lists /\ Rooted /\ live \subseteq Object
      /\ owner \in [Object -> Object \cup {Null}]
  BY InvRequestLive, RInvParts DEF Inv, IInv, Types
<1>2. ASSUME NEW g \in Goroutine, frame[g].pc = "encoded"
      PROVE  /\ frame[g].taken \in SUBSET O!GoOwned /\ frame[g].taken \in SUBSET Object
             /\ frame[g].op \in {"access", "method"} => frame[g].at \in live
  <2>1. frame[g].op \in {"access", "method"} => frame[g].self # Null
    BY <1>1, RInvParts DEF CallOK, Roles
  <2> QED BY <1>1, <1>2, <2>1, Taken, RequestAnchored DEF O!GoOwned
<1>3. ASSUME NEW g \in Goroutine, NEW o \in Object, frame[g].pc = "encoded", RunConstruct(g, o)
      PROVE  O!Make(o)
  <2> DEFINE A == frame[g].taken
  <2>1. /\ o \notin live /\ live' = live \cup {o}
        /\ owner' = [x \in Object |-> IF x \in A THEN o ELSE owner[x]]
    BY <1>3 DEF RunConstruct
  <2>2. A \in SUBSET O!GoOwned /\ o \notin A /\ owner[o] = Null
    BY <1>1, <1>2, <1>3, <2>1 DEF O!GoOwned, IInv
  <2> HIDE DEF A
  <2>3. owner' = [x \in Object |-> IF x = o THEN Null ELSE IF x \in A THEN o ELSE owner[x]]
    BY <2>1, <2>2
  <2> QED BY <2>1, <2>2, <2>3 DEF O!Make
<1>4. ASSUME NEW g \in Goroutine, NEW o \in Object, frame[g].pc = "encoded", RunMakePart(g, o)
      PROVE  O!Make(o)
  <2> DEFINE at == frame[g].at
  <2>1. /\ o \notin live /\ live' = live \cup {o} /\ at \in live
        /\ owner' = [owner EXCEPT ![o] = at]
    BY <1>2, <1>4 DEF RunMakePart
  <2> HIDE DEF at
  <2>2. owner' = [x \in Object |-> IF x = o THEN at ELSE IF x \in {} THEN o ELSE owner[x]]
    BY <1>1, <2>1
  <2>3. {} \in SUBSET O!GoOwned /\ at \in live \cup {Null}
    BY <2>1
  <2> QED BY <2>1, <2>2, <2>3 DEF O!Make
<1>5. ASSUME NEW g \in Goroutine, frame[g].pc = "encoded", NEW r \in Object \cup {Null},
             NEW S \in {{}, frame[g].in}, RunMethod(g, r, S)
      PROVE  \E o \in Object : O!Transfer(o)
  <2> DEFINE A == frame[g].taken
             at == frame[g].at
  <2>1. /\ live' = live /\ at \in live /\ A \in SUBSET O!GoOwned
        /\ owner' = [x \in Object |-> IF x \in A THEN at ELSE owner[x]]
    BY <1>2, <1>5 DEF RunMethod
  <2>2. at \notin O!Owned(A)
    <3>1. CallOK(g) /\ frame[g].op \in {"access", "method"}
      BY <1>1, <1>5, RInvParts DEF RunMethod
    <3>2. /\ frame[g].self # Null /\ frame[g].self \in Used(frame[g])
          /\ Used(frame[g]) \in SUBSET Handle /\ Used(frame[g]) \cap frame[g].owned = {}
      BY <1>1, <3>1, UsedClaimed DEF CallOK, Roles, Used, InUse
    <3>3. {frame[g].self} \in SUBSET Handle /\ {frame[g].self} \cap frame[g].owned = {}
      BY <3>2
    <3>4. Anchor({frame[g].self}, at)
      BY <1>1, <1>5, <3>2, RequestAnchored
    <3>5. at \notin Tree(owner, A)
      BY <1>1, <1>5, <3>3, <3>4, FrozenApart
    <3> QED BY <3>5 DEF O!Owned, Tree
  <2> HIDE DEF A, at
  <2> QED BY <1>1, <2>1, <2>2 DEF O!Transfer
<1>6. ASSUME NEW A \in SUBSET O!GoOwned, Delete(A) PROVE O!Release
  BY <1>6 DEF Delete, O!Release
<1>7. ASSUME NEW g \in Goroutine, Run(g) PROVE [O!Next]_<<live, owner>>
  <2>1. frame[g].pc = "encoded"
    BY <1>7 DEF Run
  <2>2. RunFails(g) => O!Release
    BY <1>2, <1>6, <2>1 DEF RunFails
  <2>3. RunRefused(g) => UNCHANGED <<live, owner>>
    BY DEF RunRefused
  <2>4. CASE \E o \in Object : RunConstruct(g, o) \/ RunMakePart(g, o)
    BY <1>3, <1>4, <2>1, <2>4 DEF O!Next
  <2>5. CASE \E o \in Object \cup {Null}, S \in {{}, frame[g].in} : RunMethod(g, o, S)
    BY <1>5, <2>1, <2>5 DEF O!Next
  <2> QED BY <1>7, <2>2, <2>3, <2>4, <2>5 DEF Run, O!Next
<1>8. Free => [O!Next]_<<live, owner>>
  <2> SUFFICES ASSUME Free PROVE [O!Next]_<<live, owner>>
    OBVIOUS
  <2>1. CASE UNCHANGED <<live, owner>>
    BY <2>1
  <2>2. CASE ptr[finalizing] # Null /\ Delete({ptr[finalizing]})
    <3>1. finalizing \in fin /\ \A g \in Goroutine : finalizing \notin HandedOver(g)
      BY <1>1 DEF Free, IInv, Finalizer, HandedOver
    <3>2. finalizing \in Guards
      BY <1>1, <2>2, <3>1 DEF Guards, IInv, Types
    <3>3. {ptr[finalizing]} \in SUBSET O!GoOwned
      BY <1>1, <3>2, GuardAlone DEF O!GoOwned
    <3> QED BY <1>6, <2>2, <3>3 DEF O!Next
  <2> QED BY <2>1, <2>2 DEF Free
<1>9. ASSUME NEW g \in Goroutine, Begin(g) \/ Finish(g) PROVE UNCHANGED <<live, owner>>
  BY <1>9 DEF Begin, Finish, cpp, Construct, ConstructImpl, Method,
              FinishConstruct, FinishAccess, FinishCall, FinishFailed
<1>10. (\E h \in Handle : Drop(h) \/ Finalize(h)) \/ Unregister \/ Collect \/ UNCHANGED vars
         => UNCHANGED <<live, owner>>
  BY DEF Drop, Finalize, Unregister, Collect, vars, cpp
<1> QED BY <1>7, <1>8, <1>9, <1>10 DEF Next

\* The bindings implement the abstract ownership: every object is made once, is
\* owned by Go or by one live object it is not part of, and is destroyed once
\* with all it owns, by its owner alone.
THEOREM OwnershipKeptAlways ==
  ASSUME Careless = {}
  PROVE  Spec => OwnershipKept
<1>1. Init => O!Init
  BY DEF Init
<1>2. Inv /\ [Next]_vars => [O!Next]_<<live, owner>>
  BY StepOwns
<1>3. Spec => []Inv
  BY AlwaysInv
<1> QED BY <1>1, <1>2, <1>3, PTL DEF Spec, OwnershipKept, O!Spec
-----------------------------------------------------------------------------
(***************************************************************************)
(* The registry of adapters.                                                *)
(***************************************************************************)
\* The id of a call that makes an object implemented in Go is registered and
\* its alone, until its handle takes it over.
OwnId(g) ==
  LET f == frame[g]
  IN  f.id # Null => /\ f.op = "impl" /\ f.id \in callbacks
                     /\ \A h \in Handle : cb[h] # f.id
                     /\ \A k \in Goroutine : k # g => frame[k].id # f.id

\* Every registered id has one call or one finalizer to unregister it.
IdInv ==
  /\ cb \in [Handle -> Id \cup {Null}] /\ callbacks \subseteq Id
  /\ \A g \in Goroutine : OwnId(g)
  /\ \A h \in Handle : cb[h] # Null =>
       /\ h \in fin /\ cb[h] \in callbacks
       /\ \A x \in Handle : cb[x] = cb[h] => x = h
  /\ \A id \in callbacks : \/ \E h \in fin : cb[h] = id
                           \/ \E g \in Goroutine : frame[g].id = id

\* A step that registers nothing and leaves each call its id.
SameIds ==
  /\ UNCHANGED <<fin, cb, callbacks>>
  /\ \A g \in Goroutine : /\ frame'[g].id = frame[g].id
                          /\ frame[g].id # Null => frame'[g].op = frame[g].op

LEMMA SameIdsKeep ==
  ASSUME IdInv, SameIds PROVE IdInv'
BY DEF IdInv, SameIds, OwnId

\* A call starts with an id that is registered with it, or with none.
LEMMA BeginIds ==
  ASSUME IInv, IdInv, NEW g \in Goroutine, Begin(g)
  PROVE  IdInv'
<1>1. /\ frame[g] = Idle /\ Idle.id = Null /\ frame \in [Goroutine -> Frame]
      /\ fin \subseteq Handle
  BY DEF Begin, Idle, IInv, Types
<1>2. ASSUME NEW op, NEW self, NEW B, NEW A, NEW pins, NEW id,
             Call(g, op, self, B, A, pins, id)
      PROVE  /\ frame'[g].op = op /\ frame'[g].id = id
             /\ \A k \in Goroutine : k # g => frame'[k] = frame[k]
  BY <1>1, <1>2 DEF Call
<1>3. ASSUME NEW op, NEW self, NEW B, NEW A, NEW pins, Call(g, op, self, B, A, pins, Null),
             UNCHANGED <<fin, cb, callbacks>>
      PROVE  IdInv'
  <2>1. SameIds
    BY <1>1, <1>2, <1>3 DEF SameIds
  <2> QED BY <2>1, SameIdsKeep
<1>4. ASSUME NEW B, NEW A, NEW id \in Id, ConstructImpl(g, id, B, A)
      PROVE  IdInv'
  <2>1. /\ id \notin callbacks /\ \A h \in Handle : cb[h] # id
        /\ Call(g, "impl", Null, B, A, FALSE, id)
        /\ callbacks' = callbacks \cup {id} /\ UNCHANGED <<fin, cb>>
    BY <1>4 DEF ConstructImpl, handles
  <2>2. /\ frame'[g].op = "impl" /\ frame'[g].id = id
        /\ \A k \in Goroutine : k # g => frame'[k] = frame[k]
    BY <1>2, <2>1
  <2>3. \A k \in Goroutine : frame[k].id # id
    BY <2>1, NullAssumption DEF IdInv, OwnId
  <2>4. \A k \in Goroutine : OwnId(k)'
    <3>1. OwnId(g)'
      BY <2>1, <2>2, <2>3 DEF OwnId
    <3>2. ASSUME NEW k \in Goroutine, k # g PROVE OwnId(k)'
      BY <2>1, <2>2, <2>3, <3>2 DEF OwnId, IdInv
    <3> QED BY <3>1, <3>2
  <2>5. \A i \in callbacks' : \/ \E h \in fin' : cb'[h] = i
                              \/ \E k \in Goroutine : frame'[k].id = i
    <3> SUFFICES ASSUME NEW i \in callbacks', i # id
                 PROVE  \/ \E h \in fin' : cb'[h] = i
                        \/ \E k \in Goroutine : frame'[k].id = i
      BY <2>2
    <3>1. i \in callbacks /\ i # Null
      BY <2>1, NullAssumption DEF IdInv
    <3>2. CASE \E h \in fin : cb[h] = i
      BY <2>1, <3>2
    <3>3. CASE \E k \in Goroutine : frame[k].id = i
      <4>1. PICK k \in Goroutine : frame[k].id = i
        BY <3>3
      <4>2. k # g
        BY <1>1, <3>1, <4>1
      <4> QED BY <2>2, <4>1, <4>2
    <3> QED BY <3>1, <3>2, <3>3 DEF IdInv
  <2> QED BY <2>1, <2>4, <2>5 DEF IdInv
<1> QED BY <1>3, <1>4 DEF Begin, Construct, Method, handles

\* A call ends: its handle takes the id over, or it is unregistered.
LEMMA FinishIds ==
  ASSUME IInv, IdInv, Careless = {}, NEW g \in Goroutine, Finish(g)
  PROVE  IdInv'
<1> DEFINE f == frame[g]
<1>1. /\ frame \in [Goroutine -> Frame] /\ Idle.id = Null
      /\ fin \subseteq made /\ made \subseteq Handle
  BY DEF Idle, IInv, Types
<1>2. /\ frame' = [frame EXCEPT ![g] = Idle]
      /\ frame'[g] = Idle /\ \A k \in Goroutine : k # g => frame'[k] = frame[k]
  BY <1>1 DEF Finish, FinishConstruct, FinishAccess, FinishCall, FinishFailed
<1>3. ASSUME NEW h \in Handle, FinishConstruct(g, h) PROVE IdInv'
  <2>1. /\ h \notin made /\ fin' = fin \cup {h} /\ cb' = [cb EXCEPT ![h] = f.id]
        /\ callbacks' = callbacks
    BY <1>3 DEF FinishConstruct
  <2>2. /\ cb'[h] = f.id /\ cb[h] = Null /\ h \in fin'
        /\ \A x \in Handle : x # h => cb'[x] = cb[x]
    BY <1>1, <2>1 DEF IdInv
  <2>3. f.id # Null => f.id \in callbacks /\ \A x \in Handle : cb[x] # f.id
    BY DEF IdInv, OwnId
  <2>4. cb' \in [Handle -> Id \cup {Null}]
    BY <1>1, <2>1 DEF IdInv, Frame
  <2>5. \A k \in Goroutine : OwnId(k)'
    <3>1. OwnId(g)'
      BY <1>1, <1>2 DEF OwnId
    <3>2. ASSUME NEW k \in Goroutine, k # g PROVE OwnId(k)'
      <4>1. OwnId(k) /\ frame'[k] = frame[k]
        BY <1>2, <3>2 DEF IdInv
      <4>2. frame[k].id # Null => \A x \in Handle : cb'[x] # frame[k].id
        BY <2>2, <3>2, <4>1 DEF OwnId
      <4>3. \A j \in Goroutine : frame'[j].id # Null => frame'[j].id = frame[j].id
        BY <1>1, <1>2
      <4> QED BY <2>1, <4>1, <4>2, <4>3 DEF OwnId
    <3> QED BY <3>1, <3>2
  <2>6. \A x \in Handle : cb'[x] # Null =>
          /\ x \in fin' /\ cb'[x] \in callbacks'
          /\ \A y \in Handle : cb'[y] = cb'[x] => y = x
    <3> TAKE x \in Handle
    <3> HAVE cb'[x] # Null
    <3>1. CASE x = h
      BY <2>1, <2>2, <2>3, <3>1
    <3>2. CASE x # h
      BY <2>1, <2>2, <2>3, <3>2 DEF IdInv
    <3> QED BY <3>1, <3>2
  <2>7. \A i \in callbacks' : \/ \E x \in fin' : cb'[x] = i
                              \/ \E k \in Goroutine : frame'[k].id = i
    <3> TAKE i \in callbacks'
    <3>1. CASE f.id = i
      BY <2>2, <3>1
    <3>2. CASE f.id # i
      <4>1. (\E x \in fin : cb[x] = i) \/ (\E k \in Goroutine : frame[k].id = i)
        BY <2>1 DEF IdInv
      <4>2. \A x \in fin : x # h /\ x \in fin' /\ cb'[x] = cb[x]
        BY <1>1, <2>1, <2>2
      <4>3. \A k \in Goroutine : frame[k].id = i => frame'[k].id = i
        BY <1>2, <3>2
      <4> QED BY <4>1, <4>2, <4>3
    <3> QED BY <3>1, <3>2
  <2> QED BY <2>1, <2>4, <2>5, <2>6, <2>7 DEF IdInv
<1>4. ASSUME FinishFailed(g) PROVE IdInv'
  <2>1. callbacks' = callbacks \ {f.id} /\ UNCHANGED <<fin, cb>>
    BY <1>4 DEF FinishFailed
  <2>2. \A k \in Goroutine : OwnId(k)'
    <3>1. OwnId(g)'
      BY <1>1, <1>2 DEF OwnId
    <3>2. ASSUME NEW k \in Goroutine, k # g PROVE OwnId(k)'
      <4>1. OwnId(k) /\ frame'[k] = frame[k]
        BY <1>2, <3>2 DEF IdInv
      <4>2. \A j \in Goroutine : frame'[j].id # Null => frame'[j].id = frame[j].id
        BY <1>1, <1>2
      <4> QED BY <2>1, <3>2, <4>1, <4>2 DEF OwnId
    <3> QED BY <3>1, <3>2
  <2>3. \A x \in Handle : cb[x] # Null => cb[x] # f.id
    BY DEF IdInv, OwnId
  <2>4. \A i \in callbacks' : \/ \E x \in fin' : cb'[x] = i
                              \/ \E k \in Goroutine : frame'[k].id = i
    BY <1>2, <2>1 DEF IdInv
  <2> QED BY <2>1, <2>2, <2>3, <2>4 DEF IdInv
<1>5. ASSUME (\E h \in Handle : FinishAccess(g, h)) \/ FinishCall(g) PROVE IdInv'
  <2>1. f.op \in {"access", "method"} /\ UNCHANGED <<fin, cb, callbacks>>
    BY <1>5 DEF FinishAccess, FinishCall
  <2>2. f.id = Null
    BY <2>1 DEF IdInv, OwnId
  <2>3. SameIds
    BY <1>1, <1>2, <2>1, <2>2 DEF SameIds
  <2> QED BY <2>3, SameIdsKeep
<1> QED BY <1>3, <1>4, <1>5 DEF Finish

\* The finalizer unregisters the id of its handle alone.
LEMMA UnregisterIds ==
  ASSUME IInv, IdInv, Unregister
  PROVE  IdInv'
<1> DEFINE K == finalizing
<1>1. /\ callbacks' = callbacks \ {cb[K]} /\ fin' = fin \ {K}
      /\ cb' = [cb EXCEPT ![K] = Null] /\ frame' = frame
  BY DEF Unregister
<1>2. K \in Handle /\ fin \subseteq Handle
  BY DEF Unregister, IInv, Types, Finalizer
<1>3. cb'[K] = Null /\ \A x \in Handle : x # K => cb'[x] = cb[x]
  BY <1>1, <1>2 DEF IdInv
<1>4. cb' \in [Handle -> Id \cup {Null}]
  BY <1>1, <1>2 DEF IdInv
<1>5. ASSUME NEW g \in Goroutine PROVE OwnId(g)'
  <2>1. OwnId(g) /\ frame' = frame
    BY <1>1 DEF IdInv
  <2>2. frame[g].id # Null => frame[g].id \in callbacks' /\ \A x \in Handle : cb'[x] # frame[g].id
    BY <1>1, <1>2, <1>3, <2>1 DEF OwnId
  <2> QED BY <2>1, <2>2 DEF OwnId
<1>6. \A x \in Handle : cb'[x] # Null =>
        /\ x \in fin' /\ cb'[x] \in callbacks'
        /\ \A y \in Handle : cb'[y] = cb'[x] => y = x
  BY <1>1, <1>2, <1>3 DEF IdInv
<1>7. \A i \in callbacks' : \/ \E x \in fin' : cb'[x] = i
                            \/ \E k \in Goroutine : frame'[k].id = i
  BY <1>1, <1>2, <1>3 DEF IdInv
<1> QED BY <1>1, <1>4, <1>5, <1>6, <1>7 DEF IdInv

\* Every step keeps the registry in order.
LEMMA StepIds ==
  ASSUME IInv, IdInv, Careless = {}, [Next]_vars
  PROVE  IdInv'
<1>1. frame \in [Goroutine -> Frame]
  BY DEF IInv, Types
<1>2. ASSUME NEW g \in Goroutine, Run(g) PROVE IdInv'
  <2>1. /\ UNCHANGED <<fin, cb, callbacks>>
        /\ \E pc, o : frame' = [frame EXCEPT ![g].pc = pc, ![g].result = o]
                      \/ frame' = [frame EXCEPT ![g].pc = pc]
    BY <1>2 DEF Run, RunConstruct, RunMakePart, RunMethod, RunFails, RunRefused,
                Return, Fail, handles
  <2>2. SameIds
    BY <1>1, <2>1 DEF SameIds, Frame
  <2> QED BY <2>2, SameIdsKeep
<1>3. ASSUME UNCHANGED <<fin, cb, callbacks, frame>> PROVE IdInv'
  <2>1. SameIds
    BY <1>3 DEF SameIds
  <2> QED BY <2>1, SameIdsKeep
<1>4. (\E h \in Handle : Drop(h) \/ Finalize(h)) \/ Free \/ Collect \/ UNCHANGED vars
        => UNCHANGED <<fin, cb, callbacks, frame>>
  BY DEF Drop, Finalize, Free, Collect, vars, handles
<1> QED BY <1>2, <1>3, <1>4, BeginIds, FinishIds, UnregisterIds DEF Next
-----------------------------------------------------------------------------
(***************************************************************************)
(* The adapters of live objects.                                            *)
(***************************************************************************)
\* From S one reaches, by lists K, a finalizer in F that unregisters id, by C.
Backed(K, F, C, S, id) == \E h \in Closure(K, S) \cap F : C[h] = id

\* A handle that needs no other and has no adapter.
Bare(h) == keep[h] = {} /\ cb[h] = Null

\* What a call gives away brings no adapter along, or is pinned; what it
\* returns has no adapter but its own.
Adapts(g) ==
  LET f == frame[g]
  IN  /\ f.pc = "encoded" =>
           /\ f.op = "new" => \A a \in f.owned : Bare(a)
           /\ f.op \in {"access", "method"} =>
                \/ f.pins /\ f.self \in fin /\ f.owned \subseteq keep[f.self]
                \/ \A a \in f.owned : Bare(a)
      /\ f.pc = "returned" /\ f.op \in {"new", "impl"} =>
           \A o \in Tree(owner, {f.result}) : handler[o] \in {Null, f.id}

\* The guard of a tree reaches whoever unregisters the adapters in it.
HandlersBacked ==
  \A k \in Guards : \A o \in Tree(owner, {ptr[k]}) :
    handler[o] # Null => Backed(keep, fin, cb, {k}, handler[o])

HInv ==
  /\ handler \in [Object -> Id \cup {Null}]
  /\ \A o \in Object \ live : handler[o] = Null
  /\ \A g \in Goroutine : Adapts(g)
  /\ HandlersBacked

\* Whoever reaches a backing handle by longer lists is backed by it.
LEMMA BackedGrows ==
  ASSUME NEW K, NEW L, NEW F, NEW H, NEW C, NEW D, NEW M \in SUBSET Handle,
         NEW S \in SUBSET M, \A x \in M : K[x] \subseteq L[x] \cap M,
         \A x \in F \cap M : x \in H /\ D[x] = C[x],
         NEW id, Backed(K, F, C, S, id)
  PROVE  Backed(L, H, D, S, id)
<1>1. Closure(K, S) \subseteq M
  BY ClosureLeast
<1>2. Closure(K, S) \subseteq Closure(L, S)
  BY ClosureGrows
<1> QED BY <1>1, <1>2 DEF Backed

\* A bare handle backs nothing.
LEMMA BareBacks ==
  ASSUME NEW b \in Handle, Bare(b), NEW id, Backed(keep, fin, cb, {b}, id)
  PROVE  id = Null
<1>1. {b} \in SUBSET Handle /\ \A x \in {b} : keep[x] \subseteq {b}
  BY DEF Bare
<1>2. Closure(keep, {b}) \subseteq {b}
  BY <1>1, ClosureLeast
<1> QED BY <1>2 DEF Backed, Bare

\* With the registry in order, adapters that are backed are registered.
LEMMA InvHandlers ==
  ASSUME Inv, IdInv, HInv PROVE HandlersRegistered
<1>1. ASSUME NEW o \in Kept, handler[o] # Null PROVE handler[o] \in callbacks
  <2>1. PICK r \in live \ lost : owner[r] = Null /\ o \in Tree(owner, {r})
    BY KeptRooted
  <2>2. r \in Object /\ Single(r)
    BY DEF Inv, IInv, Types
  <2>3. ASSUME NEW k \in Handle, Freers(r) = {k} PROVE handler[o] \in callbacks
    <3>1. k \in Guards /\ ptr[k] = r
      BY <2>2, <2>3 DEF Freers, Guards
    <3>2. Backed(keep, fin, cb, {k}, handler[o])
      BY <1>1, <2>1, <3>1 DEF HInv, HandlersBacked
    <3>3. PICK h \in fin : h \in Handle /\ cb[h] = handler[o]
      BY <3>2 DEF Backed, Closure
    <3> QED BY <1>1, <3>3 DEF IdInv
  <2>4. ASSUME NEW g \in Goroutine, Makers(r) = {g} PROVE handler[o] \in callbacks
    <3>1. frame[g].pc = "returned" /\ frame[g].op \in {"new", "impl"} /\ frame[g].result = r
      BY <2>4 DEF Makers
    <3>2. handler[o] = frame[g].id
      BY <1>1, <2>1, <3>1 DEF HInv, Adapts
    <3> QED BY <1>1, <3>2 DEF IdInv, OwnId
  <2> QED BY <2>1, <2>2, <2>3, <2>4 DEF Single
<1> QED BY <1>1 DEF HandlersRegistered, IdInv

\* A step that leaves the objects alone, and the lists and adapters of M.
LEMMA QuietHandlers ==
  ASSUME IInv, HInv, UNCHANGED <<live, owner, handler>>,
         NEW M \in SUBSET Handle, Guards' = Guards, Guards \subseteq M,
         \A k \in Guards : ptr'[k] = ptr[k],
         \A x \in M : keep[x] \subseteq keep'[x] \cap M,
         \A x \in fin \cap M : x \in fin' /\ cb'[x] = cb[x],
         \A g \in Goroutine : Adapts(g)'
  PROVE  HInv'
<1>1. HandlersBacked'
  <2> SUFFICES ASSUME NEW k \in Guards', NEW o \in Tree(owner', {ptr'[k]}), handler'[o] # Null
               PROVE  Backed(keep', fin', cb', {k}, handler'[o])
    BY DEF HandlersBacked
  <2>1. k \in Guards /\ {k} \in SUBSET M /\ handler'[o] = handler[o] /\ o \in Tree(owner, {ptr[k]})
    OBVIOUS
  <2>2. Backed(keep, fin, cb, {k}, handler[o])
    BY <2>1 DEF HInv, HandlersBacked
  <2> QED BY <2>1, <2>2, BackedGrows
<1> QED BY <1>1 DEF HInv

\* The application and the collector.
LEMMA OthersKeepHandlers ==
  ASSUME Inv, HInv, Careless = {},
         (\E h \in Handle : Drop(h) \/ Finalize(h)) \/ Unregister \/ Collect \/ UNCHANGED vars
  PROVE  HInv'
<1>1. /\ IInv /\ RInv /\ fin \subseteq Handle /\ Guards \subseteq fin
      /\ keep \in [Handle -> SUBSET Handle]
      /\ Known \in SUBSET Handle /\ \A x \in Known \cup fin : keep[x] \subseteq Known
  BY UsedMade, KnownClosed DEF Inv, IInv, Types, Guards
<1>2. ASSUME UNCHANGED <<live, owner, handler, ptr, fin, keep, cb, frame>> PROVE HInv'
  <2>1. Guards' = Guards /\ \A g \in Goroutine : Adapts(g)'
    BY <1>2 DEF Guards, HandedOver, HInv, Adapts, Bare
  <2> QED BY <1>1, <1>2, <2>1, QuietHandlers
<1>3. ASSUME Unregister PROVE HInv'
  <2> DEFINE K == finalizing
  <2>1. /\ freeing = "unregister" /\ fin' = fin \ {K} /\ cb' = [cb EXCEPT ![K] = Null]
        /\ UNCHANGED <<live, owner, handler, ptr, keep, frame>>
    BY <1>3 DEF Unregister, cpp
  <2>2. /\ ptr[K] = Null /\ K # Null /\ K \notin Known
        /\ \A g \in Goroutine : K \notin frame[g].owned /\ frame[g].owned \subseteq fin
    BY <1>1, <2>1 DEF IInv, RInv, Finalizer, HandsOver
  <2>3. Guards' = Guards /\ K \notin Guards
    BY <2>1, <2>2, NullAssumption DEF Guards, HandedOver
  <2>4. \A x \in Handle : x # K => cb'[x] = cb[x]
    BY <2>1
  <2>5. \A x \in Known \cup Guards : x \in Handle /\ x # K /\ keep[x] \subseteq Known
    BY <1>1, <2>2, <2>3
  <2>6. ASSUME NEW g \in Goroutine PROVE Adapts(g)'
    <3> DEFINE f == frame[g]
    <3>1. Adapts(g) /\ f.owned \subseteq Handle
      BY <1>1, <2>2 DEF HInv
    <3>2. \A a \in f.owned : cb'[a] = cb[a] /\ keep'[a] = keep[a]
      BY <2>1, <2>2, <2>4, <3>1
    <3>3. f.self # Null => f.self \in Known
      BY <1>1, UsedMade DEF Used
    <3>4. f.self \in fin => f.self \in fin'
      BY <1>1, <2>1, <2>2, <3>3, NullAssumption
    <3> QED BY <2>1, <3>1, <3>2, <3>4 DEF Adapts, Bare
  <2>7. HandlersBacked'
    <3> SUFFICES ASSUME NEW k \in Guards', NEW o \in Tree(owner', {ptr'[k]}), handler'[o] # Null
                 PROVE  Backed(keep', fin', cb', {k}, handler'[o])
      BY DEF HandlersBacked
    <3>1. k \in Guards /\ handler'[o] = handler[o] /\ o \in Tree(owner, {ptr[k]})
      BY <2>1, <2>3
    <3>2. Backed(keep, fin, cb, {k}, handler[o])
      BY <3>1 DEF HInv, HandlersBacked
    <3> DEFINE N == Known \cup {k}
    <3>3. N \in SUBSET Handle /\ {k} \in SUBSET N /\ \A x \in N : keep[x] \subseteq keep'[x] \cap N
      BY <1>1, <2>1, <2>5, <3>1
    <3>4. \A x \in fin \cap N : x \in fin' /\ cb'[x] = cb[x]
      BY <2>1, <2>4, <2>5, <3>1
    <3> HIDE DEF N
    <3> QED BY <3>1, <3>2, <3>3, <3>4, BackedGrows
  <2> QED BY <2>1, <2>6, <2>7 DEF HInv
<1>4. ASSUME Collect PROVE HInv'
  <2> DEFINE R == Reach(Roots \cup fin)
  <2>1. /\ ptr' = [h \in Handle |-> IF h \in Garbage THEN Null ELSE ptr[h]]
        /\ keep' = [h \in Handle |-> IF h \in Garbage THEN {} ELSE keep[h]]
        /\ UNCHANGED <<live, owner, handler, fin, cb, frame>>
    BY <1>4 DEF Collect, cpp
  <2>2. R \in SUBSET Handle /\ R = Closure(keep, Roots \cup fin)
    BY DEF Reach, Closure
  <2>3. fin \subseteq R /\ \A x \in R : keep[x] \subseteq R
    <3>1. fin \subseteq (Roots \cup fin) \cap Handle
      BY <1>1
    <3>2. fin \subseteq R
      BY <3>1, ReachContains
    <3>3. \A x \in Closure(keep, Roots \cup fin) : keep[x] \subseteq Closure(keep, Roots \cup fin)
      BY <1>1, <2>2, ClosureClosed
    <3> QED BY <2>2, <3>2, <3>3
  <2>4. Garbage \cap R = {}
    BY DEF Garbage
  <2>5. \A x \in R : keep'[x] = keep[x] /\ ptr'[x] = ptr[x]
    BY <2>1, <2>2, <2>4
  <2> HIDE DEF R
  <2>6. Guards' = Guards /\ \A k \in Guards : ptr'[k] = ptr[k]
    BY <1>1, <2>1, <2>3, <2>5 DEF Guards, HandedOver
  <2>7. ASSUME NEW g \in Goroutine PROVE Adapts(g)'
    <3> DEFINE f == frame[g]
    <3>1. Adapts(g) /\ f.owned \subseteq fin
      BY <1>1 DEF HInv, IInv, HandsOver
    <3>2. \A a \in f.owned \cup fin : keep'[a] = keep[a]
      BY <2>3, <2>5, <3>1
    <3> QED BY <2>1, <3>1, <3>2 DEF Adapts, Bare
  <2>8. \A x \in R : keep[x] \subseteq keep'[x] \cap R
    BY <2>3, <2>5
  <2> QED BY <1>1, <2>1, <2>2, <2>3, <2>6, <2>7, <2>8, QuietHandlers
<1>5. (\E h \in Handle : Drop(h) \/ Finalize(h)) \/ UNCHANGED vars
        => UNCHANGED <<live, owner, handler, ptr, fin, keep, cb, frame>>
  BY DEF Drop, Finalize, vars, cpp, handles
<1> QED BY <1>2, <1>3, <1>4, <1>5

\* A finalizer deletes objects together with their adapters' owners.
LEMMA FreeHandlers ==
  ASSUME Inv, HInv, Free
  PROVE  HInv'
<1> DEFINE K == finalizing
           A == {ptr[K]}
<1>1. /\ freeing = "free" /\ ptr' = [ptr EXCEPT ![K] = Null]
      /\ (ptr[K] # Null /\ Delete(A)) \/ UNCHANGED <<live, owner, handler>>
      /\ UNCHANGED <<fin, cb, keep, frame>>
  BY DEF Free, cpp
<1>2. /\ IInv /\ RInv /\ K \in fin /\ K \in Handle /\ K # Null
      /\ \A g \in Goroutine : K \notin HandedOver(g)
      /\ ptr \in [Handle -> Object \cup {Null}] /\ Lists /\ Rooted
      /\ \A g \in Goroutine : CallOK(g)
  BY <1>1, RInvParts DEF Inv, IInv, Finalizer, Types, HandedOver
<1>3. CASE ptr[K] = Null
  <2>1. ptr' = ptr /\ UNCHANGED <<live, owner, handler>>
    BY <1>1, <1>2, <1>3
  <2>2. Guards' = Guards /\ \A g \in Goroutine : Adapts(g)'
    BY <1>1, <2>1 DEF Guards, HandedOver, HInv, Adapts, Bare
  <2>3. Guards \subseteq Handle /\ keep \in [Handle -> SUBSET Handle]
    BY <1>2, UsedMade DEF Guards
  <2> QED BY <1>1, <1>2, <2>1, <2>2, <2>3, QuietHandlers
<1>4. CASE ptr[K] # Null
  <2>1. K \in Guards /\ A \in SUBSET live /\ \A x \in A : owner[x] = Null
    BY <1>2, <1>4, GuardAlone DEF Guards
  <2>2. \A r \in live \ A : owner[r] = Null => Tree(owner', {r}) = Tree(owner, {r})
    <3>1. CASE Delete(A)
      <4> HIDE DEF A
      <4> QED BY <1>2, <2>1, <3>1, DeleteLeaves
    <3>2. CASE UNCHANGED <<live, owner, handler>>
      BY <3>2
    <3> QED BY <1>1, <3>1, <3>2
  <2>3. /\ handler' \in [Object -> Id \cup {Null}]
        /\ \A o \in Object : handler'[o] \in {Null, handler[o]}
        /\ \A o \in Object \ live' : handler'[o] = Null
    <3>1. CASE Delete(A)
      BY <3>1 DEF Delete, HInv
    <3>2. CASE UNCHANGED <<live, owner, handler>>
      BY <3>2 DEF HInv
    <3> QED BY <1>1, <3>1, <3>2
  <2>4. ASSUME NEW k \in Guards'
        PROVE  /\ k \in Guards /\ ptr'[k] = ptr[k]
               /\ Tree(owner', {ptr'[k]}) = Tree(owner, {ptr[k]})
    <3>1. k \in fin /\ ptr'[k] # Null /\ \A g \in Goroutine : k \notin HandedOver(g)
      BY <1>1, NullAssumption DEF Guards, HandedOver
    <3>2. k # K /\ k \in Handle
      BY <1>1, <1>2, <3>1 DEF Types, IInv
    <3>3. k \in Guards /\ ptr'[k] = ptr[k]
      BY <1>1, <1>2, <3>1, <3>2 DEF Guards
    <3>4. ptr[k] \in live \ A /\ owner[ptr[k]] = Null
      BY <1>2, <2>1, <3>2, <3>3, GuardAlone
    <3> QED BY <2>2, <3>3, <3>4
  <2>5. HandlersBacked'
    <3> SUFFICES ASSUME NEW k \in Guards', NEW o \in Tree(owner', {ptr'[k]}), handler'[o] # Null
                 PROVE  Backed(keep', fin', cb', {k}, handler'[o])
      BY DEF HandlersBacked
    <3>1. k \in Guards /\ o \in Tree(owner, {ptr[k]}) /\ o \in Object
      BY <2>4 DEF Tree
    <3>2. handler'[o] = handler[o]
      BY <2>3, <3>1
    <3>3. Backed(keep, fin, cb, {k}, handler[o])
      BY <3>1, <3>2 DEF HInv, HandlersBacked
    <3> QED BY <1>1, <3>2, <3>3
  <2>6. ASSUME NEW g \in Goroutine PROVE Adapts(g)'
    <3> DEFINE f == frame[g]
    <3>1. Adapts(g) /\ CallOK(g)
      BY <1>2 DEF HInv
    <3>2. ASSUME f.pc = "returned", f.op \in {"new", "impl"},
                 NEW o \in Tree(owner', {f.result})
          PROVE  handler'[o] \in {Null, f.id}
      <4>1. f.result \in Object /\ g \in Makers(f.result)
        BY <3>1, <3>2 DEF CallOK, HandsOver, Makers
      <4>2. f.result \in live /\ owner[f.result] = Null
        BY <1>2, <4>1 DEF IInv, Single
      <4>3. f.result \notin A
        BY <1>2, <2>1, <4>1, GuardAlone
      <4>4. o \in Tree(owner, {f.result}) /\ o \in Object
        BY <2>2, <3>2, <4>2, <4>3 DEF Tree
      <4>5. handler[o] \in {Null, f.id}
        BY <3>1, <3>2, <4>4 DEF Adapts
      <4> QED BY <2>3, <4>4, <4>5
    <3> QED BY <1>1, <3>1, <3>2 DEF Adapts, Bare
  <2> QED BY <2>3, <2>5, <2>6 DEF HInv
<1> QED BY <1>3, <1>4

\* A call starts: it is given bare handles, or pins them.
LEMMA BeginHandlers ==
  ASSUME Inv, HInv, Careless = {}, NEW g \in Goroutine, Begin(g)
  PROVE  HInv'
<1>0. IInv /\ RInv
  BY DEF Inv
<1>1. PICK op \in {"new", "impl", "access", "method"}, self \in Handle \cup {Null},
           B \in SUBSET held, A \in SUBSET held, C \in SUBSET held, pins \in BOOLEAN,
           id \in Id \cup {Null} :
        Starts(g, op, self, B, A, pins, id, C)
  BY <1>0, BeginStarts DEF Begins
<1>2. /\ frame[g] = Idle /\ Call(g, op, self, B, A, pins, id)
      /\ UNCHANGED <<live, owner, ptr, made, fin, held, collector, refs, handler, cb>>
      /\ keep' = [x \in Handle |-> IF x = self THEN keep[x] \cup C ELSE keep[x]]
      /\ self # Null => self \in held
      /\ pins => self # Null /\ C = B \cup A
      /\ (pins /\ self \in fin) \/ \A h \in A : keep[h] = {} /\ cb[h] = Null
  BY <1>1 DEF Starts
<1>3. /\ frame \in [Goroutine -> Frame] /\ held \subseteq Handle /\ fin \subseteq Handle
      /\ keep \in [Handle -> SUBSET Handle] /\ \A k \in Goroutine : HandsOver(k)
  BY <1>0, UsedMade DEF IInv, Types
<1>4. /\ frame'[g].pc = "encoded" /\ frame'[g].op = op /\ frame'[g].self = self
      /\ frame'[g].owned = A /\ frame'[g].pins = pins
      /\ \A k \in Goroutine : k # g => frame'[k] = frame[k]
      /\ op = "new" => ~pins
      /\ A \cap (B \cup {self}) = {} /\ (self # Null => ~InFlight(self))
  BY <1>1, <1>2, <1>3 DEF Call, Starts
<1>5. \A x \in Handle : keep[x] \subseteq keep'[x] \cap Handle /\ (x # self => keep'[x] = keep[x])
  BY <1>2, <1>3
<1>6. Guards' = Guards /\ Guards \subseteq Handle
  <2>1. \A k \in Goroutine : HandedOver(k)' = HandedOver(k)
    BY <1>2, <1>4 DEF HandedOver, Idle
  <2> QED BY <1>2, <1>3, <2>1 DEF Guards
<1>7. Adapts(g)'
  <2>1. \A a \in A : keep'[a] = keep[a]
    BY <1>3, <1>4, <1>5
  <2>2. pins /\ self \in fin => A \subseteq keep'[self]
    BY <1>2, <1>3
  <2> QED BY <1>2, <1>4, <2>1, <2>2 DEF Adapts, Bare
<1>8. ASSUME NEW k \in Goroutine, k # g PROVE Adapts(k)'
  <2> DEFINE f == frame[k]
  <2>1. Adapts(k) /\ f.owned \subseteq Handle /\ frame'[k] = f
    BY <1>3, <1>4, <1>8 DEF HInv, HandsOver
  <2>2. \A a \in f.owned : keep'[a] = keep[a]
    <3>1. self # Null => self \notin f.owned
      BY <1>4 DEF InFlight
    <3> QED BY <1>5, <2>1, <3>1, NullAssumption
  <2>3. f.self \in fin => keep[f.self] \subseteq keep'[f.self]
    BY <1>3, <1>5
  <2> HIDE DEF f
  <2>4. frame'[k] = f /\ frame[k] = f
    BY <2>1 DEF f
  <2> QED BY <1>2, <2>1, <2>2, <2>3, <2>4 DEF Adapts, Bare
<1> QED BY <1>0, <1>2, <1>5, <1>6, <1>7, <1>8, QuietHandlers

\* A call ends: its handle guards what it made, and unregisters its adapter.
LEMMA FinishHandlers ==
  ASSUME Inv, IdInv, HInv, Careless = {}, NEW g \in Goroutine, Finish(g)
  PROVE  HInv'
<1> DEFINE f == frame[g]
<1>0. IInv /\ RInv
  BY DEF Inv
<1>1. PICK N \in SUBSET Handle : Ends(g, N) /\ Names(g, N)
  BY <1>0, FinishEnds
<1>2. /\ N \cap made = {} /\ UNCHANGED <<live, owner, handler>>
      /\ ptr' = [k \in Handle |-> IF k \in N THEN f.result
                                  ELSE IF k \in f.owned THEN Null ELSE ptr[k]]
      /\ keep' = [k \in Handle |-> IF k \in N THEN Depends(f) ELSE keep[k]]
      /\ \/ fin' = fin
         \/ f.op \in {"new", "impl"} /\ f.pc = "returned" /\ fin' = fin \cup N
  BY <1>1 DEF Ends, Names
<1>3. /\ frame'[g] = Idle /\ \A k \in Goroutine \ {g} : frame'[k] = frame[k]
      /\ Guards \subseteq Guards' /\ Guards' \subseteq Guards \cup N
      /\ \A k \in Guards : ptr'[k] = ptr[k]
  BY <1>0, <1>1, EndsReach
<1>4. /\ fin \subseteq made /\ made \subseteq Handle /\ keep \in [Handle -> SUBSET Handle]
      /\ \A h \in Handle \ made : keep[h] = {}
      /\ \A k \in Goroutine : HandsOver(k)
  BY <1>0, UsedMade DEF IInv, RInv, Lists
<1>5. /\ \A x \in Handle \ N : cb'[x] = cb[x] /\ keep'[x] = keep[x]
      /\ \A x \in N : UNCHANGED <<fin, cb>> \/ cb'[x] = f.id
  BY <1>1, <1>2 DEF Names, IdInv
<1>6. \A x \in Handle : keep[x] \subseteq keep'[x] \cap Handle
  BY <1>2, <1>4
<1>7. HandlersBacked'
  <2> SUFFICES ASSUME NEW k \in Guards', NEW o \in Tree(owner', {ptr'[k]}), handler'[o] # Null
               PROVE  Backed(keep', fin', cb', {k}, handler'[o])
    BY DEF HandlersBacked
  <2>1. CASE k \in Guards
    <3>1. {k} \in SUBSET Handle /\ o \in Tree(owner, {ptr[k]}) /\ handler'[o] = handler[o]
      BY <1>2, <1>3, <1>4, <2>1 DEF Guards
    <3>2. Backed(keep, fin, cb, {k}, handler[o])
      BY <2>1, <3>1 DEF HInv, HandlersBacked
    <3>3. \A x \in fin \cap Handle : x \in fin' /\ cb'[x] = cb[x]
      BY <1>2, <1>4, <1>5
    <3> QED BY <1>6, <3>1, <3>2, <3>3, BackedGrows
  <2>2. CASE k \notin Guards
    <3>1. k \in N /\ k \in fin' /\ k \notin fin
      BY <1>2, <1>3, <1>4, <2>2 DEF Guards
    <3>2. f.op \in {"new", "impl"} /\ f.pc = "returned" /\ ptr'[k] = f.result /\ cb'[k] = f.id
      BY <1>2, <1>5, <3>1
    <3>3. handler'[o] = f.id
      BY <1>2, <3>2 DEF HInv, Adapts
    <3>4. k \in Closure(keep', {k})
      BY <3>1, ClosureContains
    <3> QED BY <3>1, <3>2, <3>3, <3>4 DEF Backed
  <2> QED BY <2>1, <2>2
<1>8. Adapts(g)'
  BY <1>3 DEF Adapts, Idle
<1>9. ASSUME NEW k \in Goroutine, k # g PROVE Adapts(k)'
  <2> DEFINE e == frame[k]
  <2>1. Adapts(k) /\ e.owned \subseteq fin /\ frame'[k] = e
    BY <1>3, <1>4, <1>9 DEF HInv, HandsOver
  <2>2. \A x \in fin : keep'[x] = keep[x] /\ cb'[x] = cb[x] /\ x \in fin'
    BY <1>2, <1>4, <1>5
  <2> HIDE DEF e
  <2>3. frame'[k] = e /\ frame[k] = e
    BY <2>1 DEF e
  <2> QED BY <1>2, <2>1, <2>2, <2>3 DEF Adapts, Bare
<1> QED BY <1>2, <1>7, <1>8, <1>9 DEF HInv

\* A call returns or fails.  What its case has to show: no live object gets
\* another adapter, the results of other calls own what they owned, what guards
\* get is backed by what they reach, and the new object has only its own adapter.
LEMMA AnswersHandlers ==
  ASSUME Inv, HInv, NEW g \in Goroutine, NEW a \in Frame, Answers(g, a), cb' = cb,
         handler' \in [Object -> Id \cup {Null}], \A x \in Object \ live' : handler'[x] = Null,
         \A x \in live : handler'[x] \in {Null, handler[x]},
         \A r \in live : owner[r] = Null /\ Makers(r) # {} =>
           Tree(owner', {r}) \subseteq Tree(owner, {r}),
         \A k \in Guards \ frame[g].owned : \A x \in Tree(owner', {ptr[k]}) :
           handler'[x] # Null =>
             Backed(keep, fin, cb, {k}, handler'[x]),
         Adapts(g)'
  PROVE  HInv'
<1>0. IInv /\ RInv
  BY DEF Inv
<1>1. /\ UNCHANGED <<ptr, fin, keep>> /\ Guards' = Guards \ frame[g].owned
      /\ \A k \in Goroutine \ {g} : frame'[k] = frame[k]
  BY <1>0, AnswersReach
<1>2. HandlersBacked'
  BY <1>1 DEF HandlersBacked
<1>3. ASSUME NEW k \in Goroutine, k # g PROVE Adapts(k)'
  <2> DEFINE f == frame[k]
  <2>1. Adapts(k) /\ CallOK(k) /\ frame'[k] = f
    BY <1>0, <1>1, <1>3, RInvParts DEF HInv
  <2>2. ASSUME f.pc = "returned", f.op \in {"new", "impl"}, NEW o \in Tree(owner', {f.result})
        PROVE  handler'[o] \in {Null, f.id}
    <3>1. f.result \in Object /\ k \in Makers(f.result)
      BY <2>1, <2>2 DEF CallOK, HandsOver, Makers
    <3>2. f.result \in live /\ owner[f.result] = Null /\ {f.result} \in SUBSET live
      BY <1>0, <3>1 DEF IInv, Single
    <3>3. o \in Tree(owner, {f.result})
      BY <2>2, <3>1, <3>2
    <3>4. o \in live
      BY <1>0, <3>2, <3>3, TreeLive
    <3>5. handler[o] \in {Null, f.id}
      BY <2>1, <2>2, <3>3 DEF Adapts
    <3> QED BY <3>4, <3>5
  <2> HIDE DEF f
  <2>3. frame'[k] = f /\ frame[k] = f
    BY <2>1 DEF f
  <2> QED BY <1>1, <2>1, <2>2, <2>3 DEF Adapts, Bare
<1> QED BY <1>2, <1>3 DEF HInv

\* What a guard had it still backs.
LEMMA GuardBacks ==
  ASSUME Inv, HInv, NEW k \in Guards, NEW x \in Tree(owner, {ptr[k]}),
         handler'[x] \in {Null, handler[x]}, handler'[x] # Null
  PROVE  Backed(keep, fin, cb, {k}, handler'[x])
BY DEF HInv, HandlersBacked

\* A part has no adapter.
LEMMA PartHandlers ==
  ASSUME Inv, HInv, NEW g \in Goroutine, frame[g].pc = "encoded",
         NEW o \in Object, RunMakePart(g, o)
  PROVE  HInv'
<1> DEFINE f == frame[g]
<1>1. /\ f.op = "access" /\ o \notin live /\ live' = live \cup {o} /\ UNCHANGED <<handler, cb>>
      /\ frame' = [frame EXCEPT ![g].pc = "returned", ![g].result = o]
      /\ UNCHANGED <<handles, held, collector>>
  BY DEF RunMakePart, Return, handles
<1>2. /\ IInv /\ RInv /\ f \in Frame /\ frame \in [Goroutine -> Frame] /\ live \subseteq Object
      /\ CallOK(g) /\ f.self # Null
  BY <1>1, RInvParts DEF Inv, CallOK, Roles
<1>3. PICK a \in Frame : Answers(g, a) /\ a.op = "access"
  <2> DEFINE a == [f EXCEPT !.pc = "returned", !.result = o]
  <2>1. a \in Frame /\ Answers(g, a) /\ a.op = "access"
    BY <1>1, <1>2 DEF Answers, Answered, Frame
  <2> QED BY <2>1
<1>4. frame'[g] = a
  BY <1>2, <1>3, AnswersReach
<1>5. Adapts(g)'
  <2>1. a.pc # "encoded"
    BY <1>3 DEF Answers, Answered
  <2> QED BY <1>3, <1>4, <2>1 DEF Adapts
<1>6. handler[o] = Null /\ handler' = handler
  BY <1>1 DEF HInv
<1>7. \A k \in Guards \ frame[g].owned : \A x \in Tree(owner', {ptr[k]}) :
        handler'[x] # Null => Backed(keep, fin, cb, {k}, handler'[x])
  <2> SUFFICES ASSUME NEW k \in Guards, NEW x \in Tree(owner', {ptr[k]}), handler'[x] # Null
               PROVE  Backed(keep, fin, cb, {k}, handler'[x])
    OBVIOUS
  <2>1. {ptr[k]} \in SUBSET Object
    BY <1>2, GuardAlone
  <2>2. x \in Tree(owner, {ptr[k]})
    BY <1>2, <1>6, <2>1, PartTrees
  <2> QED BY <1>6, <2>2, GuardBacks
<1>8. ASSUME NEW r \in live, owner[r] = Null, Makers(r) # {}
      PROVE  Tree(owner', {r}) \subseteq Tree(owner, {r})
  <2>1. Anchor({f.self}, f.at)
    BY <1>2, RequestAnchored
  <2>2. {r} \in SUBSET Object /\ f.at \notin Tree(owner, {r})
    BY <1>2, <1>8, <2>1, ReceiverApart
  <2> QED BY <1>2, <2>2, PartTrees
<1>9. handler' \in [Object -> Id \cup {Null}] /\ \A x \in Object \ live' : handler'[x] = Null
  BY <1>1 DEF HInv
<1>10. \A x \in live : handler'[x] \in {Null, handler[x]}
  BY <1>6
<1> QED BY <1>1, <1>3, <1>5, <1>7, <1>8, <1>9, <1>10, AnswersHandlers

\* A new object has the adapter of the call; what it owns had none.
LEMMA ConstructHandlers ==
  ASSUME Inv, HInv, Careless = {}, NEW g \in Goroutine, frame[g].pc = "encoded",
         NEW o \in Object, RunConstruct(g, o)
  PROVE  HInv'
<1> DEFINE f == frame[g]
<1>1. /\ f.op \in {"new", "impl"} /\ o \notin live /\ live' = live \cup {o}
      /\ handler' = [handler EXCEPT ![o] = f.id] /\ cb' = cb
      /\ frame' = [frame EXCEPT ![g].pc = "returned", ![g].result = o]
      /\ UNCHANGED <<handles, held, collector>>
  BY DEF RunConstruct, Return, handles
<1>2. /\ IInv /\ RInv /\ f \in Frame /\ frame \in [Goroutine -> Frame] /\ live \subseteq Object
      /\ CallOK(g)
  BY RInvParts DEF Inv
<1>3. PICK a \in Frame : /\ Answers(g, a) /\ a.pc = "returned" /\ a.op = f.op
                         /\ a.result = o /\ a.id = f.id
  <2> DEFINE a == [f EXCEPT !.pc = "returned", !.result = o]
  <2>1. a \in Frame /\ Answers(g, a) /\ a.pc = "returned" /\ a.op = f.op /\ a.result = o
        /\ a.id = f.id
    BY <1>1, <1>2 DEF Answers, Answered, Frame
  <2> QED BY <2>1
<1>4. frame'[g] = a
  BY <1>2, <1>3, AnswersReach
<1>5. /\ \A x \in Object : x # o => handler'[x] = handler[x]
      /\ handler'[o] = f.id /\ handler' \in [Object -> Id \cup {Null}]
  BY <1>1, <1>2 DEF HInv, Frame
<1>6. ASSUME NEW x \in Tree(owner, f.taken) PROVE handler[x] = Null
  <2>1. PICK b \in f.owned : b \in Guards /\ x \in Tree(owner, {ptr[b]})
    BY <1>2, Taken
  <2>2. f.op = "new" /\ b \in Handle
    BY <1>1, <1>2, <2>1, GuardAlone DEF CallOK, HandsOver
  <2>3. Bare(b)
    BY <2>1, <2>2 DEF HInv, Adapts
  <2>4. handler[x] # Null => Backed(keep, fin, cb, {b}, handler[x])
    BY <2>1 DEF HInv, HandlersBacked
  <2> QED BY <2>2, <2>3, <2>4, BareBacks
<1>7. Adapts(g)'
  <2>1. ASSUME NEW x \in Tree(owner', {o}) PROVE handler'[x] \in {Null, f.id}
    <3>1. x = o \/ x \in Tree(owner, f.taken)
      BY <1>2, ConstructTrees
    <3>2. x \in Object
      BY DEF Tree
    <3> QED BY <1>5, <1>6, <3>1, <3>2
  <2> QED BY <1>1, <1>3, <1>4, <2>1 DEF Adapts
<1>8. \A r \in live : Tree(owner', {r}) = Tree(owner, {r}) /\ Tree(owner, {r}) \subseteq live
  <2>1. \A r \in live : {r} \in SUBSET live
    OBVIOUS
  <2> QED BY <1>2, <2>1, ConstructTrees, TreeLive
<1>9. \A k \in Guards \ frame[g].owned : \A x \in Tree(owner', {ptr[k]}) :
        handler'[x] # Null => Backed(keep, fin, cb, {k}, handler'[x])
  <2> SUFFICES ASSUME NEW k \in Guards, NEW x \in Tree(owner', {ptr[k]}), handler'[x] # Null
               PROVE  Backed(keep, fin, cb, {k}, handler'[x])
    OBVIOUS
  <2>1. ptr[k] \in live
    BY <1>2, GuardAlone
  <2>2. x \in Tree(owner, {ptr[k]}) /\ x \in live
    BY <1>8, <2>1
  <2>3. handler'[x] = handler[x]
    BY <1>1, <1>2, <1>5, <2>2
  <2> QED BY <2>2, <2>3, GuardBacks
<1>10. \A x \in live : handler'[x] \in {Null, handler[x]}
  BY <1>1, <1>2, <1>5
<1>11. \A x \in Object \ live' : handler'[x] = Null
  BY <1>1, <1>5 DEF HInv
<1> QED BY <1>1, <1>3, <1>5, <1>7, <1>8, <1>9, <1>10, <1>11, AnswersHandlers

\* What a method takes is bare, or reached by the receiver that guards it now.
LEMMA MethodHandlers ==
  ASSUME Inv, HInv, Careless = {}, NEW g \in Goroutine, frame[g].pc = "encoded",
         NEW o \in Object \cup {Null}, NEW S, RunMethod(g, o, S)
  PROVE  HInv'
<1> DEFINE f == frame[g]
<1>1. /\ f.op \in {"access", "method"} /\ UNCHANGED <<live, handler, cb>>
      /\ UNCHANGED <<handles, held, collector>>
  BY DEF RunMethod, handles
<1>2. /\ IInv /\ RInv /\ f \in Frame /\ frame \in [Goroutine -> Frame] /\ live \subseteq Object
      /\ CallOK(g) /\ keep \in [Handle -> SUBSET Handle]
  BY RInvParts, UsedMade DEF Inv
<1>3. PICK a \in Frame : Answers(g, a) /\ a.op = f.op
  BY <1>2, MethodAnswers
<1>4. frame'[g] = a
  BY <1>2, <1>3, AnswersReach
<1>5. Adapts(g)'
  <2>1. a.pc # "encoded"
    BY <1>3 DEF Answers, Answered
  <2> QED BY <1>1, <1>3, <1>4, <2>1 DEF Adapts
<1>6. /\ f.self \in Handle /\ f.self \in Used(f) /\ f.at = ptr[f.self] /\ f.at \in live
      /\ Anchor({f.self}, f.at)
      /\ \A R \in SUBSET Object :
           /\ Tree(owner', R) \subseteq Tree(owner, R) \cup Tree(owner, f.taken)
           /\ f.at \notin Tree(owner, R) => Tree(owner', R) = Tree(owner, R)
  BY <1>2, MethodTrees
<1>7. ASSUME NEW k \in Guards, NEW x \in Tree(owner', {ptr[k]}), handler'[x] # Null
      PROVE  Backed(keep, fin, cb, {k}, handler'[x])
  <2>1. /\ k \in Handle /\ ptr[k] \in live /\ owner[ptr[k]] = Null
        /\ {ptr[k]} \in SUBSET Object /\ handler'[x] = handler[x]
    BY <1>1, <1>2, GuardAlone
  <2>2. CASE x \in Tree(owner, {ptr[k]})
    BY <1>7, <2>1, <2>2, GuardBacks
  <2>3. CASE x \notin Tree(owner, {ptr[k]})
    <3>1. x \in Tree(owner, f.taken) /\ f.at \in Tree(owner, {ptr[k]})
      BY <1>6, <1>7, <2>1, <2>3
    <3>2. PICK b \in f.owned : b \in Guards /\ x \in Tree(owner, {ptr[b]})
      BY <1>2, <3>1, Taken
    <3>3. Backed(keep, fin, cb, {b}, handler[x]) /\ b \in Handle
      BY <1>2, <1>7, <2>1, <3>2, GuardAlone DEF HInv, HandlersBacked
    <3>4. ~Bare(b)
      BY <1>7, <2>1, <3>3, BareBacks
    <3>5. f.self \in fin /\ b \in keep[f.self]
      <4>1. Adapts(g)
        BY DEF HInv
      <4> QED BY <1>1, <3>2, <3>4, <4>1 DEF Adapts
    <3>6. f.self \in Guards
      <4>1. \A q \in Goroutine : f.self \notin HandedOver(q)
        BY <1>2, <1>6 DEF CallOK, InUse, HandedOver
      <4> QED BY <1>2, <1>6, <3>5, <4>1 DEF Guards
    <3>7. k = f.self
      <4>1. owner[f.at] = Null
        BY <1>2, <1>6, <3>6, GuardAlone
      <4>2. {f.at} \in SUBSET Object
        BY <1>2, <1>6
      <4>3. f.at \in Tree(owner, {f.at})
        BY <4>2, TreeContains
      <4>4. ptr[k] = f.at
        BY <1>2, <1>6, <2>1, <3>1, <4>1, <4>3, RootsApart
      <4> QED BY <1>2, <1>6, <3>6, <4>4, GuardAlone
    <3>8. {b} \subseteq Closure(keep, {k})
      <4>1. k \in Closure(keep, {k}) /\ keep[k] \subseteq Handle
        BY <1>2, <2>1, ClosureContains
      <4>2. keep[k] \subseteq Closure(keep, {k})
        BY <4>1, ClosureClosed
      <4> QED BY <3>5, <3>7, <4>2
    <3>9. Closure(keep, {b}) \subseteq Closure(keep, {k})
      BY <1>2, <3>8, ClosureWithin
    <3> QED BY <2>1, <3>3, <3>9 DEF Backed
  <2> QED BY <2>2, <2>3
<1>8. ASSUME NEW r \in live, owner[r] = Null, Makers(r) # {}
      PROVE  Tree(owner', {r}) \subseteq Tree(owner, {r})
  <2>1. {r} \in SUBSET Object /\ f.at \notin Tree(owner, {r})
    BY <1>2, <1>6, <1>8, ReceiverApart
  <2> QED BY <1>6, <2>1
<1>9. handler' \in [Object -> Id \cup {Null}] /\ \A x \in Object \ live' : handler'[x] = Null
  BY <1>1 DEF HInv
<1> QED BY <1>1, <1>3, <1>5, <1>7, <1>8, <1>9, AnswersHandlers

\* A callee that fails takes no adapter of others along.
LEMMA FailsHandlers ==
  ASSUME Inv, HInv, NEW g \in Goroutine, frame[g].pc = "encoded", RunFails(g)
  PROVE  HInv'
<1> DEFINE f == frame[g]
           A == frame[g].taken
<1>1. /\ Delete(A) /\ frame' = [frame EXCEPT ![g].pc = "failed"] /\ cb' = cb
      /\ UNCHANGED <<handles, held, collector>>
  BY DEF RunFails, Fail, handles
<1>2. /\ IInv /\ RInv /\ f \in Frame /\ frame \in [Goroutine -> Frame]
      /\ Lists /\ Rooted /\ live \subseteq Object
  BY RInvParts DEF Inv
<1>3. PICK a \in Frame : Answers(g, a) /\ a.pc = "failed"
  <2> DEFINE a == [f EXCEPT !.pc = "failed"]
  <2>1. a \in Frame /\ Answers(g, a) /\ a.pc = "failed"
    BY <1>1, <1>2 DEF Answers, Answered, Frame
  <2> QED BY <2>1
<1>4. Adapts(g)'
  <2>1. frame'[g] = a
    BY <1>2, <1>3, AnswersReach
  <2> QED BY <1>3, <2>1 DEF Adapts
<1>5. /\ A \in SUBSET live /\ \A x \in A : owner[x] = Null /\ Makers(x) = {}
      /\ \A k \in Guards \ f.owned : ptr[k] \notin A
  BY <1>2, Taken
<1>6. \A r \in live \ A : owner[r] = Null => Tree(owner', {r}) = Tree(owner, {r})
  <2> HIDE DEF A
  <2> QED BY <1>1, <1>2, <1>5, DeleteLeaves
<1>7. /\ handler' \in [Object -> Id \cup {Null}]
      /\ \A x \in Object : handler'[x] \in {Null, handler[x]}
      /\ \A x \in Object \ live' : handler'[x] = Null
  BY <1>1 DEF Delete, HInv
<1>8. ASSUME NEW k \in Guards \ frame[g].owned, NEW x \in Tree(owner', {ptr[k]}), handler'[x] # Null
      PROVE  Backed(keep, fin, cb, {k}, handler'[x])
  <2>1. ptr[k] \in live \ A /\ owner[ptr[k]] = Null
    BY <1>2, <1>5, GuardAlone
  <2>2. x \in Tree(owner, {ptr[k]}) /\ x \in Object
    BY <1>6, <2>1 DEF Tree
  <2> QED BY <1>7, <1>8, <2>2, GuardBacks
<1>9. \A r \in live : owner[r] = Null /\ Makers(r) # {} =>
        Tree(owner', {r}) \subseteq Tree(owner, {r})
  BY <1>5, <1>6
<1> QED BY <1>1, <1>2, <1>3, <1>4, <1>7, <1>8, <1>9, AnswersHandlers

\* A call that is refused leaves all adapters.
LEMMA RefusedHandlers ==
  ASSUME Inv, HInv, NEW g \in Goroutine, frame[g].pc = "encoded", RunRefused(g)
  PROVE  HInv'
<1> DEFINE f == frame[g]
<1>1. /\ UNCHANGED <<live, owner, handler, cb>> /\ frame' = [frame EXCEPT ![g].pc = "failed"]
      /\ UNCHANGED <<handles, held, collector>>
  BY DEF RunRefused, Fail, handles
<1>2. IInv /\ RInv /\ f \in Frame /\ frame \in [Goroutine -> Frame]
  BY RInvParts DEF Inv
<1>3. PICK a \in Frame : Answers(g, a) /\ a.pc = "failed"
  <2> DEFINE a == [f EXCEPT !.pc = "failed"]
  <2>1. a \in Frame /\ Answers(g, a)
    BY <1>1, <1>2 DEF Answers, Answered, Frame
  <2> QED BY <1>1, <1>2, <2>1 DEF Frame
<1>4. Adapts(g)'
  <2>1. frame'[g] = a
    BY <1>2, <1>3, AnswersReach
  <2> QED BY <1>3, <2>1 DEF Adapts
<1>5. /\ \A x : handler'[x] = handler[x]
      /\ handler' \in [Object -> Id \cup {Null}] /\ \A x \in Object \ live' : handler'[x] = Null
  BY <1>1 DEF HInv
<1>6. \A k \in Guards \ frame[g].owned : \A x \in Tree(owner', {ptr[k]}) :
        handler'[x] # Null => Backed(keep, fin, cb, {k}, handler'[x])
  BY <1>1, <1>5, GuardBacks
<1>7. \A r \in live : Tree(owner', {r}) \subseteq Tree(owner, {r})
  BY <1>1
<1> QED BY <1>1, <1>3, <1>4, <1>5, <1>6, <1>7, AnswersHandlers

\* Every step of a careful application and of the collector keeps the adapters.
LEMMA StepHandlers ==
  ASSUME Careless = {}, Inv, IdInv, HInv, [Next]_vars
  PROVE  HInv'
<1>1. ASSUME NEW g \in Goroutine, Run(g) PROVE HInv'
  <2>1. frame[g].pc = "encoded"
    BY <1>1 DEF Run
  <2>2. ASSUME NEW o \in Object, RunConstruct(g, o) PROVE HInv'
    BY <2>1, <2>2, ConstructHandlers
  <2>3. ASSUME NEW o \in Object \cup {Null}, NEW S \in {{}, frame[g].in}, RunMethod(g, o, S)
        PROVE  HInv'
    BY <2>1, <2>3, MethodHandlers
  <2>4. ASSUME NEW o \in Object, RunMakePart(g, o) PROVE HInv'
    BY <2>1, <2>4, PartHandlers
  <2>5. ASSUME RunFails(g) PROVE HInv'
    BY <2>1, <2>5, FailsHandlers
  <2>6. ASSUME RunRefused(g) PROVE HInv'
    BY <2>1, <2>6, RefusedHandlers
  <2> QED BY <1>1, <2>2, <2>3, <2>4, <2>5, <2>6 DEF Run
<1>2. ASSUME NEW g \in Goroutine, Begin(g) PROVE HInv'
  BY <1>2, BeginHandlers
<1>3. ASSUME NEW g \in Goroutine, Finish(g) PROVE HInv'
  BY <1>3, FinishHandlers
<1>4. ASSUME Free PROVE HInv'
  BY <1>4, FreeHandlers
<1>5. ASSUME (\E h \in Handle : Drop(h) \/ Finalize(h)) \/ Unregister \/ Collect \/ UNCHANGED vars
      PROVE  HInv'
  BY <1>5, OthersKeepHandlers
<1> QED BY <1>1, <1>2, <1>3, <1>4, <1>5 DEF Next

\* C++ never calls a handler that is gone: as long as an object implemented in
\* Go is alive and was not lost by a call that was refused, whoever will
\* unregister its adapter is kept by the handle that frees the object; and every
\* adapter has one call or one finalizer to unregister it, however calls fail and
\* in whatever order finalizers run.
THEOREM HandlersAreRegistered ==
  ASSUME Careless = {}
  PROVE  Spec => []HandlersRegistered
<1>1. Init => IdInv /\ HInv
  BY NullAssumption DEF Init, O!Init, IdInv, OwnId, HInv, HandlersBacked, Guards, Adapts, Idle
<1>2. Inv /\ IdInv /\ HInv /\ [Next]_vars => IdInv' /\ HInv'
  <2>1. Inv => IInv
    BY DEF Inv
  <2> QED BY <2>1, StepIds, StepHandlers
<1>3. Inv /\ IdInv /\ HInv => HandlersRegistered
  BY InvHandlers
<1>4. Spec => []Inv
  BY AlwaysInv
<1> QED BY <1>1, <1>2, <1>3, <1>4, PTL DEF Spec
=============================================================================
