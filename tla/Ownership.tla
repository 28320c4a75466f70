------------------------------ MODULE Ownership ------------------------------
(***************************************************************************)
(* What the generated bindings promise of the C++ objects behind their      *)
(* handles: an object is made once, belongs to Go or to one live object,     *)
(* and is destroyed once, with all that belongs to it, by whoever owns it.   *)
(***************************************************************************)
EXTENDS FiniteSets

CONSTANTS Object, Go

VARIABLES
  live,    \* the objects there are; an address freed is used again
  owner    \* owner[o]: Go, or the object that o belongs to

\* S and everything that belongs to its members.
Owned(S) ==
  {o \in Object : \A T \in SUBSET Object :
     S \subseteq T /\ (\A x \in Object : owner[x] \in T => x \in T) => o \in T}

GoOwned == {o \in live : owner[o] = Go}

Init == /\ live = {}
        /\ owner = [o \in Object |-> Go]

\* o is made, for Go or for a live object, and takes some objects over.
Make(o) ==
  /\ o \notin live
  /\ live' = live \cup {o}
  /\ \E p \in live \cup {Go}, A \in SUBSET GoOwned :
       owner' = [x \in Object |-> IF x = o THEN p ELSE IF x \in A THEN o ELSE owner[x]]

\* p takes some objects over; it does not belong to any of them.
Transfer(p) ==
  /\ p \in live
  /\ UNCHANGED live
  /\ \E A \in SUBSET GoOwned :
       /\ p \notin Owned(A)
       /\ owner' = [x \in Object |-> IF x \in A THEN p ELSE owner[x]]

\* Some objects that Go owns are destroyed.
Release ==
  \E A \in SUBSET GoOwned :
    /\ live' = live \ Owned(A)
    /\ owner' = [x \in Object |-> IF x \in Owned(A) THEN Go ELSE owner[x]]

Next == Release \/ \E o \in Object : Make(o) \/ Transfer(o)

Spec == Init /\ [][Next]_<<live, owner>>
=============================================================================
