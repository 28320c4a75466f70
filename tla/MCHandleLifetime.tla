---------------------------- MODULE MCHandleLifetime ----------------------------
(***************************************************************************)
(* Instances of HandleLifetime.                                             *)
(***************************************************************************)
EXTENDS HandleLifetime, TLC

MCSymmetry == Permutations(Goroutine) \cup Permutations(Object) \cup Permutations(Handle)

CONSTANTS MaxTotal,   \* objects, lost objects, handles and pins together
          MaxPins,    \* entries of all keepAlive lists
          MaxLost,    \* lost objects
          MaxShared   \* objects, and handles, where two calls overlap

Pins == Cardinality({p \in Handle \X Handle : p[2] \in keep[p[1]]})
Overlap == Cardinality({g \in Goroutine : frame[g] # Idle}) > 1

\* Two calls overlap only where nothing is lost and there are no Go-implemented
\* objects; one call at a time meets everything.
MCBound ==
  /\ Cardinality(live) + Cardinality(lost) + Cardinality(made) + Pins <= MaxTotal
  /\ Pins <= MaxPins
  /\ Cardinality(lost) <= MaxLost
  /\ Overlap => /\ callbacks = {} /\ lost = {}
                /\ Cardinality(live) <= MaxShared /\ Cardinality(made) <= MaxShared
=============================================================================
