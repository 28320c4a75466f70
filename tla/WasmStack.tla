------------------------------ MODULE WasmStack ------------------------------
(***************************************************************************)
(* What both Go runtimes promise about the one C stack of the wasm module:  *)
(* activations of exported functions are strictly nested.  A call may begin *)
(* at any time on top of the others, and only the activation on top ends.   *)
(* The order of the stack says nothing of why that is so; WazeroRuntime and *)
(* Wasm2goRuntime get it from two different locking disciplines.            *)
(***************************************************************************)
EXTENDS Sequences, SequencesExt

CONSTANT Goroutine

VARIABLE stack    \* the goroutine of each live activation, oldest first

Init == stack = <<>>

Enter(g) == stack' = Append(stack, g)

Leave(g) == /\ stack # <<>>
            /\ Last(stack) = g
            /\ stack' = Front(stack)

Next == \E g \in Goroutine : Enter(g) \/ Leave(g)

Spec == Init /\ [][Next]_stack
===============================================================================
