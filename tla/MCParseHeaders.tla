---------------------------- MODULE MCParseHeaders ----------------------------
(* Instances of ParseHeaders: three headers, what they include, and what the *)
(* .d files list.                                                            *)
EXTENDS ParseHeaders

CONSTANTS h1, h2, h3

Three == {<<h1, h2, h3>>}
OneOrTwo == {<<h1, h2>>, <<h2>>}

Apart == [h \in Header |-> {}]
\* h1 includes h2.
Chain == [h \in Header |-> IF h = h1 THEN {h2} ELSE {}]
=============================================================================
