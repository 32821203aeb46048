--------------------------- MODULE MCProjectGraph ---------------------------
EXTENDS ProjectGraph, TLC

CONSTANTS a, b

\* a imports b and may lose its export; so may b, and then imports a.
MCContents == (a :> {[imports |-> {b}, exports |-> TRUE], [imports |-> {b}, exports |-> FALSE]})
           @@ (b :> {[imports |-> {}, exports |-> TRUE], [imports |-> {a}, exports |-> FALSE]})

\* Processes and calls are interchangeable.
Symmetry == Permutations(Procs) \union Permutations(Jobs)
============================================================================
